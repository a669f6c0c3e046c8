------------------------- MODULE EventTransportProofs -------------------------
(***************************************************************************)
(* What holds of EventTransport for any number of events, retries and      *)
(* changes of the environment, over a network that loses and delays.       *)
(***************************************************************************)
EXTENDS EventTransport, FiniteSetTheorems, TLAPS

\* What a call relies on at each step.
Placed(f) ==
  /\ f.options = Nil => f.attempt = 0
  /\ f.options # Nil => f.attempt <= f.options.retryCount
  /\ f.at = "new" => f.options = Nil
  /\ f.at \in {"waiting", "delay"} => f.options # Nil
  /\ f.at = "delay" => f.attempt # f.options.retryCount

\* A call that has ended tells what happened; n copies have been accepted.
Honest(f, n) ==
  f.at = "done" /\ f.options # Nil =>
    \/ f.result = "delivered" /\ n > 0
    \/ f.result = GivenUp(f.options) /\ f.attempt = f.options.retryCount

InFlight(c) == {m \in wire : m[1] = c}

Sent(f) == IF f.options = Nil THEN 0 ELSE f.attempt + 1

\* Every attempt is one copy, on its way or accepted, or none.
Copies(c) ==
  /\ IsFiniteSet(InFlight(c))
  /\ received[c] + Cardinality(InFlight(c)) <= Sent(call[c])

\* What is on its way was sent by an attempt that has been made.
Attempted(m) == call[m[1]].options # Nil /\ m[2] <= call[m[1]].attempt

\* The inductive invariant.
Inv ==
  /\ TypeOK
  /\ \A c \in Calls : Placed(call[c]) /\ Honest(call[c], received[c]) /\ Copies(c)
  /\ \A m \in wire : Attempted(m)
  /\ \A a \in answers : a.ok => received[a.of[1]] > 0

-----------------------------------------------------------------------------
LEMMA CurrentCall ==
  ASSUME Inv, NEW c \in Calls
  PROVE  /\ call \in [Calls -> Call] /\ call[c] \in Call
         /\ Placed(call[c]) /\ Honest(call[c], received[c]) /\ Copies(c)
         /\ received[c] \in Nat
  BY DEF Inv, TypeOK

LEMMA SettingOptions ==
  ASSUME NEW f \in Call, f.options # Nil
  PROVE  f.options \in Settings /\ f.options.retryCount \in Nat /\ f.attempt \in Nat
  BY TransportAssumption DEF Call, Setting

LEMMA NewIsCall == NewCall \in Call
  BY DEF NewCall, Call

\* A subset of what is on its way keeps the count.
LEMMA FewerCopies ==
  ASSUME Inv, NEW c \in Calls, wire' \subseteq wire, UNCHANGED received,
         Sent(call'[c]) = Sent(call[c])
  PROVE  Copies(c)'
<1> PICK S : S = InFlight(c)
  OBVIOUS
<1> PICK T : T = InFlight(c)'
  OBVIOUS
<1>1. IsFiniteSet(S) /\ T \subseteq S
  BY CurrentCall DEF Copies, InFlight
<1>2. IsFiniteSet(T) /\ Cardinality(T) <= Cardinality(S)
  BY <1>1, FS_Subset
<1>3. Cardinality(S) \in Nat /\ Cardinality(T) \in Nat
  BY <1>1, <1>2, FS_CardinalityType
<1>4. received[c] \in Nat /\ received[c] + Cardinality(S) <= Sent(call[c])
  BY CurrentCall DEF Copies
<1>5. Sent(call[c]) \in Nat
  <2>1. call[c] \in Call
    BY CurrentCall
  <2> QED
    BY <2>1 DEF Sent, Call
<1> QED
  BY <1>2, <1>3, <1>4, <1>5 DEF Copies

\* A step of one call after which no more is on its way.
LEMMA MoveStep ==
  ASSUME Inv, NEW c \in Calls, NEW f \in Call, Move(c, f),
         f.options = call[c].options, f.attempt = call[c].attempt,
         Placed(f), Honest(f, received[c]),
         wire' \subseteq wire, answers' \subseteq answers, memory' \subseteq Calls,
         UNCHANGED <<env, changes, cached, received>>
  PROVE  Inv'
<1>1. /\ call' \in [Calls -> Call] /\ call'[c] = f
      /\ \A d \in Calls \ {c} : call'[d] = call[d]
  BY CurrentCall DEF Move
<1>2. \A d \in Calls : /\ call'[d].options = call[d].options
                       /\ call'[d].attempt = call[d].attempt
  BY <1>1
<1>3. \A d \in Calls : Placed(call'[d]) /\ Honest(call'[d], received[d])
  BY <1>1 DEF Inv
<1>4. (\A d \in Calls : Copies(d))'
  BY <1>2, FewerCopies DEF Sent
<1>5. (\A m \in wire : Attempted(m))'
  <2> SUFFICES ASSUME NEW m \in wire' PROVE Attempted(m)'
    OBVIOUS
  <2>1. m \in wire /\ m[1] \in Calls /\ Attempted(m)
    BY DEF Inv, TypeOK
  <2> QED
    BY <1>2, <2>1 DEF Attempted
<1>6. TypeOK'
  <2>1. \A d \in Calls : Placed(call'[d])
    BY <1>3
  <2> QED
    BY <1>1, <2>1 DEF Inv, TypeOK, Placed
<1>7. (\A d \in Calls : Placed(call[d]) /\ Honest(call[d], received[d]))'
  BY <1>3 DEF Placed, Honest, GivenUp
<1>8. (\A a \in answers : a.ok => received[a.of[1]] > 0)'
  BY DEF Inv
<1> QED
  BY <1>4, <1>5, <1>6, <1>7, <1>8 DEF Inv

\* A step of one call that sends its next attempt.
LEMMA SendStep ==
  ASSUME Inv, NEW c \in Calls, NEW f \in Call, Move(c, f),
         f.at = "waiting", Placed(f), Sent(f) = Sent(call[c]) + 1,
         wire' = wire \cup {<<c, f.attempt>>}, cached' \in Settings \cup {Nil},
         call[c].options # Nil => f.attempt > call[c].attempt,
         UNCHANGED <<env, changes, memory, answers, received>>
  PROVE  Inv'
<1> PICK n : n = f.attempt
  OBVIOUS
<1>1. n \in Nat /\ f.options # Nil
  BY DEF Call, Placed
<1>2. /\ call' \in [Calls -> Call] /\ call'[c] = f
      /\ \A d \in Calls \ {c} : call'[d] = call[d]
  BY CurrentCall DEF Move
<1>3. \A d \in Calls : Placed(call'[d]) /\ Honest(call'[d], received[d])
  BY <1>2 DEF Inv, Honest
<1>4. \A m \in wire : m \in Calls \X Nat /\ Attempted(m)
  BY DEF Inv, TypeOK
<1>5. <<c, n>> \notin wire
  <2> SUFFICES ASSUME <<c, n>> \in wire PROVE FALSE
    OBVIOUS
  <2>1. call[c].options # Nil /\ n <= call[c].attempt /\ call[c].attempt \in Nat
    BY <1>4, CurrentCall DEF Attempted, Call
  <2> QED
    BY <1>1, <2>1
<1>6. Copies(c)'
  <2>1. InFlight(c)' = InFlight(c) \cup {<<c, n>>} /\ <<c, n>> \notin InFlight(c)
    BY <1>5 DEF InFlight
  <2>2. /\ IsFiniteSet(InFlight(c)')
        /\ Cardinality(InFlight(c)') = Cardinality(InFlight(c)) + 1
    <3> PICK S : S = InFlight(c)
      OBVIOUS
    <3> PICK m : m = <<c, n>>
      OBVIOUS
    <3> PICK T : T = InFlight(c)'
      OBVIOUS
    <3>1. IsFiniteSet(S) /\ m \notin S /\ T = S \cup {m}
      BY <2>1, CurrentCall DEF Copies
    <3>2. IsFiniteSet(T) /\ Cardinality(T) = Cardinality(S) + 1
      BY <3>1, FS_AddElement
    <3> QED
      BY <3>2
  <2>3. /\ Cardinality(InFlight(c)) \in Nat /\ received[c] \in Nat
        /\ received[c] + Cardinality(InFlight(c)) <= Sent(call[c])
    BY CurrentCall, FS_CardinalityType DEF Copies
  <2>4. Sent(call[c]) \in Nat
    BY CurrentCall DEF Sent, Call
  <2>5. Sent(call'[c]) = Sent(call[c]) + 1 /\ received' = received
    BY <1>2
  <2>6. received[c] + Cardinality(InFlight(c)') <= Sent(call'[c])
    BY <2>2, <2>3, <2>4, <2>5
  <2> QED
    BY <2>2, <2>5, <2>6 DEF Copies, Sent
<1>7. ASSUME NEW d \in Calls, d # c
      PROVE  Copies(d)'
  <2>1. InFlight(d)' = InFlight(d) /\ call'[d] = call[d]
    BY <1>2, <1>7 DEF InFlight
  <2> QED
    BY <2>1, CurrentCall DEF Copies, Sent
<1>8. (\A m \in wire : Attempted(m))'
  <2> SUFFICES ASSUME NEW m \in wire' PROVE Attempted(m)'
    OBVIOUS
  <2>1. CASE m = <<c, n>>
    BY <1>1, <1>2, <2>1 DEF Attempted
  <2>2. CASE m \in wire /\ m[1] # c
    BY <1>2, <1>4, <2>2 DEF Attempted
  <2>3. CASE m \in wire /\ m[1] = c
    <3>1. call[c].options # Nil /\ m[2] <= call[c].attempt /\ m[2] \in Nat
      BY <1>4, <2>3 DEF Attempted
    <3>2. call[c].attempt \in Nat
      BY CurrentCall DEF Call
    <3>3. m[2] <= n
      BY <1>1, <3>1, <3>2
    <3> QED
      BY <1>1, <1>2, <2>3, <3>3 DEF Attempted
  <2> QED
    BY <2>1, <2>2, <2>3
<1>9. TypeOK'
  <2>1. \A d \in Calls : Placed(call'[d])
    BY <1>3
  <2>2. wire' \subseteq Calls \X Nat
    BY <1>1 DEF Inv, TypeOK
  <2> QED
    BY <1>2, <2>1, <2>2 DEF Inv, TypeOK, Placed
<1>10. (\A d \in Calls : Placed(call[d]) /\ Honest(call[d], received[d]))'
  BY <1>3 DEF Placed, Honest, GivenUp
<1>11. (\A a \in answers : a.ok => received[a.of[1]] > 0)'
  BY DEF Inv
<1> QED
  BY <1>6, <1>7, <1>8, <1>9, <1>10, <1>11 DEF Inv

\* A step of the environment or the network that leaves the calls alone and
\* adds nothing to what is on its way.
LEMMA CalmStep ==
  ASSUME Inv, env' \in Settings, changes' \in 0 .. MaxSettings,
         cached' \in Settings \cup {Nil}, memory' \subseteq Calls,
         wire' \subseteq wire, answers' \subseteq answers, UNCHANGED <<call, received>>
  PROVE  Inv'
<1>1. TypeOK'
  BY DEF Inv, TypeOK
<1>2. (\A c \in Calls : Placed(call[c]) /\ Honest(call[c], received[c]))'
  BY DEF Inv, Placed, Honest, GivenUp
<1>3. (\A c \in Calls : Copies(c))'
  BY FewerCopies
<1>4. (\A m \in wire : Attempted(m))'
  BY DEF Inv, Attempted
<1>5. (\A a \in answers : a.ok => received[a.of[1]] > 0)'
  BY DEF Inv
<1> QED
  BY <1>1, <1>2, <1>3, <1>4, <1>5 DEF Inv

-----------------------------------------------------------------------------
LEMMA ConfigureStep == ASSUME Inv, Configure PROVE Inv'
<1>1. env' \in Settings /\ changes' \in 0 .. MaxSettings
  BY TransportAssumption DEF Configure, Inv, TypeOK
<1> QED
  BY <1>1, CalmStep DEF Configure, network, Inv, TypeOK

LEMMA ResetStep == ASSUME Inv, Reset PROVE Inv'
<1>1. env' \in Settings /\ changes' \in 0 .. MaxSettings
  BY TransportAssumption DEF Reset, Inv, TypeOK
<1> QED
  BY <1>1, CalmStep DEF Reset, network

LEMMA LoseStep == ASSUME Inv, Lose PROVE Inv'
<1>1. wire' \subseteq wire /\ answers' \subseteq answers
  BY DEF Lose
<1> QED
  BY <1>1, CalmStep DEF Lose, Inv, TypeOK

LEMMA PublishLocallyStep ==
  ASSUME Inv, NEW c \in Calls, PublishLocally(c)
  PROVE  Inv'
<1> PICK f : f = [call[c] EXCEPT !.at = "done", !.result = "kept"]
  OBVIOUS
<1>1. /\ f \in Call /\ f.at = "done" /\ f.options = call[c].options
      /\ f.attempt = call[c].attempt
  BY CurrentCall DEF Call
<1>2. Placed(f) /\ Honest(f, received[c])
  BY <1>1, CurrentCall DEF Placed, Honest, PublishLocally
<1>3. memory' \subseteq Calls
  BY DEF PublishLocally, Inv, TypeOK
<1> QED
  BY <1>1, <1>2, <1>3, MoveStep DEF PublishLocally, End, network

LEMMA PublishOverHttpStep ==
  ASSUME Inv, NEW c \in Calls, PublishOverHttp(c)
  PROVE  Inv'
<1> PICK options : options = IF cached # Nil /\ SameOptions(cached, env) THEN cached ELSE env
  OBVIOUS
<1>1. options \in Settings /\ options # Nil /\ options.retryCount \in Nat
  BY TransportAssumption DEF Inv, TypeOK, Setting
<1> PICK f : f = [NewCall EXCEPT !.at = "waiting", !.options = options]
  OBVIOUS
<1>2. f \in Call /\ f.at = "waiting" /\ f.options = options /\ f.attempt = 0
  BY <1>1 DEF NewCall, Call
<1>3. Placed(f) /\ Sent(f) = 1
  BY <1>1, <1>2 DEF Placed, Sent
<1>4. call[c].options = Nil /\ Sent(call[c]) = 0
  BY CurrentCall DEF PublishOverHttp, Placed, Sent
<1>5. /\ Move(c, f) /\ wire' = wire \cup {<<c, f.attempt>>} /\ cached' = options
      /\ UNCHANGED <<env, changes, memory, answers, received>>
  BY <1>2 DEF PublishOverHttp
<1>6. /\ cached' \in Settings \cup {Nil} /\ Sent(f) = Sent(call[c]) + 1
      /\ call[c].options # Nil => f.attempt > call[c].attempt
  BY <1>1, <1>3, <1>4, <1>5
<1> QED
  BY <1>2, <1>3, <1>5, <1>6, SendStep

\* After a failed attempt.
LEMMA FailedStep ==
  ASSUME Inv, NEW c \in Calls, call[c].at = "waiting", AttemptFailed(c),
         wire' \subseteq wire, answers' \subseteq answers,
         UNCHANGED <<env, changes, cached, memory, received>>
  PROVE  Inv'
<1>1. memory' \subseteq Calls
  BY DEF Inv, TypeOK
<1>2. call[c].options # Nil
  BY CurrentCall DEF Placed
<1>3. CASE LastAttempt(call[c])
  <2> PICK result : result = GivenUp(call[c].options)
    OBVIOUS
  <2> PICK f : f = [call[c] EXCEPT !.at = "done", !.result = result]
    OBVIOUS
  <2>1. /\ f \in Call /\ f.at = "done" /\ f.options = call[c].options
        /\ f.attempt = call[c].attempt /\ f.result = result
    BY CurrentCall DEF Call, GivenUp
  <2>2. Placed(f) /\ Honest(f, received[c])
    BY <1>3, <2>1, CurrentCall DEF Placed, Honest, LastAttempt
  <2>3. Move(c, f)
    BY <1>3 DEF AttemptFailed, End
  <2> QED
    BY <1>1, <2>1, <2>2, <2>3, MoveStep
<1>4. CASE ~LastAttempt(call[c])
  <2> PICK f : f = [call[c] EXCEPT !.at = "delay"]
    OBVIOUS
  <2>1. /\ f \in Call /\ f.at = "delay" /\ f.options = call[c].options
        /\ f.attempt = call[c].attempt
    BY CurrentCall DEF Call
  <2>2. Placed(f) /\ Honest(f, received[c])
    BY <1>2, <1>4, <2>1, CurrentCall DEF Placed, Honest, LastAttempt
  <2>3. Move(c, f)
    BY <1>4 DEF AttemptFailed
  <2> QED
    BY <1>1, <2>1, <2>2, <2>3, MoveStep
<1> QED
  BY <1>3, <1>4

LEMMA ReceiveStep ==
  ASSUME Inv, NEW c \in Calls, Receive(c)
  PROVE  Inv'
<1> PICK a \in answers :
      /\ a.of = <<c, call[c].attempt>>
      /\ answers' = answers \ {a}
      /\ IF Accepted(a) THEN End(c, "delivered") ELSE AttemptFailed(c)
  BY DEF Receive
<1>1. CASE ~Accepted(a)
  BY <1>1, FailedStep DEF Receive
<1>2. CASE Accepted(a)
  <2> PICK f : f = [call[c] EXCEPT !.at = "done", !.result = "delivered"]
    OBVIOUS
  <2>1. /\ f \in Call /\ f.at = "done" /\ f.options = call[c].options
        /\ f.attempt = call[c].attempt /\ f.result = "delivered"
    BY CurrentCall DEF Call
  <2>2. a.of[1] = c /\ received[c] > 0
    BY <1>2 DEF Accepted, Inv
  <2>3. Placed(f) /\ Honest(f, received[c])
    BY <2>1, <2>2, CurrentCall DEF Placed, Honest
  <2>4. memory' \subseteq Calls
    BY DEF Receive, Inv, TypeOK
  <2>5. Move(c, f)
    BY <1>2 DEF End
  <2> QED
    BY <2>1, <2>3, <2>4, <2>5, MoveStep DEF Receive
<1> QED
  BY <1>1, <1>2

LEMMA RetryStep ==
  ASSUME Inv, NEW c \in Calls, Retry(c)
  PROVE  Inv'
<1> PICK f : f = [call[c] EXCEPT !.at = "waiting", !.attempt = call[c].attempt + 1]
  OBVIOUS
<1>1. call[c] \in Call /\ Placed(call[c]) /\ call[c].at = "delay" /\ call[c].options # Nil
  BY CurrentCall DEF Retry, Placed
<1>2. call[c].options.retryCount \in Nat /\ call[c].attempt \in Nat
  BY <1>1, SettingOptions
<1>3. /\ f \in Call /\ f.at = "waiting" /\ f.options = call[c].options
      /\ f.attempt = call[c].attempt + 1
  <2> PICK n \in Nat : n = call[c].attempt + 1
    BY <1>2
  <2>1. f = [call[c] EXCEPT !.at = "waiting", !.attempt = n]
    OBVIOUS
  <2> QED
    BY <1>1, <2>1 DEF Call
<1>4. Placed(f) /\ Sent(f) = Sent(call[c]) + 1 /\ f.attempt > call[c].attempt
  BY <1>1, <1>2, <1>3 DEF Placed, Sent
<1>5. /\ Move(c, f) /\ wire' = wire \cup {<<c, f.attempt>>}
      /\ UNCHANGED <<env, changes, cached, memory, answers, received>>
  BY <1>3 DEF Retry
<1>6. cached' \in Settings \cup {Nil}
  BY <1>5 DEF Inv, TypeOK
<1> QED
  BY <1>3, <1>4, <1>5, <1>6, SendStep

LEMMA ArriveStep ==
  ASSUME Inv, NEW m \in wire, Arrive(m)
  PROVE  Inv'
<1> PICK ok \in BOOLEAN :
      /\ received' = IF ok THEN [received EXCEPT ![m[1]] = @ + 1] ELSE received
      /\ answers' = answers \cup {[of |-> m, ok |-> ok]}
  BY DEF Arrive
<1>1. wire' = wire \ {m} /\ UNCHANGED <<env, changes, cached, memory, call>>
  BY DEF Arrive
<1>2. m \in Calls \X Nat /\ m[1] \in Calls /\ received \in [Calls -> Nat]
  BY DEF Inv, TypeOK
<1>3. /\ received' \in [Calls -> Nat]
      /\ \A c \in Calls : received'[c] >= received[c]
      /\ \A c \in Calls \ {m[1]} : received'[c] = received[c]
      /\ received'[m[1]] <= received[m[1]] + 1
      /\ ok => received'[m[1]] > 0
  BY <1>2
<1>4. TypeOK'
  <2>1. answers' \subseteq [of : Calls \X Nat, ok : BOOLEAN] /\ wire' \subseteq Calls \X Nat
    BY <1>1, <1>2 DEF Inv, TypeOK
  <2> QED
    BY <1>1, <1>3, <2>1 DEF Inv, TypeOK
<1>5. ASSUME NEW c \in Calls
      PROVE  (Placed(call[c]) /\ Honest(call[c], received[c]))'
  <2>1. received[c] \in Nat /\ received'[c] \in Nat /\ received'[c] >= received[c]
    BY <1>2, <1>3
  <2>2. Placed(call[c]) /\ Honest(call[c], received[c])
    BY CurrentCall
  <2>3. Honest(call[c], received'[c])
    BY <2>1, <2>2 DEF Honest
  <2> QED
    BY <1>1, <2>2, <2>3 DEF Placed, Honest, GivenUp
<1>6. ASSUME NEW c \in Calls
      PROVE  Copies(c)'
  <2>1. CASE c # m[1]
    <3>1. InFlight(c)' = InFlight(c) /\ received'[c] = received[c]
      BY <1>1, <1>3, <2>1 DEF InFlight
    <3> QED
      BY <1>1, <3>1, CurrentCall DEF Copies, Sent
  <2>2. CASE c = m[1]
    <3>1. InFlight(c)' = InFlight(c) \ {m} /\ m \in InFlight(c)
      BY <1>1, <2>2 DEF InFlight
    <3>2. /\ IsFiniteSet(InFlight(c)')
          /\ Cardinality(InFlight(c)') = Cardinality(InFlight(c)) - 1
      BY <3>1, CurrentCall, FS_RemoveElement DEF Copies
    <3>3. /\ Cardinality(InFlight(c)) \in Nat
          /\ received[c] + Cardinality(InFlight(c)) <= Sent(call[c])
      BY CurrentCall, FS_CardinalityType DEF Copies
    <3>4. Sent(call[c]) \in Nat
      BY CurrentCall DEF Sent, Call
    <3>5. received[c] \in Nat /\ received'[c] \in Nat /\ received'[c] <= received[c] + 1
      BY <1>2, <1>3, <2>2
    <3>6. received'[c] + Cardinality(InFlight(c)') <= Sent(call[c])
      BY <3>2, <3>3, <3>4, <3>5
    <3> QED
      BY <1>1, <3>2, <3>6 DEF Copies, Sent
  <2> QED
    BY <2>1, <2>2
<1>7. (\A w \in wire : Attempted(w))'
  BY <1>1 DEF Inv, Attempted
<1>8. ASSUME NEW a \in answers', a.ok
      PROVE  received'[a.of[1]] > 0
  <2>1. CASE a \in answers
    <3>1. a.of \in Calls \X Nat /\ received[a.of[1]] > 0
      BY <1>8, <2>1 DEF Inv, TypeOK
    <3>2. a.of[1] \in Calls
      BY <3>1
    <3>3. received[a.of[1]] \in Nat /\ received'[a.of[1]] \in Nat
          /\ received'[a.of[1]] >= received[a.of[1]]
      BY <1>2, <1>3, <3>2
    <3> QED
      BY <3>1, <3>3
  <2>2. CASE a = [of |-> m, ok |-> ok]
    BY <1>3, <1>8, <2>2
  <2> QED
    BY <2>1, <2>2
<1> QED
  BY <1>4, <1>5, <1>6, <1>7, <1>8 DEF Inv

-----------------------------------------------------------------------------
LEMMA InitInv == Init => Inv
<1> SUFFICES ASSUME Init PROVE Inv
  OBVIOUS
<1>1. NewCall.at = "new" /\ NewCall.options = Nil /\ NewCall.attempt = 0
  BY DEF NewCall
<1>2. TypeOK
  BY <1>1, NewIsCall, TransportAssumption DEF Init, TypeOK
<1>3. ASSUME NEW c \in Calls
      PROVE  Placed(call[c]) /\ Honest(call[c], received[c]) /\ Copies(c)
  <2>1. call[c] = NewCall /\ received[c] = 0 /\ InFlight(c) = {}
    BY DEF Init, InFlight
  <2>2. IsFiniteSet({}) /\ Cardinality({}) = 0
    BY FS_EmptySet
  <2> QED
    BY <1>1, <2>1, <2>2 DEF Placed, Honest, Copies, Sent
<1> QED
  BY <1>2, <1>3 DEF Inv, Init

LEMMA NextInv == Inv /\ [Next]_vars => Inv'
<1> SUFFICES ASSUME Inv, [Next]_vars PROVE Inv'
  OBVIOUS
<1>1. ASSUME NEW c \in Calls, Step(c) \/ Timeout(c)
      PROVE  Inv'
  <2>1. CASE ConnectionFails(c)
    BY <2>1, FailedStep DEF ConnectionFails
  <2>2. CASE Timeout(c)
    BY <2>2, FailedStep DEF Timeout, network
  <2> QED
    BY <1>1, <2>1, <2>2, PublishLocallyStep, PublishOverHttpStep, ReceiveStep, RetryStep
    DEF Step
<1>2. CASE UNCHANGED vars
  BY <1>2, CalmStep DEF vars, network, Inv, TypeOK
<1> QED
  BY <1>1, <1>2, ConfigureStep, ResetStep, LoseStep, ArriveStep DEF Next

\* The inductive invariant holds whatever the network and the environment do.
THEOREM TransportInvariance == Spec => []Inv
  BY InitInv, NextInv, PTL DEF Spec

\* Options, attempts, messages and counts keep their types, and no call makes
\* more attempts than its options allow.
THEOREM TransportTypes == Spec => []TypeOK
<1>1. Inv => TypeOK
  BY DEF Inv
<1> QED
  BY <1>1, TransportInvariance, PTL

\* The receiver never has more copies of an event than attempts are configured.
THEOREM CopiesAreBounded == Spec => []CopiesBounded
<1>1. Inv => CopiesBounded
  <2> SUFFICES ASSUME Inv, NEW c \in Calls
               PROVE  received[c] <=
                        IF call[c].options = Nil THEN 0 ELSE call[c].options.retryCount + 1
    BY DEF CopiesBounded
  <2>1. /\ received[c] \in Nat /\ Cardinality(InFlight(c)) \in Nat
        /\ received[c] + Cardinality(InFlight(c)) <= Sent(call[c])
    BY CurrentCall, FS_CardinalityType DEF Copies
  <2>2. CASE call[c].options = Nil
    BY <2>1, <2>2 DEF Sent
  <2>3. CASE call[c].options # Nil
    <3>1. /\ call[c].options.retryCount \in Nat /\ call[c].attempt \in Nat
          /\ call[c].attempt <= call[c].options.retryCount
      BY <2>3, CurrentCall, SettingOptions DEF Placed
    <3> QED
      BY <2>1, <2>3, <3>1 DEF Sent
  <2> QED
    BY <2>2, <2>3
<1> QED
  BY <1>1, TransportInvariance, PTL

\* A publish that reports delivery was received, and one that fails shows it as
\* the options say, after the last attempt only.
THEOREM FailuresFollowPolicy == Spec => []FailurePolicy
<1>1. Inv => FailurePolicy
  BY DEF Inv, FailurePolicy, Honest, GivenUp
<1> QED
  BY <1>1, TransportInvariance, PTL

\* Every call runs under the options that were set when it was made.
THEOREM OptionsAreFresh == Spec => FreshOptions
<1> DEFINE Fresh(c) == /\ call[c].at = "new" /\ call'[c].at = "waiting" => call'[c].options = env
                       /\ call[c].at # "new" => call'[c].options = call[c].options
<1>1. ASSUME Inv, [Next]_vars, NEW c \in Calls
      PROVE  Fresh(c)
  <2>1. call \in [Calls -> Call]
    BY <1>1, CurrentCall
  <2>2. CASE call' = call
    BY <2>2
  <2>3. ASSUME NEW d \in Calls, Step(d) \/ Timeout(d)
        PROVE  Fresh(c)
    <3>1. CASE PublishOverHttp(d)
      <4>1. call' = [call EXCEPT ![d] =
              [NewCall EXCEPT !.at = "waiting", !.options = env]] /\ call[d].at = "new"
        BY <3>1 DEF PublishOverHttp, Move, SameOptions
      <4> QED
        BY <2>1, <4>1 DEF NewCall
    <3>2. CASE ~PublishOverHttp(d)
      <4>1. \/ \E result : call' = [call EXCEPT ![d] =
                 [call[d] EXCEPT !.at = "done", !.result = result]]
            \/ call[d].at = "waiting" /\ call' = [call EXCEPT ![d] = [call[d] EXCEPT !.at = "delay"]]
            \/ /\ call[d].at = "delay"
               /\ call' = [call EXCEPT ![d] =
                    [call[d] EXCEPT !.at = "waiting", !.attempt = call[d].attempt + 1]]
        BY <2>3, <3>2
        DEF Step, PublishLocally, Receive, ConnectionFails, Timeout, Retry, AttemptFailed,
            End, Move
      <4>2. call[d] \in Call /\ (call[d].at \in {"waiting", "delay"} \/ call'[d].at # "waiting")
            /\ call'[d].options = call[d].options
            /\ \A e \in Calls \ {d} : call'[e] = call[e]
        <5>1. ASSUME NEW result,
                     call' = [call EXCEPT ![d] =
                       [call[d] EXCEPT !.at = "done", !.result = result]]
              PROVE  call'[d].at # "waiting" /\ call'[d].options = call[d].options
          BY <2>1, <5>1 DEF Call
        <5>2. ASSUME call' = [call EXCEPT ![d] = [call[d] EXCEPT !.at = "delay"]]
              PROVE  call'[d].options = call[d].options
          BY <2>1, <5>2 DEF Call
        <5>3. ASSUME call' = [call EXCEPT ![d] =
                       [call[d] EXCEPT !.at = "waiting", !.attempt = call[d].attempt + 1]]
              PROVE  call'[d].options = call[d].options
          BY <2>1, <5>3 DEF Call
        <5> QED
          BY <2>1, <4>1, <5>1, <5>2, <5>3
      <4> QED
        BY <4>2
    <3> QED
      BY <3>1, <3>2
  <2> QED
    BY <1>1, <2>2, <2>3 DEF Next, vars, Configure, Reset, Lose, Arrive
<1>2. Inv /\ [Next]_vars => [\A c \in Calls : Fresh(c)]_vars
  BY <1>1
<1> QED
  BY <1>2, TransportInvariance, PTL DEF Spec, FreshOptions
=============================================================================
