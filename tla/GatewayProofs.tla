---------------------------- MODULE GatewayProofs -----------------------------
(***************************************************************************)
(* Theorems about the circuit breaker, for every number of goroutines and  *)
(* every configuration validateBreaker accepts, and about the request path *)
(* of one replica that uses it, for every number of requests and every     *)
(* lifetime of the cache.                                                  *)
(***************************************************************************)
EXTENDS Gateway, TLAPS

(***************************************************************************)
(* The breaker: whatever calls it, a step is one of BreakerNext.           *)
(***************************************************************************)

\* The last success needed closes the breaker in the step that records it.
FewSuccesses == state = HalfOpen => successes < HalfOpenSuccesses

\* The inductive invariant behind everything that holds of any configuration.
BreakerInv ==
  /\ BreakerTypeOK
  /\ FewSuccesses
  /\ NoMissedTrip
  /\ NoCallStartedWhileOpen

------------------------------------------------------------------------------
LEMMA BreakerInvInit == BreakerInit => BreakerInv
BY BreakerAssumption
DEF BreakerInit, BreakerInv, BreakerTypeOK, FewSuccesses, NoMissedTrip,
    NoCallStartedWhileOpen, Trips, Running, Closed, Open, HalfOpen, NoCall

LEMMA AdmitInv ==
  ASSUME BreakerInv, NEW c \in Calls, Admit(c)
  PROVE  BreakerInv'
<1>1. BreakerTypeOK'
  BY BreakerAssumption
  DEF BreakerInv, BreakerTypeOK, Admit, fields, Running, Closed, Open,
      HalfOpen, NoCall
<1>2. (FewSuccesses /\ NoMissedTrip /\ NoCallStartedWhileOpen)'
  BY BreakerAssumption
  DEF BreakerInv, Admit, fields, FewSuccesses, NoMissedTrip,
      NoCallStartedWhileOpen, Trips, Closed, Open, HalfOpen
<1> QED BY <1>1, <1>2 DEF BreakerInv

LEMMA ProbeStepInv ==
  ASSUME BreakerInv, NEW c \in Calls, Probe(c)
  PROVE  BreakerInv'
<1>1. BreakerTypeOK'
  BY BreakerAssumption
  DEF BreakerInv, BreakerTypeOK, Probe, Running, Closed, Open, HalfOpen, NoCall
<1>2. (FewSuccesses /\ NoMissedTrip /\ NoCallStartedWhileOpen)'
  BY BreakerAssumption
  DEF BreakerInv, Probe, FewSuccesses, NoMissedTrip, NoCallStartedWhileOpen,
      Closed, Open, HalfOpen
<1> QED BY <1>1, <1>2 DEF BreakerInv

(***************************************************************************)
(* The second section of Do, case by case on the state it finds; the four  *)
(* cases constrain the breaker's own fields only.                          *)
(***************************************************************************)
LEMMA RecordClosedOK ==
  ASSUME BreakerInv, NEW failed \in BOOLEAN, RecordClosed(failed)
  PROVE  /\ state' \in {Closed, Open}
         /\ total' \in Nat
         /\ failures' \in 0 .. total'
         /\ successes' = successes
         /\ sinceOpened' \in 0 .. OpenDuration + 1
         /\ NoMissedTrip'
         /\ state' = Open => sinceOpened' = 0
<1> DEFINE t == total + 1
           f == IF failed THEN failures + 1 ELSE failures
<1>1. t \in Nat /\ f \in 0 .. t
  BY DEF BreakerInv, BreakerTypeOK
<1>2. total' = t /\ failures' = f /\ successes' = successes /\ state = Closed
  BY DEF RecordClosed
<1>3. CASE Trips(t, f)
  <2>1. state' = Open /\ sinceOpened' = 0
    BY <1>3 DEF RecordClosed, TripOpen
  <2> QED
    BY <1>1, <1>2, <2>1, BreakerAssumption DEF NoMissedTrip, Closed, Open
<1>4. CASE ~Trips(t, f)
  <2>1. state' = Closed /\ sinceOpened' = sinceOpened
    BY <1>4, <1>2 DEF RecordClosed
  <2>2. NoMissedTrip'
    BY <1>4, <1>2 DEF NoMissedTrip, Trips
  <2> QED
    BY <1>1, <1>2, <2>1, <2>2 DEF BreakerInv, BreakerTypeOK, Closed, Open
<1> QED BY <1>3, <1>4

LEMMA RecordHalfOpenSuccessOK ==
  ASSUME BreakerInv, RecordHalfOpenSuccess
  PROVE  /\ state' \in {Closed, HalfOpen}
         /\ total' \in Nat
         /\ failures' \in 0 .. total'
         /\ successes' \in 0 .. HalfOpenSuccesses
         /\ sinceOpened' = sinceOpened
         /\ FewSuccesses' /\ NoMissedTrip'
<1>1. successes < HalfOpenSuccesses
  BY DEF BreakerInv, FewSuccesses, RecordHalfOpenSuccess
<1>2. CASE successes + 1 >= HalfOpenSuccesses
  <2>1. state' = Closed /\ total' = 0 /\ failures' = 0
    BY <1>2 DEF RecordHalfOpenSuccess
  <2>2. ~Trips(0, 0)
    BY BreakerAssumption DEF Trips
  <2>3. NoMissedTrip'
    BY <2>1, <2>2 DEF NoMissedTrip, Trips
  <2> QED
    BY <1>1, <1>2, <2>1, <2>3, BreakerAssumption
    DEF RecordHalfOpenSuccess, BreakerInv, BreakerTypeOK, FewSuccesses,
        Closed, HalfOpen
<1>3. CASE ~(successes + 1 >= HalfOpenSuccesses)
  BY <1>1, <1>3, BreakerAssumption
  DEF RecordHalfOpenSuccess, BreakerInv, BreakerTypeOK, FewSuccesses,
      NoMissedTrip, Closed, HalfOpen
<1> QED BY <1>2, <1>3

LEMMA FinishInv ==
  ASSUME BreakerInv, NEW c \in Calls, NEW failed \in BOOLEAN, Finish(c, failed)
  PROVE  BreakerInv'
<1>1. /\ age' = [age EXCEPT ![c] = NoCall]
      /\ probes' = probes \ {c}
      /\ probeOks' \in Nat
      /\ redisUp' = redisUp
  BY DEF Finish, BreakerInv, BreakerTypeOK
<1>2. /\ age' \in [Calls -> {NoCall} \cup (0 .. MaxCallTime)]
      /\ probes' \subseteq Running'
      /\ \A r \in Running' : r \in Running /\ age'[r] = age[r]
  BY <1>1 DEF BreakerInv, BreakerTypeOK, Running, NoCall
<1>3. /\ state' \in {Closed, Open, HalfOpen}
      /\ total' \in Nat
      /\ failures' \in 0 .. total'
      /\ successes' \in 0 .. HalfOpenSuccesses
      /\ sinceOpened' \in 0 .. OpenDuration + 1
      /\ FewSuccesses' /\ NoMissedTrip'
      /\ state' = Open => \/ sinceOpened' = 0
                          \/ state = Open /\ sinceOpened' = sinceOpened
  <2>1. CASE RecordClosed(failed)
    BY <2>1, RecordClosedOK
    DEF BreakerInv, BreakerTypeOK, FewSuccesses, Closed, Open, HalfOpen
  <2>2. CASE RecordHalfOpenSuccess
    BY <2>2, RecordHalfOpenSuccessOK
    DEF BreakerInv, BreakerTypeOK, Closed, Open, HalfOpen
  <2>3. CASE RecordHalfOpenFailure
    BY <2>3, BreakerAssumption
    DEF RecordHalfOpenFailure, TripOpen, BreakerInv, BreakerTypeOK,
        FewSuccesses, NoMissedTrip, Closed, Open, HalfOpen
  <2>4. CASE RecordOpen
    BY <2>4, BreakerAssumption
    DEF RecordOpen, fields, BreakerInv, BreakerTypeOK, FewSuccesses,
        NoMissedTrip, Closed, Open, HalfOpen
  <2> QED BY <2>1, <2>2, <2>3, <2>4 DEF Finish
<1>4. NoCallStartedWhileOpen'
  BY <1>2, <1>3 DEF NoCallStartedWhileOpen, BreakerInv, BreakerTypeOK,
                    Running, NoCall
<1>5. BreakerTypeOK'
  BY <1>1, <1>2, <1>3 DEF BreakerTypeOK, BreakerInv
<1> QED BY <1>3, <1>4, <1>5 DEF BreakerInv

LEMMA BreakerTickInv ==
  ASSUME BreakerInv, BreakerTick
  PROVE  BreakerInv'
<1>1. /\ age' \in [Calls -> {NoCall} \cup (0 .. MaxCallTime)]
      /\ Running' = Running
      /\ \A r \in Running : age'[r] = age[r] + 1
  BY BreakerAssumption DEF BreakerInv, BreakerTypeOK, BreakerTick, Running,
                           NoCall
<1>2. /\ sinceOpened' \in 0 .. OpenDuration + 1
      /\ sinceOpened' <= sinceOpened + 1
  BY BreakerAssumption DEF BreakerInv, BreakerTypeOK, BreakerTick, Elapsed
<1>3. BreakerTypeOK'
  BY <1>1, <1>2 DEF BreakerInv, BreakerTypeOK, BreakerTick, history
<1>4. NoCallStartedWhileOpen'
  BY <1>1, <1>2 DEF BreakerInv, BreakerTypeOK, BreakerTick,
                    NoCallStartedWhileOpen, Running, NoCall
<1>5. (FewSuccesses /\ NoMissedTrip)'
  BY DEF BreakerInv, BreakerTick, FewSuccesses, NoMissedTrip, Trips
<1> QED BY <1>3, <1>4, <1>5 DEF BreakerInv

\* Every step of the breaker keeps the invariant.
LEMMA BreakerInvNext == BreakerInv /\ [BreakerNext]_breakerVars => BreakerInv'
<1> SUFFICES ASSUME BreakerInv, [BreakerNext]_breakerVars PROVE BreakerInv'
  OBVIOUS
<1>1. ASSUME NEW c \in Calls, Admit(c) PROVE BreakerInv'
  BY <1>1, AdmitInv
<1>2. ASSUME NEW c \in Calls, Probe(c) PROVE BreakerInv'
  BY <1>2, ProbeStepInv
<1>3. ASSUME NEW c \in Calls, NEW failed \in BOOLEAN, Finish(c, failed)
      PROVE  BreakerInv'
  BY <1>3, FinishInv
<1>4. CASE BreakerTick
  BY <1>4, BreakerTickInv
<1>5. CASE RedisSwitches
  BY <1>5
  DEF RedisSwitches, fields, history, BreakerInv, BreakerTypeOK, FewSuccesses,
      NoMissedTrip, NoCallStartedWhileOpen, Trips, Running
<1>6. CASE UNCHANGED breakerVars
  BY <1>6
  DEF breakerVars, BreakerInv, BreakerTypeOK, FewSuccesses, NoMissedTrip,
      NoCallStartedWhileOpen, Trips, Running
<1> QED
  BY <1>1, <1>2, <1>3, <1>4, <1>5, <1>6 DEF BreakerNext, Reject

LEMMA BreakerInvariance == BreakerSpec => []BreakerInv
BY BreakerInvInit, BreakerInvNext, PTL DEF BreakerSpec

------------------------------------------------------------------------------
\* Type correctness of the breaker (breaker.go, Do).
THEOREM BreakerTypeCorrect == BreakerSpec => []BreakerTypeOK
BY BreakerInvariance, PTL DEF BreakerInv

\* A Closed breaker never keeps counts that should have opened it, whatever
\* calls of earlier periods it records.
THEOREM TripNeverMissed == BreakerSpec => []NoMissedTrip
BY BreakerInvariance, PTL DEF BreakerInv

\* Redis receives no new call while the breaker is Open.
THEOREM FailsFast == BreakerSpec => []NoCallStartedWhileOpen
BY BreakerInvariance, PTL DEF BreakerInv

------------------------------------------------------------------------------
(***************************************************************************)
(* When no call outlives OpenDuration, the results a half-open breaker     *)
(* counts are those of its probes.                                         *)
(***************************************************************************)
ProbesInv ==
  /\ OnlyProbesCounted
  /\ state = HalfOpen => successes <= probeOks

LEMMA ProbeAlone ==
  ASSUME MaxCallTime <= OpenDuration, BreakerInv, state = Open, Elapsed
  PROVE  Running = {}
BY BreakerAssumption
DEF BreakerInv, BreakerTypeOK, NoCallStartedWhileOpen, Elapsed, Running, NoCall

LEMMA ProbesInvNext ==
  ASSUME MaxCallTime <= OpenDuration, BreakerInv, ProbesInv,
         [BreakerNext]_breakerVars
  PROVE  ProbesInv'
<1>1. ASSUME NEW c \in Calls, Admit(c) PROVE ProbesInv'
  BY <1>1
  DEF Admit, fields, BreakerInv, BreakerTypeOK, ProbesInv, OnlyProbesCounted,
      Running, NoCall
<1>2. ASSUME NEW c \in Calls, Probe(c) PROVE ProbesInv'
  <2>1. Running = {}
    BY <1>2, ProbeAlone DEF Probe
  <2> QED
    BY <1>2, <2>1
    DEF Probe, BreakerInv, BreakerTypeOK, ProbesInv, OnlyProbesCounted,
        Running, NoCall
<1>3. ASSUME NEW c \in Calls, NEW failed \in BOOLEAN, Finish(c, failed)
      PROVE  ProbesInv'
  <2>1. CASE state' = HalfOpen
    <3>1. \/ RecordHalfOpenSuccess /\ ~failed
          \/ state' # HalfOpen
      BY <1>3
      DEF Finish, RecordClosed, RecordHalfOpenFailure, RecordOpen, TripOpen,
          fields, Closed, Open, HalfOpen
    <3>2. /\ state = HalfOpen
          /\ successes' = successes + 1
          /\ ~failed
      BY <2>1, <3>1 DEF RecordHalfOpenSuccess
    <3>3. c \in probes
      BY <1>3, <3>2 DEF ProbesInv, OnlyProbesCounted, Running, Finish
    <3>4. probeOks' = probeOks + 1
      BY <1>3, <3>2, <3>3 DEF Finish
    <3>5. Running' \subseteq probes'
      BY <1>3, <3>2
      DEF Finish, BreakerInv, BreakerTypeOK, ProbesInv, OnlyProbesCounted,
          Running, NoCall
    <3> QED
      BY <3>2, <3>4, <3>5 DEF ProbesInv, OnlyProbesCounted, BreakerInv,
                              BreakerTypeOK
  <2>2. CASE state' # HalfOpen
    BY <2>2 DEF ProbesInv, OnlyProbesCounted
  <2> QED BY <2>1, <2>2
<1>4. CASE BreakerTick
  BY <1>4
  DEF BreakerTick, history, BreakerInv, BreakerTypeOK, ProbesInv,
      OnlyProbesCounted, Running, NoCall
<1>5. CASE RedisSwitches
  BY <1>5
  DEF RedisSwitches, fields, history, ProbesInv, OnlyProbesCounted, Running
<1>6. CASE UNCHANGED breakerVars
  BY <1>6 DEF breakerVars, ProbesInv, OnlyProbesCounted, Running
<1> QED
  BY <1>1, <1>2, <1>3, <1>4, <1>5, <1>6 DEF BreakerNext, Reject

LEMMA ProbesInvariance ==
  ASSUME MaxCallTime <= OpenDuration
  PROVE  BreakerSpec => []ProbesInv
<1>1. BreakerInit => ProbesInv
  BY DEF BreakerInit, ProbesInv, OnlyProbesCounted, Running, Closed, HalfOpen,
         NoCall
<1>2. BreakerInv /\ ProbesInv /\ [BreakerNext]_breakerVars => ProbesInv'
  BY ProbesInvNext
<1> QED BY <1>1, <1>2, BreakerInvariance, PTL DEF BreakerSpec

\* If every call returns within OpenDuration, a half-open breaker counts the
\* results of its own probes and of no older call.
THEOREM OnlyProbes ==
  ASSUME MaxCallTime <= OpenDuration
  PROVE  BreakerSpec => []OnlyProbesCounted
BY ProbesInvariance, PTL DEF ProbesInv

\* If every call returns within OpenDuration, only HalfOpenSuccesses successful
\* probes of the current period close the breaker.
THEOREM ClosesOnlyOnProbes ==
  ASSUME MaxCallTime <= OpenDuration
  PROVE  BreakerSpec => ClosesOnProbes
<1> DEFINE Close == state = HalfOpen /\ state' = Closed
                      => probeOks' >= HalfOpenSuccesses
<1>1. BreakerInv /\ ProbesInv /\ [BreakerNext]_breakerVars => [Close]_breakerVars
  <2> SUFFICES ASSUME BreakerInv, ProbesInv, [BreakerNext]_breakerVars,
                      state = HalfOpen, state' = Closed
               PROVE  probeOks' >= HalfOpenSuccesses
    OBVIOUS
  <2>1. PICK c \in Calls, failed \in BOOLEAN : Finish(c, failed)
    BY DEF BreakerNext, breakerVars, Admit, Probe, Reject, BreakerTick,
           RedisSwitches, fields, Closed, Open, HalfOpen
  <2>2. RecordHalfOpenSuccess /\ ~failed
    BY <2>1
    DEF Finish, RecordClosed, RecordHalfOpenFailure, RecordOpen, TripOpen,
        Closed, Open, HalfOpen
  <2>3. successes + 1 >= HalfOpenSuccesses
    BY <2>2 DEF RecordHalfOpenSuccess, Closed, HalfOpen
  <2>4. probeOks' = probeOks + 1
    BY <2>1, <2>2 DEF Finish, ProbesInv, OnlyProbesCounted, Running
  <2> QED
    BY <2>3, <2>4, BreakerAssumption DEF ProbesInv, BreakerInv, BreakerTypeOK
<1>2. BreakerSpec => [][Close]_breakerVars
  BY <1>1, BreakerInvariance, ProbesInvariance, PTL DEF BreakerSpec
<1> QED BY <1>2 DEF ClosesOnProbes

------------------------------------------------------------------------------
\* Neither late results nor rejected callers extend the open period.
THEOREM OpenPeriodKept == BreakerSpec => OpenPeriodNotExtended
<1> DEFINE Kept == state = Open /\ state' = Open => sinceOpened' >= sinceOpened
<1>1. BreakerInv /\ [BreakerNext]_breakerVars => [Kept]_breakerVars
  <2> SUFFICES ASSUME BreakerInv, [BreakerNext]_breakerVars,
                      state = Open, state' = Open
               PROVE  sinceOpened' >= sinceOpened
    OBVIOUS
  <2>1. ASSUME NEW c \in Calls, NEW failed \in BOOLEAN, Finish(c, failed)
        PROVE  sinceOpened' = sinceOpened
    BY <2>1
    DEF Finish, RecordClosed, RecordHalfOpenSuccess, RecordHalfOpenFailure,
        RecordOpen, fields, Closed, Open, HalfOpen
  <2>2. CASE BreakerTick
    BY <2>2 DEF BreakerTick, BreakerInv, BreakerTypeOK
  <2> QED
    BY <2>1, <2>2
    DEF BreakerNext, breakerVars, Admit, Probe, Reject, RedisSwitches, fields,
        BreakerInv, BreakerTypeOK
<1>2. BreakerSpec => [][Kept]_breakerVars
  BY <1>1, BreakerInvariance, PTL DEF BreakerSpec
<1> QED BY <1>2 DEF OpenPeriodNotExtended

------------------------------------------------------------------------------
\* The breaker, callers, counts and failures hidden, is the machine of
\* ARCHITECTURE.md section 5: every step is one of its steps or a stutter.
THEOREM BreakerRefinement == BreakerSpec => ImplementsFSM
<1>1. BreakerInit => FSM!Init
  BY DEF BreakerInit, FSM!Init, Closed
<1>2. BreakerInv /\ [BreakerNext]_breakerVars => [FSM!Next]_(FSM!fsmVars)
  <2> SUFFICES ASSUME BreakerInv, [BreakerNext]_breakerVars
               PROVE  FSM!Next \/ UNCHANGED FSM!fsmVars
    OBVIOUS
  <2>1. ASSUME NEW c \in Calls, Admit(c) PROVE UNCHANGED FSM!fsmVars
    BY <2>1 DEF Admit, fields, FSM!fsmVars
  <2>2. ASSUME NEW c \in Calls, Probe(c) PROVE FSM!BeginProbing
    BY <2>2 DEF Probe, Elapsed, FSM!BeginProbing, Open, HalfOpen
  <2>3. ASSUME NEW c \in Calls, NEW failed \in BOOLEAN, Finish(c, failed)
        PROVE  FSM!Next \/ UNCHANGED FSM!fsmVars
    <3>1. CASE RecordClosed(failed)
      BY <3>1
      DEF RecordClosed, TripOpen, FSM!Next, FSM!Trip, FSM!fsmVars, Closed, Open
    <3>2. CASE RecordHalfOpenSuccess
      BY <3>2
      DEF RecordHalfOpenSuccess, FSM!Next, FSM!Succeed, Closed, HalfOpen
    <3>3. CASE RecordHalfOpenFailure
      BY <3>3
      DEF RecordHalfOpenFailure, TripOpen, FSM!Next, FSM!Trip, Open, HalfOpen
    <3>4. CASE RecordOpen
      BY <3>4 DEF RecordOpen, fields, FSM!fsmVars
    <3> QED BY <2>3, <3>1, <3>2, <3>3, <3>4 DEF Finish
  <2>4. CASE BreakerTick
    BY <2>4, BreakerAssumption
    DEF BreakerTick, Elapsed, BreakerInv, BreakerTypeOK, FSM!Next, FSM!Wait,
        FSM!fsmVars
  <2>5. CASE RedisSwitches \/ UNCHANGED breakerVars
    BY <2>5 DEF RedisSwitches, breakerVars, fields, FSM!fsmVars
  <2> QED
    BY <2>1, <2>2, <2>3, <2>4, <2>5 DEF BreakerNext, Reject, FSM!Next
<1> QED
  BY <1>1, <1>2, BreakerInvariance, PTL DEF BreakerSpec, ImplementsFSM, FSM!Spec

------------------------------------------------------------------------------
(***************************************************************************)
(* The request path.                                                       *)
(***************************************************************************)

Ages == 0 .. MaxAge

Stages ==
  {"idle", "asking", "expired", "missed", "calling", "answered", "responding"}

Responses ==
  Forwarding \cup {"none", "refused", "tooMany", "unavailable"}

Requests ==
  [stage : Stages, asked : Ages, decision : Decisions, decided : Ages,
   response : Responses]

Entries == [decision : Decisions, asked : Ages, decided : Ages]

\* What a request holds at each stage: it has a decision once it is answered and
\* none before it calls, the decision is no older than the reading, and a
\* response follows from them.
Consistent(r) ==
  /\ r.decided <= r.asked \/ r.stage = "responding"
  /\ r.stage \in {"idle", "asking", "expired", "missed"} => r.decision = "none"
  /\ r.stage = "answered" => r.decision # "none"
  /\ r.stage = "responding" =>
       /\ r.response = "fromStore" => r.decision \in {"high", "low"}
       /\ r.response = "fromCache" =>
            r.decision = "high" /\ r.decided <= r.asked + L1TTL
       /\ r.response = "failOpen" => Fallback = "open"
       /\ r.response = "tooMany" => r.decision = "deny"

\* The entry holds an allow with enough left, decided after the reading its
\* expiry follows from.
EntryConsistent ==
  /\ entry.decision \in {"none", "high"}
  /\ entry.decided <= entry.asked

IInv ==
  /\ req \in [Calls -> Requests]
  /\ entry \in Entries
  /\ EntryConsistent
  /\ \A c \in Calls : Consistent(req[c])

------------------------------------------------------------------------------
LEMMA TTLNat == L1TTL \in Nat /\ MaxPause \in Nat /\ MaxAge = L1TTL + MaxPause + 1
BY GatewayAssumption DEF MaxAge

LEMMA OlderOK ==
  ASSUME NEW a \in Ages, NEW b \in Ages
  PROVE  /\ Older(a) \in Ages
         /\ a <= b => Older(a) <= Older(b)
BY TTLNat DEF Ages, Older

\* A step of one request is judged by the request it leaves behind.
LEMMA RequestStep ==
  ASSUME IInv, NEW c \in Calls, NEW r \in Requests, Consistent(r),
         req' = [req EXCEPT ![c] = r],
         entry' \in Entries, EntryConsistent'
  PROVE  IInv'
<1>1. \A d \in Calls : req'[d] = IF d = c THEN r ELSE req[d]
  BY DEF IInv
<1>2. req' \in [Calls -> Requests]
  BY DEF IInv
<1>3. \A d \in Calls : Consistent(req'[d])
  BY <1>1 DEF IInv
<1>4. \A d \in Calls : Consistent(req'[d]) <=> Consistent(req[d])'
  BY DEF Consistent
<1> QED BY <1>2, <1>3, <1>4 DEF IInv

LEMMA EntryKept ==
  ASSUME IInv, UNCHANGED entry
  PROVE  entry' \in Entries /\ EntryConsistent'
BY DEF IInv, EntryConsistent

LEMMA IdleOK == Idle \in Requests /\ Consistent(Idle)
BY TTLNat
DEF Idle, Requests, Consistent, Stages, Ages, Decisions, Responses

\* What a change of stage makes of a request.
LEMMA MovesOK ==
  ASSUME IInv, NEW c \in Calls, NEW stage \in Stages
  PROVE  LET r == [req[c] EXCEPT !.stage = stage]
         IN  /\ r \in Requests
             /\ r.stage = stage /\ r.asked = req[c].asked
             /\ r.decision = req[c].decision /\ r.decided = req[c].decided
BY DEF IInv, Requests

\* A request that moves to a stage where its decision is allowed.
LEMMA MoveIInv ==
  ASSUME IInv, NEW c \in Calls, NEW stage \in Stages \ {"responding"},
         MovesTo(c, stage), req[c].stage # "responding",
         stage \in {"idle", "asking", "expired", "missed"} =>
           req[c].decision = "none",
         stage = "answered" => req[c].decision # "none",
         entry' \in Entries, EntryConsistent'
  PROVE  IInv'
<1> DEFINE r == [req[c] EXCEPT !.stage = stage]
<1>1. /\ r \in Requests
      /\ r.stage = stage /\ r.asked = req[c].asked
      /\ r.decision = req[c].decision /\ r.decided = req[c].decided
  BY MovesOK
<1>2. Consistent(req[c])
  BY DEF IInv
<1>3. req' = [req EXCEPT ![c] = r]
  BY DEF MovesTo
<1> HIDE DEF r
<1>4. Consistent(r)
  BY <1>1, <1>2 DEF Consistent
<1> QED BY <1>1, <1>3, <1>4, RequestStep

\* A request that gets a response its decision allows.
LEMMA RespondIInv ==
  ASSUME IInv, NEW c \in Calls, NEW decision \in Decisions,
         NEW response \in Responses \ {"fromCache"},
         Responds(c, decision, response),
         response = "fromStore" => decision \in {"high", "low"},
         response = "failOpen" => Fallback = "open",
         response = "tooMany" => decision = "deny",
         entry' \in Entries, EntryConsistent'
  PROVE  IInv'
<1> DEFINE r == [Idle EXCEPT !.stage = "responding", !.decision = decision,
                             !.response = response]
<1>1. /\ r \in Requests
      /\ r.stage = "responding" /\ r.decision = decision
      /\ r.response = response
  <2>1. Idle \in Requests /\ response \in Responses
    BY IdleOK
  <2> QED BY <2>1 DEF Requests, Stages
<1>2. req' = [req EXCEPT ![c] = r]
  BY DEF Responds
<1> HIDE DEF r
<1>3. Consistent(r)
  BY <1>1 DEF Consistent
<1> QED BY <1>1, <1>2, <1>3, RequestStep

------------------------------------------------------------------------------
(***************************************************************************)
(* One lemma per action, or per group of actions that move a request the   *)
(* same way.                                                               *)
(***************************************************************************)

LEMMA ArriveIInv ==
  ASSUME IInv, NEW c \in Calls,
         Ask(c) \/ FindExpired(c) \/ DeleteEntry(c) \/ Miss(c) \/ Call(c)
  PROVE  IInv'
<1>1. Consistent(req[c])
  BY DEF IInv
<1>2. CASE Ask(c)
  <2> DEFINE stage == IF L1Enabled THEN "asking" ELSE "missed"
  <2>1. stage \in {"asking", "missed"} /\ MovesTo(c, stage)
    BY <1>2 DEF Ask
  <2>2. req[c].stage = "idle" /\ req[c].decision = "none" /\ UNCHANGED entry
    BY <1>1, <1>2 DEF Ask, Arrive, Consistent
  <2> HIDE DEF stage
  <2> QED BY <2>1, <2>2, EntryKept, MoveIInv DEF Stages
<1>3. CASE FindExpired(c)
  BY <1>1, <1>3, EntryKept, MoveIInv DEF FindExpired, Consistent, Stages
<1>4. CASE DeleteEntry(c)
  <2>1. entry' \in Entries /\ EntryConsistent'
    BY <1>4, TTLNat
    DEF DeleteEntry, NoEntry, Entries, EntryConsistent, Ages, Decisions
  <2> QED
    BY <1>1, <1>4, <2>1, MoveIInv DEF DeleteEntry, Consistent, Stages
<1>5. CASE Miss(c)
  BY <1>1, <1>5, EntryKept, MoveIInv DEF Miss, Consistent, Stages
<1>6. CASE Call(c)
  BY <1>1, <1>6, EntryKept, MoveIInv DEF Call, Consistent, Stages
<1> QED BY <1>2, <1>3, <1>4, <1>5, <1>6

LEMMA RefuseIInv ==
  ASSUME IInv, NEW c \in Calls, Refuse(c)
  PROVE  IInv'
BY EntryKept, RespondIInv DEF Refuse, Decisions, Responses

LEMMA UnavailableIInv ==
  ASSUME IInv, NEW c \in Calls, FailFast(c) \/ Fail(c)
  PROVE  IInv'
<1> DEFINE response == IF Fallback = "closed" THEN "unavailable" ELSE "failOpen"
<1>1. /\ response \in Responses \ {"fromCache", "fromStore", "tooMany"}
      /\ response = "failOpen" => Fallback = "open"
  BY GatewayAssumption DEF Responses, Forwarding
<1>2. Responds(c, "none", response) /\ UNCHANGED entry
  BY DEF FailFast, Fail, Unavailable
<1> HIDE DEF response
<1> QED BY <1>1, <1>2, EntryKept, RespondIInv DEF Decisions

LEMMA HitIInv ==
  ASSUME IInv, NEW c \in Calls, Hit(c)
  PROVE  IInv'
<1> DEFINE r == [stage |-> "responding", asked |-> req[c].asked,
                 decision |-> entry.decision, decided |-> entry.decided,
                 response |-> "fromCache"]
<1>1. r \in Requests
  BY TTLNat
  DEF IInv, Entries, Requests, Stages, Ages, Responses, Forwarding
<1>2. entry.decision = "high" /\ entry.decided <= req[c].asked + L1TTL
  <2>1. /\ entry.asked \in Ages /\ entry.decided \in Ages
        /\ req[c].asked \in Ages
    BY DEF IInv, Entries, Requests
  <2>2. /\ entry.decision = "high" /\ entry.decided <= entry.asked
        /\ entry.asked - req[c].asked <= L1TTL
    BY DEF IInv, EntryConsistent, Hit, Fresh
  <2> QED BY <2>1, <2>2, TTLNat DEF Ages
<1>3. Consistent(r)
  BY <1>2 DEF Consistent
<1>4. req' = [req EXCEPT ![c] = r] /\ UNCHANGED entry
  BY DEF Hit
<1> HIDE DEF r
<1> QED BY <1>1, <1>3, <1>4, EntryKept, RequestStep

LEMMA DecideIInv ==
  ASSUME IInv, NEW c \in Calls, Decide(c)
  PROVE  IInv'
<1>1. PICK decision \in {"high", "low", "deny"} :
        req' = [req EXCEPT ![c] = [req[c] EXCEPT !.decision = decision,
                                                 !.decided = 0]]
  BY DEF Decide
<1> DEFINE r == [req[c] EXCEPT !.decision = decision, !.decided = 0]
<1>2. /\ r \in Requests /\ r.stage = "calling" /\ r.decided = 0
      /\ r.asked \in Ages
  <2>1. /\ req[c] \in Requests /\ req[c].stage = "calling"
        /\ decision \in Decisions /\ 0 \in Ages
    BY TTLNat DEF IInv, Decide, Decisions, Ages
  <2> QED BY <2>1 DEF Requests
<1>3. req' = [req EXCEPT ![c] = r] /\ UNCHANGED entry
  BY <1>1 DEF Decide
<1> HIDE DEF r
<1>4. Consistent(r)
  BY <1>2, TTLNat DEF Consistent, Ages
<1> QED BY <1>2, <1>3, <1>4, EntryKept, RequestStep

LEMMA ReturnIInv ==
  ASSUME IInv, NEW c \in Calls, Return(c)
  PROVE  IInv'
BY EntryKept, MoveIInv DEF Return, Stages

LEMMA RespondStepIInv ==
  ASSUME IInv, NEW c \in Calls, Respond(c)
  PROVE  IInv'
<1>1. /\ req[c] \in Requests /\ Consistent(req[c])
      /\ req[c].stage = "answered"
  BY DEF IInv, Respond
<1>2. entry' \in Entries /\ EntryConsistent'
  <2>1. CASE L1Enabled /\ req[c].decision = "high"
    <3>1. entry' = [decision |-> "high", asked |-> req[c].asked,
                    decided |-> req[c].decided]
      BY <2>1 DEF Respond, CacheSet
    <3>2. /\ req[c].asked \in Ages /\ req[c].decided \in Ages
          /\ req[c].decided <= req[c].asked
      BY <1>1 DEF Requests, Consistent
    <3> QED BY <3>1, <3>2 DEF Entries, EntryConsistent, Decisions
  <2>2. CASE ~(L1Enabled /\ req[c].decision = "high")
    BY <2>2, EntryKept DEF Respond, CacheSet
  <2> QED BY <2>1, <2>2
<1> DEFINE response == IF req[c].decision = "deny" THEN "tooMany" ELSE "fromStore"
<1>3. Responds(c, req[c].decision, response)
  BY DEF Respond
<1>4. /\ req[c].decision \in Decisions /\ response \in Responses \ {"fromCache"}
      /\ response = "fromStore" => req[c].decision \in {"high", "low"}
      /\ response = "tooMany" => req[c].decision = "deny"
      /\ response # "failOpen"
  BY <1>1 DEF Requests, Consistent, Decisions, Responses, Forwarding
<1> HIDE DEF response
<1> QED BY <1>2, <1>3, <1>4, RespondIInv

LEMMA DoneIInv ==
  ASSUME IInv, NEW c \in Calls, Done(c)
  PROVE  IInv'
BY IdleOK, EntryKept, RequestStep DEF Done

LEMMA TickIInv ==
  ASSUME IInv, Tick
  PROVE  IInv'
<1> DEFINE older(r) == [r EXCEPT !.asked = Older(@),
                                 !.decided = IF r.decision = "none"
                                               THEN 0 ELSE Older(@)]
<1>1. ASSUME NEW c \in Calls
      PROVE  req'[c] \in Requests /\ Consistent(req'[c])
  <2>1. req[c] \in Requests /\ Consistent(req[c])
    BY DEF IInv
  <2>2. CASE c \notin InFlight
    BY <2>1, <2>2 DEF Tick
  <2>3. CASE c \in InFlight
    <3> DEFINE r == req[c]
               asked == Older(r.asked)
               decided == IF r.decision = "none" THEN 0 ELSE Older(r.decided)
    <3>1. req'[c] = [r EXCEPT !.asked = asked, !.decided = decided]
      BY <2>3 DEF Tick
    <3>2. r.stage # "responding" /\ r.decided <= r.asked
      BY <2>1, <2>3 DEF InFlight, Consistent
    <3>3. r.asked \in Ages /\ r.decided \in Ages
      BY <2>1 DEF Requests
    <3>4. asked \in Ages /\ decided \in Ages /\ decided <= asked
      BY <3>2, <3>3, OlderOK, TTLNat DEF Ages
    <3>5. r \in Requests /\ Consistent(r)
      BY <2>1
    <3> HIDE DEF r, asked, decided
    <3> DEFINE q == [r EXCEPT !.asked = asked, !.decided = decided]
    <3>6. /\ q \in Requests /\ q.stage = r.stage /\ q.decision = r.decision
          /\ q.asked = asked /\ q.decided = decided
      BY <3>4, <3>5 DEF Requests
    <3>7. req'[c] = q
      BY <3>1
    <3> HIDE DEF q
    <3>8. Consistent(q)
      BY <3>2, <3>4, <3>5, <3>6 DEF Consistent
    <3> QED BY <3>6, <3>7, <3>8
  <2> QED BY <2>2, <2>3
<1>2. req' \in [Calls -> Requests] /\ (\A c \in Calls : Consistent(req[c])')
  <2>1. /\ req' = [c \in Calls |-> req'[c]]
        /\ \A c \in Calls : req'[c] \in Requests
    BY <1>1 DEF Tick
  <2>2. \A c \in Calls : Consistent(req[c])'
    BY <1>1 DEF Consistent
  <2> QED BY <2>1, <2>2
<1>3. entry' \in Entries /\ EntryConsistent'
  <2>1. CASE entry = NoEntry
    BY <2>1, EntryKept DEF Tick
  <2>2. CASE entry # NoEntry
    <3> DEFINE asked == Older(entry.asked)
               decided == Older(entry.decided)
    <3>1. entry' = [entry EXCEPT !.asked = asked, !.decided = decided]
      BY <2>2 DEF Tick
    <3>2. /\ entry \in Entries /\ entry.decided <= entry.asked
          /\ entry.asked \in Ages /\ entry.decided \in Ages
          /\ entry.decision \in {"none", "high"}
      BY DEF IInv, EntryConsistent, Entries
    <3>3. asked \in Ages /\ decided \in Ages /\ decided <= asked
      BY <3>2, OlderOK
    <3> HIDE DEF asked, decided
    <3> QED BY <3>1, <3>2, <3>3 DEF Entries, EntryConsistent
  <2> QED BY <2>1, <2>2
<1> QED BY <1>2, <1>3 DEF IInv

LEMMA NextIInv ==
  ASSUME IInv, [Next]_vars
  PROVE  IInv'
<1>1. ASSUME UNCHANGED <<req, entry>>
      PROVE  IInv'
  BY <1>1 DEF IInv, EntryConsistent, Consistent
<1>2. CASE UNCHANGED vars
  BY <1>1, <1>2 DEF vars
<1>3. CASE RedisChanges
  BY <1>1, <1>3 DEF RedisChanges
<1>4. CASE Tick
  BY <1>4, TickIInv
<1>5. ASSUME NEW c \in Calls,
             \/ Refuse(c) \/ Ask(c) \/ Hit(c) \/ FindExpired(c) \/ DeleteEntry(c)
             \/ Miss(c) \/ FailFast(c) \/ Call(c) \/ Decide(c) \/ Fail(c)
             \/ Return(c) \/ Respond(c) \/ Done(c)
      PROVE  IInv'
  BY <1>5, ArriveIInv, RefuseIInv, UnavailableIInv, HitIInv, DecideIInv,
     ReturnIInv, RespondStepIInv, DoneIInv
<1> QED BY <1>2, <1>3, <1>4, <1>5 DEF Next

LEMMA InitIInv == Init => IInv
BY IdleOK, TTLNat
DEF Init, IInv, NoEntry, Entries, EntryConsistent, Ages, Decisions

LEMMA Invariance == Spec => []IInv
<1>1. IInv /\ [Next]_vars => IInv'
  BY NextIInv
<1> QED BY <1>1, InitIInv, PTL DEF Spec

------------------------------------------------------------------------------
\* Every request that reaches the upstream was allowed by Redis itself, by the
\* cache, which asked it no more than L1TTL before the request came, or by a route
\* that fails open.
THEOREM UpstreamProtected == Spec => []BackendProtected
<1>1. IInv => BackendProtected
  BY DEF IInv, Consistent, BackendProtected, Responding
<1> QED BY <1>1, Invariance, PTL

\* Only a request that Redis denied is told 429.
THEOREM DenialsAreReal == Spec => []DenialIsReal
<1>1. IInv => DenialIsReal
  BY DEF IInv, Consistent, DenialIsReal, Responding
<1> QED BY <1>1, Invariance, PTL

\* What is proved of the breaker holds of the breaker in the gateway.
LEMMA GatewayBreaker == Spec => BreakerSpec
<1>1. Init => BreakerInit
  BY DEF Init
<1>2. [Next]_vars => [BreakerNext]_breakerVars
  <2>1. ASSUME UNCHANGED breakerVars
        PROVE  [BreakerNext]_breakerVars
    BY <2>1 DEF breakerVars
  <2>2. CASE UNCHANGED vars
    BY <2>1, <2>2 DEF vars
  <2>3. CASE Tick \/ RedisChanges
    BY <2>3 DEF Tick, RedisChanges, BreakerNext
  <2>4. ASSUME NEW c \in Calls,
               \/ Refuse(c) \/ Ask(c) \/ Hit(c) \/ FindExpired(c)
               \/ DeleteEntry(c) \/ Miss(c) \/ Decide(c) \/ Respond(c) \/ Done(c)
        PROVE  [BreakerNext]_breakerVars
    BY <2>1, <2>4
    DEF Refuse, Ask, Hit, FindExpired, DeleteEntry, Miss, Decide, Respond, Done
  <2>5. ASSUME NEW c \in Calls, FailFast(c) \/ Call(c) \/ Fail(c) \/ Return(c)
        PROVE  [BreakerNext]_breakerVars
    <3>1. \/ Reject(c) \/ Admit(c) \/ Probe(c)
          \/ Finish(c, TRUE) \/ Finish(c, FALSE)
      BY <2>5 DEF FailFast, Call, Fail, Return
    <3> QED BY <3>1 DEF BreakerNext
  <2> QED BY <2>2, <2>3, <2>4, <2>5 DEF Next
<1> QED BY <1>1, <1>2, PTL DEF Spec, BreakerSpec

------------------------------------------------------------------------------
(***************************************************************************)
(* Where the request path and the breaker meet: the calls that are out are *)
(* those of the requests that are calling.                                 *)
(***************************************************************************)
InBreaker == \A c \in Calls : (c \in Running) = (req[c].stage = "calling")

\* A step of one request that enters or leaves the breaker, or does neither.
LEMMA OneCall ==
  ASSUME IInv, IInv', BreakerTypeOK, InBreaker, NEW c \in Calls,
         NEW when \in {NoCall} \cup Nat,
         age' = [age EXCEPT ![c] = when],
         \A d \in Calls \ {c} : req'[d] = req[d],
         when = NoCall <=> req'[c].stage # "calling"
  PROVE  InBreaker'
BY DEF IInv, BreakerTypeOK, InBreaker, Running, NoCall

\* The stage a step leaves a request in, and that it leaves the others alone.
LEMMA Moved ==
  ASSUME IInv, NEW c \in Calls, NEW stage, MovesTo(c, stage)
  PROVE  req'[c].stage = stage /\ \A d \in Calls \ {c} : req'[d] = req[d]
<1>1. req' = [req EXCEPT ![c] = [req[c] EXCEPT !.stage = stage]]
  BY DEF MovesTo
<1>2. req[c] \in Requests
  BY DEF IInv
<1>3. [req[c] EXCEPT !.stage = stage].stage = stage
  BY <1>2 DEF Requests
<1> QED BY <1>1, <1>3 DEF IInv

LEMMA Responded ==
  ASSUME IInv, NEW c \in Calls, NEW decision, NEW response,
         Responds(c, decision, response)
  PROVE  /\ req'[c].stage = "responding"
         /\ \A d \in Calls \ {c} : req'[d] = req[d]
<1> DEFINE r == [Idle EXCEPT !.stage = "responding", !.decision = decision,
                             !.response = response]
<1>1. req' = [req EXCEPT ![c] = r]
  BY DEF Responds
<1>2. r.stage = "responding"
  BY DEF Idle
<1> HIDE DEF r
<1> QED BY <1>1, <1>2 DEF IInv

LEMMA NextInBreaker ==
  ASSUME IInv, IInv', BreakerTypeOK, InBreaker, [Next]_vars
  PROVE  InBreaker'
<1>1. ASSUME NEW c \in Calls, UNCHANGED age,
             \A d \in Calls \ {c} : req'[d] = req[d],
             (req[c].stage = "calling") = (req'[c].stage = "calling")
      PROVE  InBreaker'
  BY <1>1 DEF InBreaker, Running
<1>2. ASSUME NEW c \in Calls, Refuse(c) \/ Ask(c) \/ FindExpired(c) \/ Miss(c)
      PROVE  InBreaker'
  <2>1. UNCHANGED age /\ req[c].stage \in {"idle", "asking"}
    BY <1>2 DEF Refuse, Ask, FindExpired, Miss, Arrive, breakerVars
  <2>2. /\ req'[c].stage \in {"responding", "asking", "expired", "missed"}
        /\ \A d \in Calls \ {c} : req'[d] = req[d]
    BY <1>2, Moved, Responded DEF Refuse, Ask, FindExpired, Miss
  <2> QED BY <1>1, <2>1, <2>2
<1>3. ASSUME NEW c \in Calls, Hit(c)
      PROVE  InBreaker'
  <2>1. UNCHANGED age /\ req[c].stage = "asking"
    BY <1>3 DEF Hit, breakerVars
  <2>2. /\ req'[c].stage = "responding"
        /\ \A d \in Calls \ {c} : req'[d] = req[d]
    BY <1>3 DEF Hit, IInv
  <2> QED BY <1>1, <2>1, <2>2
<1>4. ASSUME NEW c \in Calls, DeleteEntry(c) \/ FailFast(c) \/ Respond(c)
      PROVE  InBreaker'
  <2>1. UNCHANGED age /\ req[c].stage \in {"expired", "missed", "answered"}
    BY <1>4 DEF DeleteEntry, FailFast, Respond, Reject, breakerVars
  <2>2. /\ req'[c].stage \in {"missed", "responding"}
        /\ \A d \in Calls \ {c} : req'[d] = req[d]
    BY <1>4, Moved, Responded DEF DeleteEntry, FailFast, Unavailable, Respond
  <2> QED BY <1>1, <2>1, <2>2
<1>5. ASSUME NEW c \in Calls, Done(c)
      PROVE  InBreaker'
  <2>1. UNCHANGED age /\ req[c].stage = "responding"
    BY <1>5 DEF Done, breakerVars
  <2>2. req'[c].stage = "idle" /\ \A d \in Calls \ {c} : req'[d] = req[d]
    BY <1>5 DEF Done, Idle, IInv
  <2> QED BY <1>1, <2>1, <2>2
<1>6. ASSUME NEW c \in Calls, Decide(c)
      PROVE  InBreaker'
  <2>1. PICK decision \in {"high", "low", "deny"} :
          req' = [req EXCEPT ![c] = [req[c] EXCEPT !.decision = decision,
                                                   !.decided = 0]]
    BY <1>6 DEF Decide
  <2> DEFINE r == [req[c] EXCEPT !.decision = decision, !.decided = 0]
  <2>2. req[c] \in Requests
    BY DEF IInv
  <2>3. r.stage = req[c].stage
    BY <2>2 DEF Requests
  <2>4. req' = [req EXCEPT ![c] = r]
    BY <2>1
  <2> HIDE DEF r
  <2>5. /\ req'[c].stage = req[c].stage
        /\ \A d \in Calls \ {c} : req'[d] = req[d]
    BY <2>3, <2>4 DEF IInv
  <2>6. UNCHANGED age
    BY <1>6 DEF Decide, breakerVars
  <2> QED BY <1>1, <2>5, <2>6
<1>7. ASSUME NEW c \in Calls, Call(c)
      PROVE  InBreaker'
  <2>1. age' = [age EXCEPT ![c] = 0]
    BY <1>7 DEF Call, Admit, Probe
  <2>2. /\ req'[c].stage = "calling"
        /\ \A d \in Calls \ {c} : req'[d] = req[d]
    BY <1>7, Moved DEF Call
  <2>3. 0 \in {NoCall} \cup Nat /\ 0 # NoCall
    BY DEF NoCall
  <2> QED BY <2>1, <2>2, <2>3, OneCall
<1>8. ASSUME NEW c \in Calls, Fail(c) \/ Return(c)
      PROVE  InBreaker'
  <2>1. age' = [age EXCEPT ![c] = NoCall]
    BY <1>8 DEF Fail, Return, Finish
  <2>2. /\ req'[c].stage \in {"responding", "answered"}
        /\ \A d \in Calls \ {c} : req'[d] = req[d]
    BY <1>8, Moved, Responded DEF Fail, Return, Unavailable
  <2> QED BY <2>1, <2>2, OneCall
<1>9. CASE Tick
  <2>1. ASSUME NEW c \in Calls
        PROVE  req'[c].stage = req[c].stage
    <3>1. req[c] \in Requests
      BY DEF IInv
    <3>2. CASE c \in InFlight
      <4> DEFINE asked == Older(req[c].asked)
                 decided == IF req[c].decision = "none"
                              THEN 0 ELSE Older(req[c].decided)
      <4>1. req'[c] = [req[c] EXCEPT !.asked = asked, !.decided = decided]
        BY <1>9, <3>2 DEF Tick
      <4> HIDE DEF asked, decided
      <4> QED BY <3>1, <4>1 DEF Requests
    <3>3. CASE c \notin InFlight
      BY <1>9, <3>3 DEF Tick
    <3> QED BY <3>2, <3>3
  <2>2. Running' = Running
    <3>1. ASSUME NEW c \in Calls
          PROVE  age'[c] = NoCall <=> age[c] = NoCall
      <4>1. age'[c] = IF age[c] = NoCall THEN NoCall ELSE age[c] + 1
        BY <1>9 DEF Tick, BreakerTick
      <4>2. age[c] \in {NoCall} \cup Nat
        BY BreakerAssumption DEF BreakerTypeOK
      <4> QED BY <4>1, <4>2 DEF NoCall
    <3> QED BY <3>1 DEF Running
  <2> QED BY <2>1, <2>2 DEF InBreaker
<1>10. CASE RedisChanges \/ UNCHANGED vars
  BY <1>10 DEF RedisChanges, RedisSwitches, vars, breakerVars, InBreaker, Running
<1> QED
  BY <1>2, <1>3, <1>4, <1>5, <1>6, <1>7, <1>8, <1>9, <1>10 DEF Next

LEMMA NextHits ==
  ASSUME hits \in 0 .. L1Extra + 1, [Next]_vars
  PROVE  hits' \in 0 .. L1Extra + 1
<1>1. ASSUME NEW c \in Calls, Hit(c)
      PROVE  hits' \in 0 .. L1Extra + 1
  BY <1>1, GatewayAssumption DEF Hit
<1>2. ASSUME NEW c \in Calls, Respond(c)
      PROVE  hits' \in 0 .. L1Extra + 1
  BY <1>2, GatewayAssumption DEF Respond, CacheSet
<1>3. ASSUME NEW c \in Calls, DeleteEntry(c)
      PROVE  hits' \in 0 .. L1Extra + 1
  BY <1>3, GatewayAssumption DEF DeleteEntry
<1> QED
  BY <1>1, <1>2, <1>3
  DEF Next, vars, Refuse, Ask, FindExpired, Miss, FailFast, Call,
      Decide, Fail, Return, Done, Tick, RedisChanges

\* Type correctness of the request path, and its tie with the breaker: a goroutine
\* is counted inside the breaker exactly while its request is calling Redis.
THEOREM GatewayTypeCorrect == Spec => []TypeOK
<1> DEFINE Both == InBreaker /\ hits \in 0 .. L1Extra + 1
<1>1. Init => Both
  BY GatewayAssumption DEF Init, BreakerInit, InBreaker, Running, Idle, NoCall
<1>2. IInv /\ IInv' /\ BreakerInv /\ Both /\ [Next]_vars => Both'
  BY NextInBreaker, NextHits DEF BreakerInv
<1>3. IInv /\ Both => TypeOK
  BY DEF IInv, InBreaker, TypeOK, Requests, Entries, Stages, Ages, Responses
<1>4. Spec => []BreakerInv
  BY GatewayBreaker, BreakerInvariance
<1> HIDE DEF Both
<1> QED BY <1>1, <1>2, <1>3, <1>4, Invariance, PTL DEF Spec

==============================================================================
