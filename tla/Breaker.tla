------------------------------- MODULE Breaker -------------------------------
(***************************************************************************)
(* The circuit breaker of backend/internal/breaker/breaker.go: one Breaker *)
(* shared by the goroutines that call Do.                                  *)
(*                                                                         *)
(* Do takes the mutex twice, to decide whether f may run and to record     *)
(* what f returned; f, a call to Redis, runs between the two sections      *)
(* without the mutex.  Each section is one action, so the breaker can      *)
(* change state any number of times while a call is out.                   *)
(*                                                                         *)
(* Times only matter as differences, so the model keeps ages: sinceOpened  *)
(* is clock.Now() - openedAt, and stops counting one past OpenDuration,    *)
(* the only value it is compared with; age[c] is how long the call of c    *)
(* has been out.                                                           *)
(***************************************************************************)
EXTENDS Integers, FiniteSets

CONSTANTS
  Calls,              \* goroutines that may be inside Do at the same time
  MinRequests,        \* config.BreakerConfig.MinRequests
  RatioNum,           \* config.BreakerConfig.ErrorRatio is RatioNum / RatioDen
  RatioDen,
  OpenDuration,       \* config.BreakerConfig.OpenDuration, in ticks
  HalfOpenSuccesses,  \* config.BreakerConfig.HalfOpenSuccesses
  MaxCallTime,        \* the longest f can take, in ticks
  MaxTotal            \* bound: calls are admitted while total is below it

(***************************************************************************)
(* What validateBreaker accepts (config/validate.go).  Nothing there       *)
(* relates the duration of a call to OpenDuration.                         *)
(***************************************************************************)
ASSUME BreakerAssumption ==
  /\ MinRequests \in Nat \ {0}
  /\ RatioDen \in Nat \ {0}
  /\ RatioNum \in 1 .. RatioDen
  /\ OpenDuration \in Nat \ {0}
  /\ HalfOpenSuccesses \in Nat \ {0}
  /\ MaxCallTime \in Nat
  /\ MaxTotal \in Nat \ {0}

VARIABLES
  state,        \* b.state
  total,        \* b.total, calls recorded while Closed since the last close
  failures,     \* b.failures, those of them that failed
  successes,    \* b.successes, successes recorded since the last Open -> HalfOpen
  sinceOpened,  \* clock.Now() - b.openedAt
  age,          \* age[c] is the time the call of c has been out, or NoCall
  redisUp,      \* the environment: FALSE while calls may fail, see RedisSwitches
  probes,       \* history: calls out that were admitted in this half-open period
  probeOks      \* history: successes of such calls in this period

fields == <<state, total, failures, successes, sinceOpened>>
history == <<probes, probeOks>>
breakerVars == <<state, total, failures, successes, sinceOpened, age, redisUp,
                 probes, probeOks>>

Closed   == "Closed"
Open     == "Open"
HalfOpen == "HalfOpen"
NoCall   == -1

Running == {c \in Calls : age[c] # NoCall}

(***************************************************************************)
(* Operators whose name carries an underscore are plausible mistakes in    *)
(* the definition that follows them.  No specification uses them: a run    *)
(* with the mistake in place shows that the properties would notice it.    *)
(***************************************************************************)

\* >= instead of >
Elapsed_OneTickEarly == sinceOpened >= OpenDuration

\* b.clock.Now().Sub(b.openedAt) > b.cfg.OpenDuration
Elapsed == sinceOpened > OpenDuration

\* The condition under which a Closed breaker with these counts opens.
Trips(t, f) == t >= MinRequests /\ f * RatioDen > RatioNum * t

BreakerInit ==
  /\ state = Closed
  /\ total = 0
  /\ failures = 0
  /\ successes = 0
  /\ sinceOpened = OpenDuration + 1
  /\ age = [c \in Calls |-> NoCall]
  /\ redisUp \in BOOLEAN
  /\ probes = {}
  /\ probeOks = 0

------------------------------------------------------------------------------
(***************************************************************************)
(* First section of Do: may f run?                                         *)
(***************************************************************************)

\* HalfOpen lets through only the caller that entered it.
Admit_OneProbeOnly(c) ==
  /\ age[c] = NoCall
  /\ state = Closed
  /\ total < MaxTotal
  /\ age' = [age EXCEPT ![c] = 0]
  /\ UNCHANGED <<fields, redisUp, history>>

\* The state is not looked at.
Admit_WhileOpen(c) ==
  /\ age[c] = NoCall
  /\ total < MaxTotal
  /\ age' = [age EXCEPT ![c] = 0]
  /\ UNCHANGED <<fields, redisUp, history>>

\* Closed and HalfOpen let every caller through.
Admit(c) ==
  /\ age[c] = NoCall
  /\ state \in {Closed, HalfOpen}
  /\ state = Closed => total < MaxTotal
  /\ age' = [age EXCEPT ![c] = 0]
  /\ probes' = IF state = HalfOpen THEN probes \cup {c} ELSE probes
  /\ UNCHANGED <<fields, redisUp, probeOks>>

\* successes is not reset.
Probe_KeepsSuccesses(c) ==
  /\ age[c] = NoCall
  /\ state = Open
  /\ Elapsed
  /\ state' = HalfOpen
  /\ age' = [age EXCEPT ![c] = 0]
  /\ probes' = {c}
  /\ probeOks' = 0
  /\ UNCHANGED <<total, failures, successes, sinceOpened, redisUp>>

\* The first caller after OpenDuration moves Open to HalfOpen and is let through.
Probe(c) ==
  /\ age[c] = NoCall
  /\ state = Open
  /\ Elapsed
  /\ state' = HalfOpen
  /\ successes' = 0
  /\ age' = [age EXCEPT ![c] = 0]
  /\ probes' = {c}
  /\ probeOks' = 0
  /\ UNCHANGED <<total, failures, sinceOpened, redisUp>>

\* A rejected caller stamps openedAt again.
Reject_Restamps(c) ==
  /\ age[c] = NoCall
  /\ state = Open
  /\ ~Elapsed
  /\ sinceOpened' = 0
  /\ UNCHANGED <<state, total, failures, successes, age, redisUp, history>>

\* Until then Do returns ErrUnavailable and f does not run.
Reject(c) ==
  /\ age[c] = NoCall
  /\ state = Open
  /\ ~Elapsed
  /\ UNCHANGED breakerVars

------------------------------------------------------------------------------
(***************************************************************************)
(* Second section of Do: f returned, with an error or without one.         *)
(***************************************************************************)

\* setState(StateOpen) and the stamp that goes with it.
TripOpen ==
  /\ state' = Open
  /\ sinceOpened' = 0

\* The ratio is looked at after failures only.
RecordClosed_ChecksFailuresOnly(failed) ==
  LET t == total + 1
      f == IF failed THEN failures + 1 ELSE failures
  IN  /\ state = Closed
      /\ total' = t
      /\ failures' = f
      /\ IF failed /\ Trips(t, f)
           THEN TripOpen
           ELSE UNCHANGED <<state, sinceOpened>>
      /\ UNCHANGED successes

\* What Do does with the result of f when it finds the breaker Closed.
RecordClosed(failed) ==
  LET t == total + 1
      f == IF failed THEN failures + 1 ELSE failures
  IN  /\ state = Closed
      /\ total' = t
      /\ failures' = f
      /\ IF Trips(t, f)
           THEN TripOpen
           ELSE UNCHANGED <<state, sinceOpened>>
      /\ UNCHANGED successes

\* > instead of >=
RecordHalfOpenSuccess_OneTooMany ==
  /\ state = HalfOpen
  /\ successes' = successes + 1
  /\ IF successes + 1 > HalfOpenSuccesses
       THEN /\ state' = Closed
            /\ total' = 0
            /\ failures' = 0
       ELSE UNCHANGED <<state, total, failures>>
  /\ UNCHANGED sinceOpened

\* A success found in HalfOpen; the last one needed closes the breaker.
RecordHalfOpenSuccess ==
  /\ state = HalfOpen
  /\ successes' = successes + 1
  /\ IF successes + 1 >= HalfOpenSuccesses
       THEN /\ state' = Closed
            /\ total' = 0
            /\ failures' = 0
       ELSE UNCHANGED <<state, total, failures>>
  /\ UNCHANGED sinceOpened

\* openedAt keeps the stamp of the previous trip.
RecordHalfOpenFailure_NoStamp ==
  /\ state = HalfOpen
  /\ state' = Open
  /\ UNCHANGED <<total, failures, successes, sinceOpened>>

\* Any failure found in HalfOpen opens the breaker again.
RecordHalfOpenFailure ==
  /\ state = HalfOpen
  /\ TripOpen
  /\ UNCHANGED <<total, failures, successes>>

\* Every late result stamps openedAt again.
RecordOpen_Restamps ==
  /\ state = Open
  /\ sinceOpened' = 0
  /\ UNCHANGED <<state, total, failures, successes>>

\* A result that comes back while the breaker is Open is dropped.
RecordOpen ==
  /\ state = Open
  /\ UNCHANGED fields

\* f may fail only while Redis does not answer; it may also have succeeded
\* just before Redis stopped.
Finish(c, failed) ==
  /\ age[c] # NoCall
  /\ failed => ~redisUp
  /\ \/ RecordClosed(failed)
     \/ ~failed /\ RecordHalfOpenSuccess
     \/ failed /\ RecordHalfOpenFailure
     \/ RecordOpen
  /\ age' = [age EXCEPT ![c] = NoCall]
  /\ probes' = probes \ {c}
  /\ probeOks' = IF ~failed /\ c \in probes THEN probeOks + 1 ELSE probeOks
  /\ UNCHANGED redisUp

------------------------------------------------------------------------------
(***************************************************************************)
(* The environment.                                                        *)
(***************************************************************************)

\* Time passes, but no call stays out longer than MaxCallTime.
BreakerTick ==
  /\ \A c \in Running : age[c] < MaxCallTime
  /\ age' = [c \in Calls |-> IF age[c] = NoCall THEN NoCall ELSE age[c] + 1]
  /\ sinceOpened' = IF Elapsed THEN sinceOpened ELSE sinceOpened + 1
  /\ UNCHANGED <<state, total, failures, successes, redisUp, history>>

\* Calls begin or cease to fail, for whatever reason makes f return an error:
\* Redis is away, answers after the deadline of the call, or the client of the
\* gateway gave up, which cancels the context the call was made with.
RedisSwitches ==
  /\ redisUp' = ~redisUp
  /\ UNCHANGED <<fields, age, history>>

BreakerNext ==
  \/ \E c \in Calls : Admit(c)
  \/ \E c \in Calls : Probe(c)
  \/ \E c \in Calls : Reject(c)
  \/ \E c \in Calls, failed \in BOOLEAN : Finish(c, failed)
  \/ BreakerTick
  \/ RedisSwitches

BreakerSpec == BreakerInit /\ [][BreakerNext]_breakerVars

(***************************************************************************)
(* Clients keep calling, every call to Redis returns (it has a deadline),  *)
(* and time passes.  Nothing is assumed of Redis.                          *)
(***************************************************************************)
BreakerFairness ==
  /\ WF_breakerVars(\E c \in Calls : Admit(c))
  /\ WF_breakerVars(\E c \in Calls : Probe(c))
  /\ \A c \in Calls : WF_breakerVars(\E failed \in BOOLEAN : Finish(c, failed))
  /\ WF_breakerVars(BreakerTick)

BreakerFairSpec == BreakerSpec /\ BreakerFairness

------------------------------------------------------------------------------
(***************************************************************************)
(* Properties.                                                             *)
(***************************************************************************)

\* The values the breaker can hold.
BreakerTypeOK ==
  /\ state \in {Closed, Open, HalfOpen}
  /\ total \in Nat
  /\ failures \in 0 .. total
  /\ successes \in 0 .. HalfOpenSuccesses
  /\ sinceOpened \in 0 .. OpenDuration + 1
  /\ age \in [Calls -> {NoCall} \cup (0 .. MaxCallTime)]
  /\ redisUp \in BOOLEAN
  /\ probes \subseteq Running
  /\ probeOks \in Nat

\* A breaker that is still Closed does not hold counts that should have opened
\* it, whichever calls, admitted in whichever period, produced them: a trip is
\* never missed because the decisive result was a success, and a breaker that
\* closes again does not start from the counts of the last outage.
NoMissedTrip == state = Closed => ~Trips(total, failures)

\* Fail fast: while the breaker is Open every call still out was admitted before
\* it opened, so Redis receives nothing new during the open period.
NoCallStartedWhileOpen ==
  state = Open => \A c \in Running : age[c] >= sinceOpened

\* Results that a half-open breaker will count come from probes, the calls
\* admitted in this half-open period.  This holds only when no call outlives
\* OpenDuration.
OnlyProbesCounted == state = HalfOpen => Running \subseteq probes

\* The breaker closes only after HalfOpenSuccesses successful probes of this
\* half-open period: neither successes left over from an earlier period nor
\* results of calls admitted before the breaker opened close it.
ClosesOnProbes ==
  [][state = HalfOpen /\ state' = Closed => probeOks' >= HalfOpenSuccesses]_breakerVars

\* Results that come back while the breaker is Open, and callers it turns away,
\* do not extend the open period.
OpenPeriodNotExtended ==
  [][state = Open /\ state' = Open => sinceOpened' >= sinceOpened]_breakerVars

\* The breaker, its callers, counts and failures hidden, is the state machine that
\* section 5 of ARCHITECTURE.md draws.
FSM == INSTANCE BreakerFSM WITH
         phase <- state, dwell <- sinceOpened, streak <- successes
ImplementsFSM == FSM!Spec

\* While clients keep calling, an open breaker probes again, whatever Redis does.
OpenEnds == state = Open ~> state # Open

\* Once Redis stays up and clients keep calling, the breaker closes for good
\* ("Unpause Redis; assert breaker eventually re-closes").
Recovers == <>[]redisUp => <>[](state = Closed)

==============================================================================
