-------------------------- MODULE LeakyBucketProofs ---------------------------
(***************************************************************************)
(* Theorems about the Redis leaky bucket, for every number of concurrent   *)
(* calls, every quota and every bound on delay and clock skew.             *)
(***************************************************************************)
EXTENDS LeakyBucket, RedisCallsProofs

IInv == TypeOK /\ ReadingsInRange

------------------------------------------------------------------------------
(***************************************************************************)
(* Arithmetic.                                                             *)
(***************************************************************************)

LEMMA Quantities ==
  Limit \in Nat \ {0} /\ Full \in Nat /\ Water \in Nat /\ TTL \in Nat
BY LeakyBucketAssumption DEF Full, Capacity, Water, TTL

\* What drains over an interval is not negative and grows with the interval.
LEMMA DrainInt ==
  ASSUME NEW a \in Int
  PROVE  /\ Limit * a \in Int
         /\ a >= 0 => Limit * a >= 0
BY LeakyBucketAssumption

LEMMA DrainMonotone ==
  ASSUME NEW a \in Int, NEW b \in Int, a <= b
  PROVE  Limit * a <= Limit * b
<1>1. Limit \in Nat /\ b - a \in Nat
  BY LeakyBucketAssumption
<1>2. Limit * (b - a) >= 0
  BY <1>1
<1>3. Limit * (b - a) = Limit * b - Limit * a
  BY <1>1
<1> QED BY <1>1, <1>2, <1>3

\* The wait is long enough for the units to drain.
LEMMA WaitDrains ==
  ASSUME NEW units \in Nat
  PROVE  /\ TicksToDrain(units) \in Nat
         /\ units <= Limit * TicksToDrain(units)
<1>1. Limit \in Nat /\ Limit > 0 /\ units + Limit - 1 \in Nat
  BY LeakyBucketAssumption
<1> DEFINE total == units + Limit - 1
           wait == total \div Limit
<1>2. /\ wait \in Nat
      /\ total = Limit * wait + (total % Limit)
      /\ total % Limit \in 0 .. Limit - 1
  BY <1>1
<1>3. Limit * wait \in Nat
  BY <1>1, <1>2
<1>4. units <= Limit * wait
  BY <1>1, <1>2, <1>3
<1> QED BY <1>2, <1>4 DEF TicksToDrain

------------------------------------------------------------------------------
(***************************************************************************)
(* leaky_bucket.lua                                                        *)
(***************************************************************************)

Gap(stamp) == IF stamp > lastDrain THEN stamp - lastDrain ELSE 0

\* The time between the readings, and what drains in it.
LEMMA GapOK ==
  ASSUME TypeOK, NEW stamp \in Nat
  PROVE  Gap(stamp) \in Nat /\ Limit * Gap(stamp) \in Nat
<1>1. Gap(stamp) \in Nat
  BY DEF TypeOK, Gap
<1>2. Limit * Gap(stamp) \in Int /\ Limit * Gap(stamp) >= 0
  BY <1>1, DrainInt
<1> QED BY <1>1, <1>2

\* A bucket that drained holds no more than before.
LEMMA DrainedRange ==
  ASSUME TypeOK, NEW stamp \in Nat
  PROVE  /\ Drained(stamp) \in 0 .. Full
         /\ Drained(stamp) <= level
         /\ Live => Drained(stamp) = IF Limit * Gap(stamp) >= level THEN 0
                                     ELSE level - Limit * Gap(stamp)
         /\ ~Live => Drained(stamp) = 0
<1> DEFINE drained == Limit * Gap(stamp)
<1>1. drained \in Nat /\ level \in 0 .. Full
  BY GapOK DEF TypeOK
<1>2. Drained(stamp) = IF ~Live \/ drained >= level THEN 0 ELSE level - drained
  BY DEF Drained, Gap
<1> HIDE DEF drained
<1>3. Drained(stamp) \in 0 .. Full /\ Drained(stamp) <= level
  BY <1>1, <1>2, Quantities
<1> QED BY <1>2, <1>3 DEF drained

LEMMA ScriptType ==
  ASSUME TypeOK, NEW stamp \in Nat, RunScript(stamp)
  PROVE  /\ exists' = TRUE
         /\ level' \in 0 .. Full
         /\ lastDrain' = stamp
         /\ expiresAt' = now + TTL
         /\ hint' \in Int
         /\ restarts' = restarts
         /\ allowance' \in Int
         /\ rewound' \in Nat
<1> DEFINE drained == Drained(stamp)
           allowed == drained + Water <= Full
           wait == TicksToDrain(drained + Water - Full)
<1>1. drained \in 0 .. Full
  BY DrainedRange
<1>2. /\ exists' = TRUE
      /\ level' = IF allowed THEN drained + Water ELSE drained
      /\ lastDrain' = stamp
      /\ expiresAt' = now + TTL
      /\ hint' = IF allowed THEN NoHint ELSE stamp + wait
      /\ allowance' = allowance + Limit * (stamp - lastDrain)
                        - (IF allowed THEN Water ELSE 0)
      /\ rewound' = IF stamp < lastDrain THEN rewound + (lastDrain - stamp)
                                         ELSE rewound
      /\ restarts' = restarts
  BY DEF RunScript
<1> HIDE DEF drained
<1>3. ~allowed => wait \in Nat
  <2> DEFINE over == drained + Water - Full
  <2>1. ~allowed => over \in Nat
    BY <1>1, Quantities
  <2> HIDE DEF over
  <2>2. ~allowed => TicksToDrain(over) \in Nat
    BY <2>1, WaitDrains
  <2> QED BY <2>2 DEF over
<1>4. Limit * (stamp - lastDrain) \in Int
  BY DrainInt DEF TypeOK
<1> HIDE DEF wait
<1>5. level' \in 0 .. Full
  BY <1>1, <1>2, Quantities
<1>6. hint' \in Int
  BY <1>2, <1>3 DEF NoHint
<1>7. allowance' \in Int /\ rewound' \in Nat
  <2> HIDE DEF allowed
  <2> QED BY <1>2, <1>4, Quantities DEF TypeOK
<1> QED BY <1>2, <1>5, <1>6, <1>7

------------------------------------------------------------------------------
(***************************************************************************)
(* Every step keeps the invariant.                                         *)
(***************************************************************************)

LEMMA IInvCalls == IInv => CallsInv
BY DEF IInv, TypeOK, CallsInv

\* A step that only concerns calls on their way.
LEMMA QuietStep ==
  ASSUME IInv, UNCHANGED <<redis, hint, restarts, measure>>, CallsInv'
  PROVE  IInv'
BY DEF IInv, CallsInv, TypeOK, redis, measure

LEMMA ExecuteIInv ==
  ASSUME IInv, NEW c \in Calls, Execute(c)
  PROVE  IInv'
<1>1. Arrive(c) /\ RunScript(call[c].stamp) /\ CallsInv /\ TypeOK
  BY IInvCalls DEF Execute, IInv
<1>2. call[c].stamp \in Nat /\ now \in Nat /\ now' = now
  BY <1>1, Arrival
<1>3. CallsInv'
  BY <1>1, ArriveOK
<1> DEFINE stamp == call[c].stamp
<1> HIDE DEF stamp
<1>4. /\ exists' = TRUE /\ level' \in 0 .. Full /\ lastDrain' = stamp
      /\ expiresAt' = now + TTL /\ hint' \in Int /\ restarts' = restarts
      /\ allowance' \in Int /\ rewound' \in Nat
  BY <1>1, <1>2, ScriptType DEF stamp
<1>5. TypeOK'
  BY <1>1, <1>2, <1>3, <1>4, Quantities DEF TypeOK, CallsInv, stamp
<1> QED BY <1>3, <1>5 DEF IInv, CallsInv

LEMMA RestartIInv ==
  ASSUME IInv, Restart
  PROVE  IInv'
<1>1. restarts' \in 0 .. MaxRestarts
  BY LeakyBucketAssumption DEF IInv, TypeOK, Restart
<1>2. allowance' \in Int /\ hint' \in Int
  BY Quantities DEF IInv, TypeOK, Restart, NoHint
<1>3. CallsTypeOK' /\ ReadingsInRange'
  BY DEF IInv, TypeOK, CallsTypeOK, ReadingsInRange, Restart
<1>4. level' \in 0 .. Full /\ exists' \in BOOLEAN
  BY DEF IInv, TypeOK, Restart, Full, Capacity
<1> QED BY <1>1, <1>2, <1>3, <1>4 DEF IInv, TypeOK, Restart

LEMMA BeginMeasureIInv ==
  ASSUME IInv, BeginMeasure
  PROVE  IInv'
<1>1. ReadingsInRange' /\ CallsTypeOK'
  BY DEF IInv, TypeOK, CallsTypeOK, ReadingsInRange, BeginMeasure, redis
<1>2. allowance' \in Int /\ rewound' \in Nat
  BY Quantities DEF BeginMeasure
<1> QED BY <1>1, <1>2 DEF IInv, TypeOK, BeginMeasure, redis

LEMMA NextIInv ==
  ASSUME IInv, [Next]_vars
  PROVE  IInv'
<1>1. CASE UNCHANGED vars
  <2>1. CallsInv'
    BY <1>1, IInvCalls, CallsKept DEF vars, callVars
  <2> QED BY <1>1, <2>1, QuietStep DEF vars, redis, measure
<1>2. ASSUME NEW c \in Calls, Send(c)
      PROVE  IInv'
  BY <1>2, IInvCalls, DepartOK, QuietStep DEF Send
<1>3. ASSUME NEW c \in Calls, Travel(c)
      PROVE  IInv'
  BY <1>3, IInvCalls, OnTheWayOK, QuietStep DEF Travel
<1>4. CASE Tick
  BY <1>4, IInvCalls, TimePassesOK, QuietStep DEF Tick
<1> QED
  BY <1>1, <1>2, <1>3, <1>4, ExecuteIInv, RestartIInv, BeginMeasureIInv
  DEF Next

LEMMA InitIInv == Init => IInv
<1> SUFFICES ASSUME Init PROVE IInv
  OBVIOUS
<1>1. CallsInv
  BY CallsInitOK DEF Init
<1>2. /\ level \in 0 .. Full /\ allowance \in Int /\ hint \in Int
      /\ restarts \in 0 .. MaxRestarts
  BY Quantities, LeakyBucketAssumption DEF Init, NoHint
<1> QED BY <1>1, <1>2 DEF Init, IInv, TypeOK, CallsInv

LEMMA Invariance == Spec => []IInv
<1>1. IInv /\ [Next]_vars => IInv'
  BY NextIInv
<1> QED BY <1>1, InitIInv, PTL DEF Spec

------------------------------------------------------------------------------
\* The bucket never overflows, whatever order the scripts run in and whatever
\* is sent again.
THEOREM TypeCorrect == Spec => []TypeOK
<1>1. IInv => TypeOK
  BY DEF IInv
<1> QED BY <1>1, Invariance, PTL

------------------------------------------------------------------------------
(***************************************************************************)
(* Retry-After.                                                            *)
(***************************************************************************)

\* As long as the caller's hint is the last word, it is the time at which there
\* is room for one more call.
HintIsRoomTime ==
  hint # NoHint =>
    /\ level + Water > Full
    /\ hint = lastDrain + TicksToDrain(level + Water - Full)

LEMMA HintStep ==
  ASSUME IInv, HintIsRoomTime, [Next]_vars
  PROVE  HintIsRoomTime'
<1>1. ASSUME NEW c \in Calls, Execute(c)
      PROVE  HintIsRoomTime'
  <2> DEFINE stamp == call[c].stamp
             drained == Drained(stamp)
             allowed == drained + Water <= Full
  <2>1. /\ level' = IF allowed THEN drained + Water ELSE drained
        /\ lastDrain' = stamp
        /\ hint' = IF allowed THEN NoHint
                   ELSE stamp + TicksToDrain(drained + Water - Full)
    BY <1>1 DEF Execute, RunScript
  <2>2. drained \in 0 .. Full
    BY <1>1, IInvCalls, Arrival, DrainedRange DEF Execute, IInv
  <2> HIDE DEF stamp, drained
  <2>3. CASE allowed
    BY <2>1, <2>3 DEF HintIsRoomTime
  <2>4. CASE ~allowed
    <3>1. drained + Water > Full
      BY <2>2, <2>4, Quantities
    <3> QED BY <2>1, <2>4, <3>1 DEF HintIsRoomTime
  <2> QED BY <2>3, <2>4
<1>2. ASSUME UNCHANGED <<hint, lastDrain, level>>
      PROVE  HintIsRoomTime'
  BY <1>2 DEF HintIsRoomTime
<1>3. CASE Tick \/ BeginMeasure
  BY <1>2, <1>3 DEF Tick, BeginMeasure, redis
<1>4. CASE Restart
  BY <1>4 DEF Restart, HintIsRoomTime
<1>5. CASE \E c \in Calls : Send(c) \/ Travel(c)
  BY <1>2, <1>5 DEF Send, Travel, redis
<1>6. CASE UNCHANGED vars
  BY <1>2, <1>6 DEF vars
<1> QED BY <1>1, <1>3, <1>4, <1>5, <1>6 DEF Next

\* A reading no earlier than the hint finds room.
LEMMA RoomAtHint ==
  ASSUME IInv, HintIsRoomTime, hint # NoHint, Water <= Full,
         NEW stamp \in Nat, stamp >= hint
  PROVE  Drained(stamp) + Water <= Full
<1> DEFINE over == level + Water - Full
<1>1. /\ level \in 0 .. Full /\ lastDrain \in Nat /\ over \in Nat
      /\ hint = lastDrain + TicksToDrain(over)
  BY Quantities DEF IInv, TypeOK, HintIsRoomTime
<1> HIDE DEF over
<1>2. TicksToDrain(over) \in Nat /\ over <= Limit * TicksToDrain(over)
  BY <1>1, WaitDrains
<1>3. Gap(stamp) \in Nat /\ TicksToDrain(over) <= Gap(stamp)
  BY <1>1, <1>2 DEF Gap
<1>4. Limit * TicksToDrain(over) <= Limit * Gap(stamp)
  BY <1>2, <1>3, DrainMonotone
<1>5. Limit * TicksToDrain(over) \in Int /\ Limit * Gap(stamp) \in Int
  BY <1>2, <1>3, DrainInt
<1> DEFINE drained == Limit * Gap(stamp)
           left == Drained(stamp)
<1>6. left = 0 \/ left = level - drained
  BY DrainedRange DEF IInv
<1>7. over <= drained /\ drained \in Int
  BY <1>1, <1>2, <1>4, <1>5
<1> HIDE DEF drained, left
<1>8. left + Water <= Full
  BY <1>1, <1>6, <1>7, Quantities DEF over
<1> QED BY <1>8 DEF left

LEMMA WaterFits ==
  ASSUME Cost <= Capacity
  PROVE  Water <= Full
<1>1. Capacity \in Nat /\ Cost \in Nat /\ Window \in Nat
  BY LeakyBucketAssumption DEF Capacity
<1>2. (Capacity - Cost) * Window >= 0
  BY <1>1
<1>3. (Capacity - Cost) * Window = Capacity * Window - Cost * Window
  BY <1>1
<1> QED BY <1>1, <1>2, <1>3 DEF Water, Full

\* Retry-After is long enough whenever the bucket can hold the water of a call,
\* although it only waits for room and not for an empty bucket.
THEOREM RetryAfterIsEnough ==
  ASSUME Cost <= Capacity
  PROVE  Spec => RetryAfterSuffices
<1>1. Init => HintIsRoomTime
  BY DEF Init, HintIsRoomTime
<1>2. IInv /\ HintIsRoomTime /\ [Next]_vars => HintIsRoomTime'
  BY HintStep
<1>3. Spec => []HintIsRoomTime
  BY <1>1, <1>2, Invariance, PTL DEF Spec
<1>4. IInv /\ HintIsRoomTime
        => \A c \in Calls :
             Execute(c) /\ hint # NoHint /\ call[c].stamp >= hint
               => hint' = NoHint
  <2> SUFFICES ASSUME IInv, HintIsRoomTime, NEW c \in Calls, Execute(c),
                      hint # NoHint, call[c].stamp >= hint
               PROVE  hint' = NoHint
    OBVIOUS
  <2>1. call[c].stamp \in Nat
    BY IInvCalls, Arrival DEF Execute
  <2>2. Drained(call[c].stamp) + Water <= Full
    BY <2>1, RoomAtHint, WaterFits
  <2> QED BY <2>2 DEF Execute, RunScript
<1>5. IInv /\ HintIsRoomTime /\ [Next]_vars
        => [\A c \in Calls :
              Execute(c) /\ hint # NoHint /\ call[c].stamp >= hint
                => hint' = NoHint]_vars
  BY <1>4
<1> QED BY <1>3, <1>5, Invariance, PTL DEF Spec, RetryAfterSuffices

------------------------------------------------------------------------------
(***************************************************************************)
(* The leaky bucket implements the token bucket.                           *)
(***************************************************************************)

\* Both speak of the same quantities and the same calls.
LEMMA SameQuantities ==
  /\ TB!Full = Full /\ TB!Price = Water /\ TB!TTL = TTL
  /\ TB!NoHint = NoHint /\ TB!Live = Live
  /\ \A units : TB!TicksToEarn(units) = TicksToDrain(units)
BY DEF TB!Full, TB!Capacity, TB!Price, TB!TTL, TB!NoHint, TB!Live,
       TB!TicksToEarn, Full, Capacity, Water, TTL, NoHint, Live, TicksToDrain

LEMMA SameCalls ==
  /\ CallsInit <=> TB!CallsInit
  /\ \A c \in Calls : /\ Depart(c) <=> TB!Depart(c)
                      /\ Arrive(c) <=> TB!Arrive(c)
                      /\ OnTheWay(c) <=> TB!OnTheWay(c)
  /\ TimePasses <=> TB!TimePasses
BY DEF CallsInit, Depart, Arrive, OnTheWay, LoseRequest, SendAgain,
       ReturnUnavailable, TimePasses, Settled, Free,
       TB!CallsInit, TB!Depart, TB!Arrive, TB!OnTheWay, TB!LoseRequest,
       TB!SendAgain, TB!ReturnUnavailable, TB!TimePasses, TB!Settled, TB!Free

\* What has drained is what has been earned.
LEMMA SameRefill ==
  ASSUME TypeOK, NEW stamp \in Nat
  PROVE  TB!Refilled(stamp) = Full - Drained(stamp)
<1> DEFINE drained == Limit * Gap(stamp)
<1>1. drained \in Nat /\ level \in 0 .. Full /\ Full \in Nat
  BY GapOK, Quantities DEF TypeOK
<1>2. TB!Refilled(stamp) = IF ~Live THEN Full
                           ELSE TB!AtMost(Full, (Full - level) + drained)
  BY SameQuantities DEF TB!Refilled, Tokens, Gap
<1>3. /\ Live => Drained(stamp) = IF drained >= level THEN 0 ELSE level - drained
      /\ ~Live => Drained(stamp) = 0
  BY DrainedRange
<1> HIDE DEF drained
<1> QED BY <1>1, <1>2, <1>3 DEF TB!AtMost

\* The hint of the token bucket, as LeakyBucket instantiates it.
TBHint == IF hint = NoHint THEN NoHint ELSE lastDrain + TicksToDrain(level)

\* A run of leaky_bucket.lua is a run of token_bucket.lua.
LEMMA SameScript ==
  ASSUME TypeOK, NEW stamp \in Nat, RunScript(stamp)
  PROVE  TB!RunScript(stamp)
<1> DEFINE drained == Drained(stamp)
           allowed == drained + Water <= Full
           refilled == TB!Refilled(stamp)
           wait == TicksToDrain(drained + Water - Full)
<1>1. drained \in 0 .. Full /\ refilled = Full - drained
  BY SameRefill, DrainedRange
<1>2. /\ exists' = TRUE
      /\ level' = IF allowed THEN drained + Water ELSE drained
      /\ lastDrain' = stamp
      /\ expiresAt' = now + TTL
      /\ hint' = IF allowed THEN NoHint ELSE stamp + wait
      /\ allowance' = allowance + Limit * (lastDrain' - lastDrain)
                        - (IF allowed THEN Water ELSE 0)
      /\ rewound' = IF stamp < lastDrain THEN rewound + (lastDrain - stamp)
                                         ELSE rewound
      /\ restarts' = restarts
  BY DEF RunScript
<1> HIDE DEF drained
<1>3. ~allowed => wait \in Nat
  <2> DEFINE over == drained + Water - Full
  <2>1. ~allowed => over \in Nat
    BY <1>1, Quantities
  <2> HIDE DEF over
  <2>2. ~allowed => TicksToDrain(over) \in Nat
    BY <2>1, WaitDrains
  <2> QED BY <2>2 DEF over
<1> HIDE DEF wait, refilled
<1> DEFINE paid == refilled >= Water
           left == IF paid THEN refilled - Water ELSE refilled
<1>4. paid <=> allowed
  BY <1>1, Quantities
<1>5. Tokens' = left /\ Full - left = level'
  BY <1>1, <1>2, <1>4, Quantities DEF Tokens, Full, Capacity
<1>6. TBHint' = IF paid THEN NoHint ELSE stamp + TicksToDrain(Full - left)
  <2> HIDE DEF left
  <2>1. CASE allowed
    BY <1>2, <1>4, <2>1 DEF TBHint
  <2>2. CASE ~allowed
    <3>1. hint' # NoHint
      BY <1>2, <1>3, <2>2 DEF NoHint
    <3> QED BY <1>2, <1>4, <1>5, <2>2, <3>1 DEF TBHint
  <2> QED BY <2>1, <2>2
<1>7. allowance' = allowance + Limit * (lastDrain' - lastDrain)
                     - (IF paid THEN Water ELSE 0)
  BY <1>2, <1>4
<1> QED
  BY <1>2, <1>5, <1>6, <1>7, SameQuantities
  DEF TB!RunScript, TBHint, refilled

LEMMA SameInit == Init => TB!Init
BY SameQuantities, SameCalls, Quantities DEF Init, TB!Init, Tokens

LEMMA SameStep ==
  ASSUME IInv, [Next]_vars
  PROVE  [TB!Next]_TB!vars
<1> USE DEF Tokens
<1>1. ASSUME NEW c \in Calls, Send(c)
      PROVE  TB!Send(c)
  BY <1>1, SameCalls DEF Send, TB!Send, redis, TB!redis, measure, TB!measure
<1>2. ASSUME NEW c \in Calls, Execute(c)
      PROVE  TB!Execute(c)
  BY <1>2, SameCalls, SameScript, IInvCalls, Arrival
  DEF Execute, TB!Execute, IInv
<1>3. ASSUME NEW c \in Calls, Travel(c)
      PROVE  TB!Travel(c)
  BY <1>3, SameCalls DEF Travel, TB!Travel, redis, TB!redis, measure, TB!measure
<1>4. ASSUME Tick PROVE TB!Tick
  BY <1>4, SameCalls DEF Tick, TB!Tick, redis, TB!redis, measure, TB!measure
<1>5. ASSUME Restart PROVE TB!Restart
  BY <1>5, SameQuantities DEF Restart, TB!Restart
<1>6. ASSUME BeginMeasure PROVE TB!BeginMeasure
  BY <1>6, SameQuantities DEF BeginMeasure, TB!BeginMeasure, redis, TB!redis
<1>7. CASE UNCHANGED vars
  BY <1>7 DEF vars, TB!vars
<1> QED BY <1>1, <1>2, <1>3, <1>4, <1>5, <1>6, <1>7 DEF Next, TB!Next

\* The room in the bucket behaves as the tokens of a token bucket of the same
\* capacity and rate: what is proved of the one's admissions holds of the other's.
THEOREM Refinement == Spec => ImplementsTokenBucket
<1>1. IInv /\ [Next]_vars => [TB!Next]_TB!vars
  BY SameStep
<1> QED
  BY <1>1, SameInit, Invariance, PTL DEF Spec, TB!Spec, ImplementsTokenBucket

------------------------------------------------------------------------------
(***************************************************************************)
(* The theorems about the token bucket, read as theorems about this one.   *)
(***************************************************************************)

TBP == INSTANCE TokenBucketProofs WITH
        tokens <- Tokens, ts <- lastDrain,
        hint <- IF hint = NoHint THEN NoHint ELSE lastDrain + TicksToDrain(level)

\* TB and TBP are the same instance of the same specification.
LEMMA SameInstance ==
  /\ TB!Init <=> TBP!Init
  /\ [TB!Next]_TB!vars <=> [TBP!Next]_TBP!vars
  /\ TB!QuotaSurvives <=> TBP!QuotaSurvives
  /\ TB!AdmissionBound <=> TBP!AdmissionBound
BY DEF
    TB!Init, TB!Next, TB!Send, TB!Execute, TB!Travel, TB!Tick,
    TB!Restart, TB!BeginMeasure, TB!RunScript, TB!Refilled, TB!Live,
    TB!Full, TB!Price, TB!TTL, TB!Capacity, TB!NoHint, TB!AtMost,
    TB!TicksToEarn, TB!redis, TB!measure, TB!vars, TB!CallsInit,
    TB!Depart, TB!Arrive, TB!OnTheWay, TB!LoseRequest, TB!SendAgain,
    TB!ReturnUnavailable, TB!TimePasses, TB!Settled, TB!Free,
    TBP!Init, TBP!Next, TBP!Send, TBP!Execute, TBP!Travel, TBP!Tick,
    TBP!Restart, TBP!BeginMeasure, TBP!RunScript, TBP!Refilled,
    TBP!Live, TBP!Full, TBP!Price, TBP!TTL, TBP!Capacity, TBP!NoHint,
    TBP!AtMost, TBP!TicksToEarn, TBP!redis, TBP!measure, TBP!vars,
    TBP!CallsInit, TBP!Depart, TBP!Arrive, TBP!OnTheWay,
    TBP!LoseRequest, TBP!SendAgain, TBP!ReturnUnavailable,
    TBP!TimePasses, TBP!Settled, TBP!Free,
    TB!QuotaSurvives, TBP!QuotaSurvives,
    TB!AdmissionBound, TBP!AdmissionBound

LEMMA SameAssumptions == TBP!RedisCallsAssumption /\ TBP!TokenBucketAssumption
BY RedisCallsAssumption, LeakyBucketAssumption
DEF TBP!RedisCallsAssumption, TBP!TokenBucketAssumption

\* One global limit, carried over from the token bucket by the refinement.
THEOREM GlobalLimit ==
  ASSUME QuotaSurvives
  PROVE  Spec => []AdmissionBound
<1>1. TBP!IInv => AdmissionBound
  BY SameAssumptions, SameInstance, TBP!CoveredBounds
  DEF AdmissionBound, QuotaSurvives
<1>2. TBP!Spec => []TBP!IInv
  BY SameAssumptions, TBP!Invariance
<1>3. TB!Spec => []AdmissionBound
  BY <1>1, <1>2, SameInstance, PTL DEF TB!Spec, TBP!Spec
<1> QED BY <1>3, Refinement, PTL DEF ImplementsTokenBucket

==============================================================================
