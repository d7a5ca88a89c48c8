-------------------------- MODULE TokenBucketProofs --------------------------
(***************************************************************************)
(* Theorems about the Redis token bucket, for every number of concurrent   *)
(* calls, every quota and every bound on delay and clock skew.             *)
(***************************************************************************)
EXTENDS TokenBucket, RedisCallsProofs

\* ts is no further ahead of the write that stored it than a clock can be.
WriteInRange == exists => ts + TTL <= expiresAt + MaxSkew

\* What the bucket holds, or an absent one would hold, is covered by the
\* measurement.
Covered ==
  IF exists THEN tokens <= allowance + Limit * rewound
            ELSE Full <= allowance + Limit * rewound

IInv ==
  TypeOK /\ ReadingsInRange /\ WriteInRange /\ (QuotaSurvives => Covered)

------------------------------------------------------------------------------
(***************************************************************************)
(* Arithmetic.                                                             *)
(***************************************************************************)

LEMMA Quantities ==
  /\ Limit \in Nat \ {0} /\ Full \in Nat /\ Price \in Nat /\ TTL \in Nat
BY TokenBucketAssumption DEF Full, Capacity, Price, TTL

\* Earning over an interval that is split, shortened or empty.
LEMMA EarnMonotone ==
  ASSUME NEW a \in Int, NEW b \in Int, a <= b
  PROVE  Limit * a <= Limit * b
<1>1. Limit \in Nat /\ b - a \in Nat
  BY TokenBucketAssumption
<1>2. Limit * (b - a) >= 0
  BY <1>1
<1>3. Limit * (b - a) = Limit * b - Limit * a
  BY <1>1
<1> QED BY <1>1, <1>2, <1>3

LEMMA EarnSum ==
  ASSUME NEW a \in Int, NEW b \in Int
  PROVE  /\ Limit * (a + b) = Limit * a + Limit * b
         /\ Limit * (a - b) = Limit * a - Limit * b
BY TokenBucketAssumption

LEMMA EarnInt ==
  ASSUME NEW a \in Int
  PROVE  /\ Limit * a \in Int
         /\ a >= 0 => Limit * a >= 0
BY TokenBucketAssumption

------------------------------------------------------------------------------
(***************************************************************************)
(* token_bucket.lua                                                        *)
(***************************************************************************)

\* The refilled count is a count the bucket can hold.
LEMMA RefilledRange ==
  ASSUME TypeOK, NEW stamp \in Nat
  PROVE  Refilled(stamp) \in 0 .. Full
<1> DEFINE gap == IF stamp > ts THEN stamp - ts ELSE 0
<1>1. gap \in Nat
  BY DEF TypeOK
<1> HIDE DEF gap
<1>2. Limit * gap \in Int /\ Limit * gap >= 0
  BY <1>1, EarnInt
<1>3. AtMost(Full, tokens + Limit * gap) \in 0 .. Full
  BY <1>1, <1>2, Quantities DEF TypeOK, AtMost
<1> QED BY <1>3, Quantities DEF Refilled, gap

\* A live bucket earns at most Limit for each tick between the readings.
LEMMA RefilledBound ==
  ASSUME TypeOK, Live, NEW stamp \in Nat
  PROVE  Refilled(stamp) <= tokens + Limit * (IF stamp > ts THEN stamp - ts ELSE 0)
<1> DEFINE gap == IF stamp > ts THEN stamp - ts ELSE 0
<1>1. gap \in Int
  BY DEF TypeOK
<1>2. Refilled(stamp) = AtMost(Full, tokens + Limit * gap)
  BY DEF Refilled
<1> HIDE DEF gap
<1>3. Limit * gap \in Int
  BY <1>1, EarnInt
<1>4. Refilled(stamp) <= tokens + Limit * gap
  BY <1>2, <1>3, Quantities DEF AtMost, TypeOK
<1> QED BY <1>4 DEF gap

\* How a run of the script moves the measurement.
LEMMA ScriptAccount ==
  ASSUME TypeOK, NEW stamp \in Nat, RunScript(stamp)
  PROVE  LET gap == IF stamp > ts THEN stamp - ts ELSE 0
         IN  allowance' + Limit * rewound' + (Refilled(stamp) - tokens')
               = allowance + Limit * rewound + Limit * gap
<1> DEFINE allowed == Refilled(stamp) >= Price
           gap == IF stamp > ts THEN stamp - ts ELSE 0
           back == IF stamp < ts THEN ts - stamp ELSE 0
           paid == IF allowed THEN Price ELSE 0
<1>1. Refilled(stamp) - tokens' = paid
  BY RefilledRange, Quantities DEF RunScript
<1>2. allowance' = allowance + Limit * (stamp - ts) - paid
  BY DEF RunScript
<1>3. rewound' = rewound + back
  BY DEF RunScript, TypeOK
<1>4. gap \in Nat /\ back \in Nat /\ stamp - ts = gap - back /\ paid \in Nat
  BY Quantities DEF TypeOK
<1> HIDE DEF gap, back, paid, allowed
<1>5. /\ gap \in Int /\ back \in Int /\ rewound \in Int
      /\ Limit * gap \in Int /\ Limit * back \in Int /\ Limit * rewound \in Int
  BY <1>4, EarnInt DEF TypeOK
<1>6. Limit * (stamp - ts) = Limit * gap - Limit * back
  BY <1>4, <1>5, EarnSum
<1>7. Limit * rewound' = Limit * rewound + Limit * back
  BY <1>3, <1>5, EarnSum
<1>8. allowance' + Limit * rewound' + paid
        = allowance + Limit * rewound + Limit * gap
  BY <1>2, <1>4, <1>5, <1>6, <1>7 DEF TypeOK
<1> QED BY <1>1, <1>8 DEF gap

LEMMA ScriptType ==
  ASSUME TypeOK, NEW stamp \in Nat, RunScript(stamp)
  PROVE  /\ exists' = TRUE
         /\ tokens' \in 0 .. Full
         /\ ts' = stamp
         /\ expiresAt' = now + TTL
         /\ hint' \in Int
         /\ restarts' = restarts
         /\ allowance' \in Int
         /\ rewound' \in Nat
<1> DEFINE refilled == Refilled(stamp)
           allowed == refilled >= Price
           left == IF allowed THEN refilled - Price ELSE refilled
<1>1. refilled \in 0 .. Full
  BY RefilledRange
<1>2. left \in 0 .. Full
  BY <1>1, Quantities
<1>3. TicksToEarn(Full - left) \in Int
  BY <1>2, Quantities DEF TicksToEarn
<1>4. Limit * (stamp - ts) \in Int
  BY EarnInt DEF TypeOK
<1>5. /\ exists' = TRUE
      /\ tokens' = left
      /\ ts' = stamp
      /\ expiresAt' = now + TTL
      /\ hint' = IF allowed THEN NoHint ELSE stamp + TicksToEarn(Full - left)
      /\ allowance' = allowance + Limit * (stamp - ts) - (IF allowed THEN Price ELSE 0)
      /\ rewound' = IF stamp < ts THEN rewound + (ts - stamp) ELSE rewound
      /\ restarts' = restarts
  BY DEF RunScript
<1> HIDE DEF left, allowed, refilled
<1> QED
  BY <1>2, <1>3, <1>4, <1>5, Quantities DEF TypeOK, NoHint

\* A run of the script keeps the bucket covered, even the first one after the
\* hash expired.
LEMMA ScriptCovered ==
  ASSUME QuotaSurvives, IInv, NEW c \in Calls, Arrive(c),
         RunScript(call[c].stamp)
  PROVE  Covered'
<1> DEFINE stamp == call[c].stamp
           gap == IF stamp > ts THEN stamp - ts ELSE 0
<1>1. stamp \in Nat /\ TypeOK /\ now \in Nat /\ now <= stamp + MaxDelay
  BY Arrival DEF IInv, CallsInv, TypeOK
<1>2. /\ gap \in Nat /\ Limit * gap \in Int /\ Limit * rewound \in Int
      /\ Limit * rewound' \in Int /\ allowance' \in Int /\ tokens' \in Int
      /\ exists'
  <2>1. /\ exists' = TRUE
        /\ tokens' \in 0 .. Full
        /\ allowance' \in Int
        /\ rewound' \in Nat
    BY <1>1, ScriptType
  <2>2. gap \in Nat /\ rewound \in Nat
    BY <1>1 DEF TypeOK
  <2> HIDE DEF gap
  <2> QED BY <2>1, <2>2, EarnInt, Quantities
<1>3. allowance' + Limit * rewound' + (Refilled(stamp) - tokens')
        = allowance + Limit * rewound + Limit * gap
  BY <1>1, ScriptAccount
<1>4. Limit * gap >= 0
  <2> HIDE DEF gap
  <2> QED BY <1>2, EarnInt
<1>5. Refilled(stamp) <= allowance + Limit * rewound + Limit * gap
  <2>1. CASE Live
    <3>1. Refilled(stamp) <= tokens + Limit * gap
      BY <1>1, <2>1, RefilledBound
    <3>2. tokens <= allowance + Limit * rewound
      BY <2>1 DEF IInv, Covered, Live
    <3> HIDE DEF gap
    <3> QED BY <1>1, <1>2, <3>1, <3>2, RefilledRange DEF TypeOK
  <2>2. CASE ~exists
    <3>1. Refilled(stamp) = Full /\ Full <= allowance + Limit * rewound
      BY <2>2 DEF IInv, Covered, Live, Refilled
    <3> HIDE DEF gap
    <3> QED BY <1>1, <1>2, <1>4, <3>1, Quantities DEF TypeOK
  <2>3. CASE exists /\ now > expiresAt
    <3>1. Refilled(stamp) = Full
      BY <1>1, <2>3 DEF Live, Refilled, TypeOK
    <3>2. 0 <= allowance + Limit * rewound
      BY <1>1, <1>2, <2>3 DEF IInv, Covered, TypeOK
    <3>3. ts + TTL < now + MaxSkew
      BY <1>1, <2>3, Quantities, RedisCallsAssumption
      DEF IInv, WriteInRange, TypeOK
    <3>4. TTL - (MaxDelay + MaxSkew) <= gap
      BY <1>1, <3>3, Quantities, RedisCallsAssumption DEF TypeOK
    <3> HIDE DEF gap, stamp
    <3>5. Limit * (TTL - (MaxDelay + MaxSkew)) <= Limit * gap
      BY <1>2, <3>4, EarnMonotone, Quantities, RedisCallsAssumption
    <3>6. Full <= Limit * (TTL - (MaxDelay + MaxSkew))
      <4>1. /\ TTL \in Int /\ Full \in Int
            /\ MaxDelay + MaxSkew \in Int
        BY Quantities, RedisCallsAssumption
      <4>2. Limit * (TTL - (MaxDelay + MaxSkew))
              = Limit * TTL - Limit * (MaxDelay + MaxSkew)
        BY <4>1, EarnSum
      <4>3. Limit * TTL \in Int /\ Limit * (MaxDelay + MaxSkew) \in Int
        BY <4>1, EarnInt
      <4> QED BY <4>1, <4>2, <4>3 DEF QuotaSurvives
    <3>7. Limit * (TTL - (MaxDelay + MaxSkew)) \in Int
      BY EarnInt, Quantities, RedisCallsAssumption
    <3> QED
      BY <1>1, <1>2, <3>1, <3>2, <3>5, <3>6, <3>7, Quantities DEF TypeOK
  <2> QED BY <1>1, <2>1, <2>2, <2>3 DEF Live, TypeOK
<1>6. Refilled(stamp) \in Int
  BY <1>1, RefilledRange
<1> HIDE DEF gap
<1>7. tokens' <= allowance' + Limit * rewound'
  BY <1>1, <1>2, <1>3, <1>5, <1>6 DEF TypeOK
<1> QED BY <1>2, <1>7 DEF Covered

------------------------------------------------------------------------------
(***************************************************************************)
(* Every step keeps the invariant.                                         *)
(***************************************************************************)

LEMMA NoHintInt == NoHint \in Int
BY DEF NoHint

LEMMA IInvCalls == IInv => CallsInv
BY DEF IInv, TypeOK, CallsInv

\* A step that only concerns calls on their way.
LEMMA QuietStep ==
  ASSUME IInv, UNCHANGED <<redis, hint, restarts, measure>>, CallsInv'
  PROVE  IInv'
<1>1. TypeOK'
  BY DEF IInv, CallsInv, TypeOK, redis, measure
<1>2. WriteInRange' /\ (QuotaSurvives => Covered')
  BY DEF IInv, WriteInRange, Covered, redis, measure
<1> QED BY <1>1, <1>2 DEF IInv, CallsInv

LEMMA ExecuteIInv ==
  ASSUME IInv, NEW c \in Calls, Execute(c)
  PROVE  IInv'
<1> DEFINE stamp == call[c].stamp
<1>1. /\ Arrive(c) /\ RunScript(stamp) /\ CallsInv /\ TypeOK
      /\ stamp \in Nat /\ now \in Nat /\ now' = now
      /\ stamp <= now + MaxSkew
  <2>1. Arrive(c) /\ RunScript(stamp) /\ CallsInv /\ TypeOK
    BY IInvCalls DEF Execute, IInv
  <2> QED BY <2>1, Arrival
<1>2. CallsInv'
  BY <1>1, ArriveOK
<1>3. /\ exists' = TRUE
      /\ tokens' \in 0 .. Full
      /\ ts' = stamp
      /\ expiresAt' = now + TTL
      /\ hint' \in Int
      /\ restarts' = restarts
      /\ allowance' \in Int
      /\ rewound' \in Nat
  BY <1>1, ScriptType
<1>4. TypeOK'
  BY <1>1, <1>2, <1>3, Quantities DEF TypeOK, CallsInv
<1>5. WriteInRange'
  BY <1>1, <1>3, Quantities, RedisCallsAssumption DEF WriteInRange
<1>6. QuotaSurvives => Covered'
  BY <1>1, ScriptCovered
<1> QED BY <1>2, <1>4, <1>5, <1>6 DEF IInv, CallsInv

LEMMA RestartIInv ==
  ASSUME IInv, Restart
  PROVE  IInv'
<1>1. TypeOK'
  <2>1. restarts' \in 0 .. MaxRestarts
    BY TokenBucketAssumption DEF IInv, TypeOK, Restart
  <2>2. allowance' \in Int /\ tokens' \in 0 .. Full
    BY Quantities DEF IInv, TypeOK, Restart
  <2>3. hint' \in Int
    BY DEF Restart, NoHint
  <2>4. exists' \in BOOLEAN
    BY DEF Restart
  <2>5. CallsTypeOK'
    BY DEF IInv, TypeOK, CallsTypeOK, Restart
  <2> QED BY <2>1, <2>2, <2>3, <2>4, <2>5 DEF IInv, TypeOK, Restart
<1>2. ReadingsInRange' /\ WriteInRange'
  BY DEF IInv, ReadingsInRange, WriteInRange, Restart
<1>3. ASSUME QuotaSurvives PROVE Covered'
  <2>1. tokens <= allowance + Limit * rewound
    BY <1>3 DEF IInv, Covered, Restart
  <2>2. /\ Limit * rewound \in Int /\ tokens \in Nat /\ allowance \in Int
    BY EarnInt, Quantities DEF IInv, TypeOK
  <2>3. ~exists' /\ allowance' = allowance + Full /\ rewound' = rewound
    BY DEF Restart
  <2> QED BY <2>1, <2>2, <2>3, Quantities DEF Covered
<1> QED BY <1>1, <1>2, <1>3 DEF IInv

LEMMA BeginMeasureIInv ==
  ASSUME IInv, BeginMeasure
  PROVE  IInv'
<1>1. TypeOK'
  BY Quantities DEF IInv, TypeOK, CallsTypeOK, BeginMeasure, redis
<1>2. ReadingsInRange' /\ WriteInRange'
  BY DEF IInv, ReadingsInRange, WriteInRange, BeginMeasure, redis
<1>3. Covered'
  <2>1. /\ exists' /\ tokens' = tokens /\ allowance' = Full /\ rewound' = 0
        /\ tokens \in 0 .. Full
    BY DEF BeginMeasure, Live, redis, IInv, TypeOK
  <2>2. Limit * 0 = 0
    BY TokenBucketAssumption
  <2> QED BY <2>1, <2>2, Quantities DEF Covered
<1> QED BY <1>1, <1>2, <1>3 DEF IInv

LEMMA NextIInv ==
  ASSUME IInv, [Next]_vars
  PROVE  IInv'
<1>1. CASE UNCHANGED vars
  <2>1. CallsInv'
    BY <1>1, IInvCalls, CallsKept DEF vars, callVars
  <2> QED BY <1>1, <2>1, QuietStep DEF vars, redis, measure
<1>2. ASSUME NEW c \in Calls, Send(c)
      PROVE  IInv'
  BY <1>2, IInvCalls, DepartOK, QuietStep DEF Send
<1>3. ASSUME NEW c \in Calls, Travel(c)
      PROVE  IInv'
  BY <1>3, IInvCalls, OnTheWayOK, QuietStep DEF Travel
<1>4. CASE Tick
  BY <1>4, IInvCalls, TimePassesOK, QuietStep DEF Tick
<1> QED
  BY <1>1, <1>2, <1>3, <1>4, ExecuteIInv, RestartIInv, BeginMeasureIInv
  DEF Next

LEMMA InitIInv == Init => IInv
<1> SUFFICES ASSUME Init PROVE IInv
  OBVIOUS
<1>1. CallsInv
  BY CallsInitOK DEF Init
<1>2. TypeOK
  <2>1. /\ tokens \in 0 .. Full /\ allowance \in Int /\ hint \in Int
        /\ restarts \in 0 .. MaxRestarts
    BY Quantities, TokenBucketAssumption DEF Init, NoHint
  <2> QED BY <1>1, <2>1 DEF Init, TypeOK, CallsInv
<1>3. WriteInRange
  BY DEF Init, WriteInRange
<1>4. Covered
  <2>1. Limit * 0 = 0
    BY TokenBucketAssumption
  <2> QED BY <2>1, Quantities DEF Init, Covered
<1> QED BY <1>1, <1>2, <1>3, <1>4 DEF IInv, CallsInv

LEMMA Invariance == Spec => []IInv
<1>1. IInv /\ [Next]_vars => IInv'
  BY NextIInv
<1> QED BY <1>1, InitIInv, PTL DEF Spec

------------------------------------------------------------------------------
\* The bucket is never overdrawn and never above its capacity, whatever order
\* the scripts run in.
THEOREM TypeCorrect == Spec => []TypeOK
<1>1. IInv => TypeOK
  BY DEF IInv
<1> QED BY <1>1, Invariance, PTL

\* What is covered is bounded.
LEMMA CoveredBounds == IInv /\ QuotaSurvives => AdmissionBound
<1> SUFFICES ASSUME IInv, QuotaSurvives PROVE AdmissionBound
  OBVIOUS
<1>1. Limit * rewound \in Int /\ allowance \in Int /\ tokens \in Nat
  BY EarnInt, Quantities DEF IInv, TypeOK
<1> QED BY <1>1, Quantities DEF IInv, Covered, AdmissionBound

\* One global limit: whatever the number of replicas, whatever is lost, sent
\* again, late or out of order, no more is deducted between two decisions than
\* the bucket and the time between them justify, plus the time that is earned
\* twice because ts moved back.
THEOREM GlobalLimit ==
  ASSUME QuotaSurvives
  PROVE  Spec => []AdmissionBound
<1>1. IInv => AdmissionBound
  BY CoveredBounds
<1> QED BY <1>1, Invariance, PTL

------------------------------------------------------------------------------
(***************************************************************************)
(* How far ts can move back.                                               *)
(***************************************************************************)

\* The reading Redis holds is no further ahead of time than a clock can be.
TsInRange == ts <= now + MaxSkew

LEMMA TsInRangeStep ==
  ASSUME IInv, TsInRange, [Next]_vars
  PROVE  TsInRange'
<1>1. now \in Nat /\ ts \in Nat /\ MaxSkew \in Nat
  BY RedisCallsAssumption DEF IInv, TypeOK, CallsTypeOK
<1>2. ASSUME NEW c \in Calls, Execute(c)
      PROVE  TsInRange'
  <2>1. Arrive(c) /\ ts' = call[c].stamp
    BY <1>2 DEF Execute, RunScript
  <2>2. now' = now /\ call[c].stamp <= now + MaxSkew
    BY <2>1, IInvCalls, Arrival
  <2> QED BY <2>1, <2>2 DEF TsInRange
<1>3. ASSUME UNCHANGED <<now, ts>>
      PROVE  TsInRange'
  BY <1>3 DEF TsInRange
<1>4. CASE Tick
  BY <1>1, <1>4 DEF Tick, TimePasses, redis, TsInRange
<1>5. CASE BeginMeasure \/ Restart
  BY <1>3, <1>5 DEF BeginMeasure, Restart, redis
<1>6. CASE \E c \in Calls : Send(c) \/ Travel(c)
  BY <1>3, <1>6
  DEF Send, Depart, Travel, OnTheWay, LoseRequest, SendAgain,
      ReturnUnavailable, redis
<1>7. CASE UNCHANGED vars
  BY <1>3, <1>7 DEF vars
<1> QED BY <1>2, <1>4, <1>5, <1>6, <1>7 DEF Next

\* One script earns again no more than delay and skew together, whatever was lost,
\* sent again or given up.
THEOREM EarnedTwiceIsBounded == Spec => EarnedTwiceBounded
<1>1. Init => TsInRange
  BY RedisCallsAssumption DEF Init, CallsInit, TsInRange
<1>2. IInv /\ TsInRange /\ [Next]_vars => TsInRange'
  BY TsInRangeStep
<1>3. Spec => []TsInRange
  BY <1>1, <1>2, Invariance, PTL DEF Spec
<1>4. IInv /\ TsInRange /\ [Next]_vars
        => [rewound' <= rewound + MaxDelay + MaxSkew]_vars
  <2> SUFFICES ASSUME IInv, TsInRange, Next
               PROVE  rewound' <= rewound + MaxDelay + MaxSkew
    OBVIOUS
  <2>1. /\ now \in Nat /\ ts \in Nat /\ rewound \in Nat
        /\ MaxSkew \in Nat /\ MaxDelay \in Nat
    BY RedisCallsAssumption DEF IInv, TypeOK, CallsTypeOK
  <2>2. ASSUME NEW c \in Calls, Execute(c)
        PROVE  rewound' <= rewound + MaxDelay + MaxSkew
    <3> DEFINE stamp == call[c].stamp
    <3>1. Arrive(c) /\ RunScript(stamp)
      BY <2>2 DEF Execute
    <3>2. stamp \in Nat /\ now <= stamp + MaxDelay
      BY <3>1, IInvCalls, Arrival
    <3>3. rewound' = IF stamp < ts THEN rewound + (ts - stamp) ELSE rewound
      BY <3>1 DEF RunScript
    <3> HIDE DEF stamp
    <3> QED BY <2>1, <3>2, <3>3 DEF TsInRange
  <2>3. ASSUME UNCHANGED rewound
        PROVE  rewound' <= rewound + MaxDelay + MaxSkew
    BY <2>1, <2>3
  <2>4. CASE BeginMeasure
    BY <2>1, <2>4 DEF BeginMeasure
  <2> QED
    BY <2>2, <2>3, <2>4 DEF Next, Send, Travel, Tick, Restart, measure
<1> QED BY <1>3, <1>4, Invariance, PTL DEF Spec, EarnedTwiceBounded

------------------------------------------------------------------------------
(***************************************************************************)
(* Retry-After.                                                            *)
(***************************************************************************)

\* The wait a denied caller is told is long enough to fill the bucket.
LEMMA WaitFills ==
  ASSUME NEW units \in Nat
  PROVE  /\ TicksToEarn(units) \in Nat
         /\ units <= Limit * TicksToEarn(units)
<1>1. Limit \in Nat /\ Limit > 0 /\ units + Limit - 1 \in Nat
  BY TokenBucketAssumption
<1> DEFINE total == units + Limit - 1
           wait == total \div Limit
<1>2. /\ wait \in Nat
      /\ total = Limit * wait + (total % Limit)
      /\ total % Limit \in 0 .. Limit - 1
  BY <1>1
<1>3. Limit * wait \in Nat
  BY <1>1, <1>2
<1>4. units <= Limit * wait
  BY <1>1, <1>2, <1>3
<1> QED BY <1>2, <1>4 DEF TicksToEarn

\* As long as the caller's hint is the last word, it is the time at which the
\* bucket Redis holds will have filled.
HintIsFillTime == hint # NoHint => hint = ts + TicksToEarn(Full - tokens)

LEMMA HintStep ==
  ASSUME IInv, HintIsFillTime, [Next]_vars
  PROVE  HintIsFillTime'
<1>1. ASSUME NEW c \in Calls, Execute(c)
      PROVE  HintIsFillTime'
  BY <1>1 DEF Execute, RunScript, HintIsFillTime
<1>2. ASSUME UNCHANGED <<hint, ts, tokens>>
      PROVE  HintIsFillTime'
  BY <1>2 DEF HintIsFillTime
<1>3. CASE Tick \/ BeginMeasure
  BY <1>2, <1>3 DEF Tick, BeginMeasure, redis
<1>4. CASE Restart
  BY <1>4 DEF Restart, HintIsFillTime
<1>5. CASE \E c \in Calls : Send(c) \/ Travel(c)
  BY <1>2, <1>5 DEF Send, Travel, redis
<1>6. CASE UNCHANGED vars
  BY <1>2, <1>6 DEF vars
<1> QED BY <1>1, <1>3, <1>4, <1>5, <1>6 DEF Next

\* A reading no earlier than the hint finds the bucket full.
LEMMA FullAtHint ==
  ASSUME IInv, HintIsFillTime, hint # NoHint,
         NEW stamp \in Nat, stamp >= hint
  PROVE  Refilled(stamp) = Full
<1> DEFINE units == Full - tokens
<1>1. /\ tokens \in 0 .. Full /\ ts \in Nat /\ units \in Nat
      /\ hint = ts + TicksToEarn(units)
  BY Quantities DEF IInv, TypeOK, HintIsFillTime
<1>2. TicksToEarn(units) \in Nat /\ units <= Limit * TicksToEarn(units)
  <2> HIDE DEF units
  <2> QED BY <1>1, WaitFills
<1> DEFINE gap == IF stamp > ts THEN stamp - ts ELSE 0
<1>3. gap \in Nat /\ TicksToEarn(units) <= gap
  <2> HIDE DEF units
  <2> QED BY <1>1, <1>2
<1> HIDE DEF gap
<1>4. Limit * TicksToEarn(units) <= Limit * gap
  <2> HIDE DEF units
  <2> QED BY <1>2, <1>3, EarnMonotone
<1>5. Limit * TicksToEarn(units) \in Int /\ Limit * gap \in Int
  <2> HIDE DEF units
  <2> QED BY <1>2, <1>3, EarnInt
<1>6. AtMost(Full, tokens + Limit * gap) = Full
  BY <1>1, <1>2, <1>4, <1>5, Quantities DEF AtMost
<1> QED BY <1>6 DEF Refilled, gap

LEMMA PriceFits ==
  ASSUME Cost <= Capacity
  PROVE  Price <= Full
<1>1. Capacity \in Nat /\ Cost \in Nat /\ Window \in Nat
  BY TokenBucketAssumption DEF Capacity
<1>2. (Capacity - Cost) * Window >= 0
  BY <1>1
<1>3. (Capacity - Cost) * Window = Capacity * Window - Cost * Window
  BY <1>1
<1> QED BY <1>1, <1>2, <1>3 DEF Price, Full

\* Retry-After is long enough whenever the bucket can hold the cost of a call:
\* whatever became of the other requests, a caller who was denied and comes back
\* no earlier is admitted if his is the next script to run.
THEOREM RetryAfterIsEnough ==
  ASSUME Cost <= Capacity
  PROVE  Spec => RetryAfterSuffices
<1>1. Init => HintIsFillTime
  BY DEF Init, HintIsFillTime
<1>2. IInv /\ HintIsFillTime /\ [Next]_vars => HintIsFillTime'
  BY HintStep
<1>3. Spec => []HintIsFillTime
  BY <1>1, <1>2, Invariance, PTL DEF Spec
<1>4. IInv /\ HintIsFillTime
        => \A c \in Calls :
             Execute(c) /\ hint # NoHint /\ call[c].stamp >= hint
               => hint' = NoHint
  <2> SUFFICES ASSUME IInv, HintIsFillTime, NEW c \in Calls, Execute(c),
                      hint # NoHint, call[c].stamp >= hint
               PROVE  hint' = NoHint
    OBVIOUS
  <2>1. call[c].stamp \in Nat
    BY IInvCalls, Arrival DEF Execute
  <2>2. Refilled(call[c].stamp) >= Price
    BY <2>1, FullAtHint, PriceFits, Quantities
  <2> QED BY <2>2 DEF Execute, RunScript
<1>5. IInv /\ HintIsFillTime /\ [Next]_vars
        => [\A c \in Calls :
              Execute(c) /\ hint # NoHint /\ call[c].stamp >= hint
                => hint' = NoHint]_vars
  BY <1>4
<1> QED BY <1>3, <1>5, Invariance, PTL DEF Spec, RetryAfterSuffices

==============================================================================
