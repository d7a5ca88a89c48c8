----------------------------- MODULE TokenBucket -----------------------------
(***************************************************************************)
(* The Redis-backed token bucket for one key: TokenBucket.Allow            *)
(* (limiter/distributed/tokenbucket.go) and lua/token_bucket.lua, with the *)
(* calls of module RedisCalls.                                             *)
(*                                                                         *)
(* Keys are independent, and all calls for a key have the same cost and    *)
(* limits (the key is made of identity, method, route, algorithm and tier).*)
(* Token counts are exact: a token is Window units, so a tick earns Limit  *)
(* of them.                                                                *)
(***************************************************************************)
EXTENDS RedisCalls

CONSTANTS
  Limit,      \* limiter.Spec.Limit
  Window,     \* limiter.Spec.Window, in ticks
  Burst,      \* limiter.Spec.Burst, 0 for none
  Cost,       \* config.RouteConfig.Cost
  MaxRestarts,\* bound: restarts of Redis
  MaxRewound  \* bound: calls are sent while rewound does not exceed it

ASSUME TokenBucketAssumption ==
  /\ Limit \in Nat \ {0}
  /\ Window \in Nat \ {0}
  /\ Burst \in Nat
  /\ Cost \in Nat \ {0}
  /\ MaxRestarts \in Nat
  /\ MaxRewound \in Nat

VARIABLES
  exists,     \* whether Redis holds the hash
  tokens,     \* its field 'tokens', in units
  ts,         \* its field 'ts'; the last one written if there is no hash
  expiresAt,  \* when PEXPIRE lets the hash go
  hint,       \* history: when the last denied caller was told to come back
  restarts,   \* the environment: restarts of Redis so far
  allowance,  \* history: units that may still be deducted, see BeginMeasure
  rewound     \* history: ticks by which ts has been moved back meanwhile

redis == <<exists, tokens, ts, expiresAt>>
measure == <<allowance, rewound>>
vars == <<now, call, exists, tokens, ts, expiresAt, hint, restarts, allowance,
          rewound>>

NoHint == -1

\* limiter.Spec.Capacity, in tokens and in units.
Capacity == IF Burst > 0 THEN Burst ELSE Limit
Full == Capacity * Window

Price == Cost * Window

\* "TTL is 2x window so the key survives a full quiet period"
TTL == 2 * Window

AtMost(a, b) == IF a <= b THEN a ELSE b

(***************************************************************************)
(* Operators whose name carries an underscore are plausible mistakes in    *)
(* the definition that follows them.  No specification uses them: a run    *)
(* with the mistake in place shows that the properties would notice it.    *)
(***************************************************************************)

\* Rounded down.
TicksToEarn_RoundedDown(units) == units \div Limit

\* Ticks needed to earn the given units, rounded up.
TicksToEarn(units) == (units + Limit - 1) \div Limit

Init ==
  /\ CallsInit
  /\ exists = FALSE
  /\ tokens = Full
  /\ ts = 0
  /\ expiresAt = 0
  /\ hint = NoHint
  /\ restarts = 0
  /\ allowance = Full
  /\ rewound = 0

------------------------------------------------------------------------------
(***************************************************************************)
(* token_bucket.lua                                                        *)
(***************************************************************************)

\* The hash has not expired.
Live == exists /\ now <= expiresAt

\* Without math.max(0, ...): an older reading takes tokens away.
Refilled_NegativeElapsed(stamp) ==
  IF ~Live THEN Full ELSE AtMost(Full, tokens + Limit * (stamp - ts))

\* tokens after the lazy refill at the given reading; an absent hash is full,
\* and a reading before ts earns nothing.
Refilled(stamp) ==
  IF ~Live
    THEN Full
    ELSE AtMost(Full, tokens + Limit * (IF stamp > ts THEN stamp - ts ELSE 0))

\* A denial stores the refilled tokens but not the reading they go up to.
RunScript_DenialKeepsTs(stamp) ==
  LET refilled == Refilled(stamp)
      allowed  == refilled >= Price
      left     == IF allowed THEN refilled - Price ELSE refilled
  IN  /\ exists' = TRUE
      /\ tokens' = left
      /\ ts' = IF allowed THEN stamp ELSE ts
      /\ expiresAt' = now + TTL
      /\ hint' = IF allowed THEN NoHint ELSE stamp + TicksToEarn(Full - left)
      /\ allowance' = allowance + Limit * (ts' - ts) - (IF allowed THEN Price ELSE 0)
      /\ rewound' = IF stamp < ts THEN rewound + (ts - stamp) ELSE rewound
      /\ UNCHANGED restarts

\* One run of the script: refill, deduct if there is enough, write tokens and
\* ts in either case, set the TTL.
RunScript(stamp) ==
  LET refilled == Refilled(stamp)
      allowed  == refilled >= Price
      left     == IF allowed THEN refilled - Price ELSE refilled
  IN  /\ exists' = TRUE
      /\ tokens' = left
      /\ ts' = stamp
      /\ expiresAt' = now + TTL
      /\ hint' = IF allowed THEN NoHint ELSE stamp + TicksToEarn(Full - left)
      /\ allowance' = allowance + Limit * (ts' - ts) - (IF allowed THEN Price ELSE 0)
      /\ rewound' = IF stamp < ts THEN rewound + (ts - stamp) ELSE rewound
      /\ UNCHANGED restarts

------------------------------------------------------------------------------
(***************************************************************************)
(* Calls, the environment, and the observer who measures admissions.       *)
(***************************************************************************)

Send(c) ==
  /\ rewound <= MaxRewound
  /\ Depart(c)
  /\ UNCHANGED <<redis, hint, restarts, measure>>

\* Redis runs the script of a request that arrived.
Execute(c) ==
  /\ Arrive(c)
  /\ RunScript(call[c].stamp)

Travel(c) ==
  /\ OnTheWay(c)
  /\ UNCHANGED <<redis, hint, restarts, measure>>

Tick ==
  /\ TimePasses
  /\ UNCHANGED <<redis, hint, restarts, measure>>

\* Redis restarts without persistence (deployments/docker-compose.yaml).
Restart ==
  /\ exists
  /\ restarts < MaxRestarts
  /\ restarts' = restarts + 1
  /\ exists' = FALSE
  /\ hint' = NoHint
  /\ allowance' = allowance + Full
  /\ UNCHANGED <<now, call, tokens, ts, expiresAt, rewound>>

(***************************************************************************)
(* The promise of a token bucket is about any two decisions: between them  *)
(* at most a full bucket, plus what the time between their readings earns, *)
(* is deducted.  A measurement may begin after any decision: from then on  *)
(* allowance is Full + Limit * (ts - its value then) minus what has been   *)
(* deducted, plus a full bucket for every restart.                         *)
(***************************************************************************)
BeginMeasure ==
  /\ Live
  /\ allowance' = Full
  /\ rewound' = 0
  /\ UNCHANGED <<now, call, redis, hint, restarts>>

Next ==
  \/ \E c \in Calls : Send(c)
  \/ \E c \in Calls : Execute(c)
  \/ \E c \in Calls : Travel(c)
  \/ Tick
  \/ Restart
  \/ BeginMeasure

Spec == Init /\ [][Next]_vars

------------------------------------------------------------------------------
(***************************************************************************)
(* Properties.                                                             *)
(***************************************************************************)

\* The values Redis and the calls can hold: the bucket is never overdrawn and
\* never above its capacity, whatever order scripts arrive in.
TypeOK ==
  /\ CallsTypeOK
  /\ exists \in BOOLEAN
  /\ tokens \in 0 .. Full
  /\ ts \in Nat
  /\ expiresAt \in Nat
  /\ hint \in Int
  /\ restarts \in 0 .. MaxRestarts
  /\ allowance \in Int
  /\ rewound \in Nat

\* The configuration under which expiry is harmless: by the time the hash can
\* have expired, any reading that finds it gone is late enough for the bucket
\* to have filled anyway.
QuotaSurvives == Full + Limit * (MaxDelay + MaxSkew) <= Limit * TTL

\* One global limit: between two decisions all replicas together deduct no more
\* than a full bucket, what the time between them earns and what restarts
\* forgot; the one thing that can add to it is time earned twice, when a script
\* with an older reading moves ts back.
AdmissionBound == allowance + Limit * rewound >= 0

\* A script moves ts back by no more than delay and skew together, and so earns no
\* more than that time again, however many requests were sent again or given up.
EarnedTwiceBounded == [][rewound' <= rewound + MaxDelay + MaxSkew]_vars

\* A denied caller who comes back after RetryAfter is admitted if nobody else
\* called in between.
RetryAfterSuffices ==
  [][\A c \in Calls :
       Execute(c) /\ hint # NoHint /\ call[c].stamp >= hint => hint' = NoHint]_vars

==============================================================================
