----------------------------- MODULE LeakyBucket ------------------------------
(***************************************************************************)
(* The Redis-backed leaky bucket for one key: LeakyBucket.Allow            *)
(* (limiter/distributed/leakybucket.go) and lua/leaky_bucket.lua, with the *)
(* calls of module RedisCalls.  All calls for a key have the same cost and *)
(* limits.  Water is counted exactly: a unit of the code is Window units   *)
(* here, so a tick drains Limit of them.                                   *)
(*                                                                         *)
(* The bucket is the token bucket upside down: see Tokens below.           *)
(***************************************************************************)
EXTENDS RedisCalls

CONSTANTS
  Limit,      \* limiter.Spec.Limit
  Window,     \* limiter.Spec.Window, in ticks
  Burst,      \* limiter.Spec.Burst, 0 for none
  Cost,       \* config.RouteConfig.Cost
  MaxRestarts,\* bound: restarts of Redis
  MaxRewound  \* bound: calls are sent while rewound does not exceed it

ASSUME LeakyBucketAssumption ==
  /\ Limit \in Nat \ {0}
  /\ Window \in Nat \ {0}
  /\ Burst \in Nat
  /\ Cost \in Nat \ {0}
  /\ MaxRestarts \in Nat
  /\ MaxRewound \in Nat

VARIABLES
  exists,     \* whether Redis holds the hash
  level,      \* its field 'level', in units
  lastDrain,  \* its field 'last_drain_ms'; the last one if there is no hash
  expiresAt,  \* when PEXPIRE lets the hash go
  hint,       \* history: when the last denied caller was told to come back
  restarts,   \* the environment: restarts of Redis so far
  allowance,  \* history: units that may still be added, see TokenBucket
  rewound     \* history: ticks by which lastDrain was moved back meanwhile

redis == <<exists, level, lastDrain, expiresAt>>
measure == <<allowance, rewound>>
vars == <<now, call, exists, level, lastDrain, expiresAt, hint, restarts,
          allowance, rewound>>

NoHint == -1

\* limiter.Spec.Capacity, in requests and in units.
Capacity == IF Burst > 0 THEN Burst ELSE Limit
Full == Capacity * Window

\* What a call adds, in units.
Water == Cost * Window

\* "ttlMs"
TTL == 2 * Window

\* Rounded down.
TicksToDrain_RoundedDown(units) == units \div Limit

\* Ticks after which the given units have drained, rounded up.
TicksToDrain(units) == (units + Limit - 1) \div Limit

Init ==
  /\ CallsInit
  /\ exists = FALSE
  /\ level = 0
  /\ lastDrain = 0
  /\ expiresAt = 0
  /\ hint = NoHint
  /\ restarts = 0
  /\ allowance = Full
  /\ rewound = 0

------------------------------------------------------------------------------
(***************************************************************************)
(* leaky_bucket.lua                                                        *)
(***************************************************************************)

\* The hash has not expired.
Live == exists /\ now <= expiresAt

\* Without math.max(0, ...) around the time since the last drain.
Drained_NegativeElapsed(stamp) ==
  LET drained == Limit * (stamp - lastDrain)
  IN  IF ~Live \/ drained >= level THEN 0 ELSE level - drained

\* The level after the bucket drained up to the given reading; an absent hash is
\* an empty bucket, and a reading before the last one drains nothing.
Drained(stamp) ==
  LET drained == Limit * (IF stamp > lastDrain THEN stamp - lastDrain ELSE 0)
  IN  IF ~Live \/ drained >= level THEN 0 ELSE level - drained

\* A denial stores the level but not the reading it goes up to.
RunScript_DenialStoresLevelOnly(stamp) ==
  LET drained == Drained(stamp)
      allowed == drained + Water <= Full
      filled  == IF allowed THEN drained + Water ELSE drained
  IN  /\ exists' = TRUE
      /\ level' = filled
      /\ lastDrain' = IF allowed THEN stamp ELSE lastDrain
      /\ expiresAt' = now + TTL
      /\ hint' = IF allowed THEN NoHint
                 ELSE stamp + TicksToDrain(drained + Water - Full)
      /\ allowance' = allowance + Limit * (lastDrain' - lastDrain)
                        - (IF allowed THEN Water ELSE 0)
      /\ rewound' = IF stamp < lastDrain THEN rewound + (lastDrain - stamp)
                                         ELSE rewound
      /\ UNCHANGED restarts

\* One run of the script: drain, add the call's water if it fits, write level and
\* last_drain_ms in either case, set the TTL.
RunScript(stamp) ==
  LET drained == Drained(stamp)
      allowed == drained + Water <= Full
      filled  == IF allowed THEN drained + Water ELSE drained
  IN  /\ exists' = TRUE
      /\ level' = filled
      /\ lastDrain' = stamp
      /\ expiresAt' = now + TTL
      /\ hint' = IF allowed THEN NoHint
                 ELSE stamp + TicksToDrain(drained + Water - Full)
      /\ allowance' = allowance + Limit * (lastDrain' - lastDrain)
                        - (IF allowed THEN Water ELSE 0)
      /\ rewound' = IF stamp < lastDrain THEN rewound + (lastDrain - stamp)
                                         ELSE rewound
      /\ UNCHANGED restarts

------------------------------------------------------------------------------
(***************************************************************************)
(* Calls, the environment and the observer, as in TokenBucket.             *)
(***************************************************************************)

Send(c) ==
  /\ rewound <= MaxRewound
  /\ Depart(c)
  /\ UNCHANGED <<redis, hint, restarts, measure>>

\* Redis runs the script of a request that arrived.
Execute(c) ==
  /\ Arrive(c)
  /\ RunScript(call[c].stamp)

Travel(c) ==
  /\ OnTheWay(c)
  /\ UNCHANGED <<redis, hint, restarts, measure>>

Tick ==
  /\ TimePasses
  /\ UNCHANGED <<redis, hint, restarts, measure>>

\* Redis restarts without persistence (deployments/docker-compose.yaml).
Restart ==
  /\ exists
  /\ restarts < MaxRestarts
  /\ restarts' = restarts + 1
  /\ exists' = FALSE
  /\ hint' = NoHint
  /\ allowance' = allowance + Full
  /\ UNCHANGED <<now, call, level, lastDrain, expiresAt, rewound>>

BeginMeasure ==
  /\ Live
  /\ allowance' = Full
  /\ rewound' = 0
  /\ UNCHANGED <<now, call, redis, hint, restarts>>

Next ==
  \/ \E c \in Calls : Send(c)
  \/ \E c \in Calls : Execute(c)
  \/ \E c \in Calls : Travel(c)
  \/ Tick
  \/ Restart
  \/ BeginMeasure

Spec == Init /\ [][Next]_vars

------------------------------------------------------------------------------
(***************************************************************************)
(* Properties.                                                             *)
(***************************************************************************)

\* The values Redis and the calls can hold; the bucket never overflows.
TypeOK ==
  /\ CallsTypeOK
  /\ exists \in BOOLEAN
  /\ level \in 0 .. Full
  /\ lastDrain \in Nat
  /\ expiresAt \in Nat
  /\ hint \in Int
  /\ restarts \in 0 .. MaxRestarts
  /\ allowance \in Int
  /\ rewound \in Nat

\* A denied caller who comes back after RetryAfter is admitted if nobody else
\* called in between.  RetryAfter is the wait for room, where the token bucket's
\* is the wait for a full bucket.
RetryAfterSuffices ==
  [][\A c \in Calls :
       Execute(c) /\ hint # NoHint /\ call[c].stamp >= hint => hint' = NoHint]_vars

(***************************************************************************)
(* The room in the bucket are the tokens of a token bucket.  (Where there  *)
(* is no hash the fields are those of the last one, in both modules.)  The *)
(* wait a denied caller is told there is the time until the bucket has     *)
(* drained.                                                                *)
(***************************************************************************)
Tokens == Full - level

TB == INSTANCE TokenBucket WITH
        tokens <- Tokens, ts <- lastDrain,
        hint <- IF hint = NoHint THEN NoHint ELSE lastDrain + TicksToDrain(level)

\* Seen as tokens, the leaky bucket admits exactly what the token bucket admits.
ImplementsTokenBucket == TB!Spec

\* One global limit, as for the token bucket: no more water is added between two
\* decisions than a bucket holds, than drains between them and than restarts
\* forgot, plus what drains twice when a script with an older reading moves
\* last_drain_ms back.
AdmissionBound == TB!AdmissionBound

QuotaSurvives == TB!QuotaSurvives

==============================================================================
