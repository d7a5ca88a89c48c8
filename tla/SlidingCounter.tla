---------------------------- MODULE SlidingCounter ----------------------------
(***************************************************************************)
(* The Redis-backed sliding window counter for one key:                    *)
(* SlidingWindowCounter.Allow (limiter/distributed/slidingwindowcounter.go)*)
(* and lua/sliding_window_counter.lua, with the calls of RedisCalls.       *)
(*                                                                         *)
(* There is a counter for each window of the clock, under a key of its own.*)
(* The weight of the previous counter is a fraction of Window, so the      *)
(* estimate is kept exact in units of which a request has Window; the      *)
(* script's floating point is not modelled.                                *)
(***************************************************************************)
EXTENDS RedisCalls

CONSTANTS
  Limit,      \* limiter.Spec.Limit
  Window,     \* limiter.Spec.Window, in ticks
  Cost,       \* config.RouteConfig.Cost
  MaxRestarts \* bound: restarts of Redis

ASSUME SlidingCounterAssumption ==
  /\ Limit \in Nat \ {0}
  /\ Window \in Nat \ {0}
  /\ Cost \in Nat \ {0}
  /\ MaxRestarts \in Nat

VARIABLES
  used,       \* used[w]: the counter of window w, 0 if there never was one
  dies,       \* dies[w]: when PEXPIRE lets it go
  restarts,   \* the environment: restarts of Redis so far
  charged,    \* history: what was charged in window w since Redis last started
  from,       \* an observer looks at the Window ticks that begin here ...
  taken       \* ... and counts what is charged to readings among them

redis == <<used, dies>>
observed == <<restarts, charged, from, taken>>
vars == <<now, call, used, dies, restarts, charged, from, taken>>

\* Long enough for the window of the counter itself only.
TTL_OneWindow == Window

\* "2x window so the previous-window key stays alive while it is still needed"
TTL == 2 * Window

\* The windows readings can fall into, and the one before them.
Indexes == -1 .. (MaxTime + MaxSkew) \div Window

\* "floor to the nearest window boundary"
WindowOf(stamp) == stamp \div Window

Init ==
  /\ CallsInit
  /\ used = [w \in Indexes |-> 0]
  /\ dies = [w \in Indexes |-> 0]
  /\ restarts = 0
  /\ charged = [w \in Indexes |-> 0]
  /\ from \in 0 .. MaxTime
  /\ taken = 0

------------------------------------------------------------------------------
(***************************************************************************)
(* sliding_window_counter.lua                                              *)
(***************************************************************************)

\* GET: an expired counter reads as 0.
Get(w) == IF now <= dies[w] THEN used[w] ELSE 0

\* The estimate, in units: the previous window counts for as much of it as still
\* overlaps with the last Window ticks.
Estimate(stamp) ==
  Get(WindowOf(stamp) - 1) * (Window - (stamp % Window))
    + Get(WindowOf(stamp)) * Window

\* The cost is left out of the comparison.
Fits_WithoutCost(stamp) == Estimate(stamp) <= Limit * Window

Fits(stamp) == Estimate(stamp) + Cost * Window <= Limit * Window

\* PEXPIRE of the counter of window w, which exists by then, and of the one
\* before it, if it does.
Renewed(w) ==
  [i \in Indexes |->
     IF i = w \/ (i = w - 1 /\ Get(i) > 0) THEN now + TTL ELSE dies[i]]

\* INCRBY comes before the comparison, so that denied calls count.
Charge_Denied(w, allowed) == Get(w) + Cost

\* SET instead of INCRBY.
Charge_Overwrites(w, allowed) == IF allowed THEN Cost ELSE used[w]

\* The counter of the reading's window after the call.
Charge(w, allowed) == IF allowed THEN Get(w) + Cost ELSE used[w]

\* One run of the script: estimate, and charge the window of the reading if the
\* cost fits.
RunScript(stamp) ==
  LET w == WindowOf(stamp)
      allowed == Fits(stamp)
  IN  /\ used' = [used EXCEPT ![w] = Charge(w, allowed)]
      /\ dies' = IF allowed THEN Renewed(w) ELSE dies
      /\ charged' = [charged EXCEPT ![w] = IF allowed THEN @ + Cost ELSE @]
      /\ taken' = IF allowed /\ stamp \in from .. from + Window - 1
                    THEN taken + Cost ELSE taken
      /\ UNCHANGED <<restarts, from>>

------------------------------------------------------------------------------
(***************************************************************************)
(* Calls and the environment.                                              *)
(***************************************************************************)

Send(c) ==
  /\ Depart(c)
  /\ UNCHANGED <<redis, observed>>

\* Redis runs the script of a request that arrived.
Execute(c) ==
  /\ Arrive(c)
  /\ RunScript(call[c].stamp)

Travel(c) ==
  /\ OnTheWay(c)
  /\ UNCHANGED <<redis, observed>>

Tick ==
  /\ TimePasses
  /\ UNCHANGED <<redis, observed>>

\* Redis restarts without persistence (deployments/docker-compose.yaml); the
\* observer starts anew.
Restart ==
  /\ restarts < MaxRestarts
  /\ \E w \in Indexes : used[w] > 0
  /\ restarts' = restarts + 1
  /\ used' = [w \in Indexes |-> 0]
  /\ charged' = [w \in Indexes |-> 0]
  /\ taken' = 0
  /\ UNCHANGED <<now, call, dies, from>>

Next ==
  \/ \E c \in Calls : Send(c)
  \/ \E c \in Calls : Execute(c)
  \/ \E c \in Calls : Travel(c)
  \/ Tick
  \/ Restart

Spec == Init /\ [][Next]_vars

------------------------------------------------------------------------------
(***************************************************************************)
(* Properties.                                                             *)
(***************************************************************************)

\* The values Redis and the calls can hold: no counter exceeds the limit.
TypeOK ==
  /\ CallsTypeOK
  /\ now <= MaxTime
  /\ used \in [Indexes -> 0 .. Limit]
  /\ dies \in [Indexes -> Nat]
  /\ restarts \in 0 .. MaxRestarts
  /\ charged \in [Indexes -> Nat]
  /\ from \in 0 .. MaxTime
  /\ taken \in Nat

\* Whatever is late, lost or sent again, a counter is there as long as a call of
\* its own window may come.
CountersSurvive == MaxDelay + MaxSkew <= Window + 1

\* "bounded error of at most one window's worth of requests"
\* (sliding_window_counter.lua): in any span of Window ticks no more is charged
\* than the limit twice.
WindowBound == taken <= 2 * Limit

\* What the estimate would be if no counter ever expired.
ChargedEstimate(stamp) ==
  charged[WindowOf(stamp) - 1] * (Window - (stamp % Window))
    + charged[WindowOf(stamp)] * Window

\* A script that is late, or whose clock is behind the one that charged, may find
\* the previous counter expired while some of that window still overlaps; what it
\* overlooks is no more than the limit earns in the delay and the skew, less the
\* tick PEXPIRE leaves, and nothing if they are at most a tick.
ExpiryLossBounded ==
  [][\A c \in Calls : Execute(c) =>
       LET missed == ChargedEstimate(call[c].stamp) - Estimate(call[c].stamp)
       IN  missed > 0 => missed <= Limit * (MaxDelay + MaxSkew - 1)]_vars

\* A call is denied only if what was charged in the window of its reading and
\* in the one before leaves too little room: denied calls do not count.
DenialJustified ==
  [][\A c \in Calls : Execute(c) /\ charged' = charged =>
       LET w == WindowOf(call[c].stamp)
       IN  charged[w - 1] + charged[w] + Cost > Limit]_vars

\* "the maximum theoretical error is (limit/window)" (docs/ALGORITHMS.md): in
\* any span of Window ticks at most that much more than the limit is charged.
DocumentedError == taken * Window <= Limit * Window + Limit

==============================================================================
