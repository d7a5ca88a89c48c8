------------------------------ MODULE SlidingLog ------------------------------
(***************************************************************************)
(* The Redis-backed sliding window log for one key:                        *)
(* SlidingWindowLog.Allow (limiter/distributed/slidingwindowlog.go) and    *)
(* lua/sliding_window_log.lua, with the calls of module RedisCalls.        *)
(*                                                                         *)
(* The sorted set holds Cost members of one score for each admitted call;  *)
(* here it is a set of entries, one per call.  All calls for a key have    *)
(* the same cost (see TokenBucket).                                        *)
(***************************************************************************)
EXTENDS RedisCalls

CONSTANTS
  Limit,      \* limiter.Spec.Limit
  Window,     \* limiter.Spec.Window, in ticks
  Cost,       \* config.RouteConfig.Cost
  Ids,        \* what uuid.NewString can return; bound: calls admitted in a run
  NoId,       \* the identifier of a slot that is free
  MaxRestarts \* bound: restarts of Redis

ASSUME SlidingLogAssumption ==
  /\ Limit \in Nat \ {0}
  /\ Window \in Nat \ {0}
  /\ Cost \in Nat \ {0}
  /\ NoId \notin Ids
  /\ MaxRestarts \in Nat

VARIABLES
  memberId,   \* memberId[c]: the uuid that the call in slot c drew
  log,        \* the sorted set
  expiresAt,  \* when PEXPIRE lets it go
  hint,       \* history: when the last denied caller was told to come back
  restarts,   \* the environment: restarts of Redis so far
  admitted    \* history: calls admitted since Redis last started

vars == <<now, call, memberId, log, expiresAt, hint, restarts, admitted>>

NoHint == -1

\* "windowMs * 2"
TTL == 2 * Window

Init ==
  /\ CallsInit
  /\ memberId = [c \in Calls |-> NoId]
  /\ log = {}
  /\ expiresAt = 0
  /\ hint = NoHint
  /\ restarts = 0
  /\ admitted = {}

------------------------------------------------------------------------------
(***************************************************************************)
(* sliding_window_log.lua                                                  *)
(***************************************************************************)

\* The members are named after the reading instead of the call.
Member_Timestamp(c) == NoId

\* The name of a call's members: "unique per request - prevents ZADD collision
\* at same ms".  A request that is sent again carries the same name.
Member(c) == memberId[c]

\* What the sorted set holds when a script reads it.
Present == IF now <= expiresAt THEN log ELSE {}

\* ZREMRANGEBYSCORE up to, but without, the start of the window.
Retained_StartExcluded(stamp) == {e \in Present : e.stamp >= stamp - Window}

\* ZREMRANGEBYSCORE: the start of the window is outside it.
Retained(stamp) == {e \in Present : e.stamp > stamp - Window}

\* ZCARD.
Used(entries) == Cost * Cardinality(entries)

\* As if there were no entry.
ComeBack_NextWindow(entries, stamp) == stamp + Window

\* When the oldest entry leaves the window; a window from now if there is none.
ComeBack(entries, stamp) ==
  IF entries = {}
    THEN stamp + Window
    ELSE (CHOOSE t \in {e.stamp : e \in entries} : \A e \in entries : t <= e.stamp)
           + Window

\* Denied calls leave an entry too.
RunScript_LogsDenied(c) ==
  LET stamp    == call[c].stamp
      retained == Retained(stamp)
      entry    == [id |-> Member(c), stamp |-> stamp]
      allowed  == Used(retained) + Cost <= Limit
  IN  /\ log' = retained \cup {entry}
      /\ expiresAt' = now + TTL
      /\ hint' = IF allowed THEN NoHint ELSE ComeBack(retained, stamp)
      /\ admitted' = IF allowed
                       THEN admitted \cup {[id |-> memberId[c], stamp |-> stamp]}
                       ELSE admitted
      /\ UNCHANGED restarts

\* One run of the script: evict, count, add if there is room, set the TTL.
RunScript(c) ==
  LET stamp    == call[c].stamp
      retained == Retained(stamp)
      entry    == [id |-> Member(c), stamp |-> stamp]
      allowed  == Used(retained) + Cost <= Limit
  IN  /\ log' = IF allowed THEN retained \cup {entry} ELSE retained
      /\ expiresAt' = now + TTL
      /\ hint' = IF allowed THEN NoHint ELSE ComeBack(retained, stamp)
      /\ admitted' = IF allowed
                       THEN admitted \cup {[id |-> memberId[c], stamp |-> stamp]}
                       ELSE admitted
      /\ UNCHANGED restarts

------------------------------------------------------------------------------
(***************************************************************************)
(* Calls and the environment.                                              *)
(***************************************************************************)

redis == <<log, expiresAt, hint, restarts, admitted>>

\* A fresh identifier is drawn: one that no call before had.
Send(c) ==
  /\ Depart(c)
  /\ \E id \in Ids \ ({memberId[d] : d \in Calls} \cup {a.id : a \in admitted}) :
       memberId' = [memberId EXCEPT ![c] = id]
  /\ UNCHANGED redis

\* The identifier of a call of which nothing is left is forgotten.
Forget(c) ==
  memberId' = IF call'[c] = Free THEN [memberId EXCEPT ![c] = NoId] ELSE memberId

\* Redis runs the script of a request that arrived.
Execute(c) ==
  /\ Arrive(c)
  /\ RunScript(c)
  /\ Forget(c)

Travel(c) ==
  /\ OnTheWay(c)
  /\ Forget(c)
  /\ UNCHANGED redis

Tick ==
  /\ TimePasses
  /\ UNCHANGED <<memberId, redis>>

\* Redis restarts without persistence (deployments/docker-compose.yaml).
Restart ==
  /\ log # {}
  /\ restarts < MaxRestarts
  /\ restarts' = restarts + 1
  /\ log' = {}
  /\ hint' = NoHint
  /\ admitted' = {}
  /\ UNCHANGED <<now, call, memberId, expiresAt>>

Next ==
  \/ \E c \in Calls : Send(c)
  \/ \E c \in Calls : Execute(c)
  \/ \E c \in Calls : Travel(c)
  \/ Tick
  \/ Restart

Spec == Init /\ [][Next]_vars

------------------------------------------------------------------------------
(***************************************************************************)
(* Properties.                                                             *)
(***************************************************************************)

\* The values Redis and the calls can hold; the set never holds more than the
\* limit.
TypeOK ==
  /\ CallsTypeOK
  /\ memberId \in [Calls -> Ids \cup {NoId}]
  /\ log \subseteq [id : Ids \cup {NoId}, stamp : Nat]
  /\ IsFiniteSet(log)
  /\ Used(log) <= Limit
  /\ expiresAt \in Nat
  /\ hint \in Int
  /\ restarts \in 0 .. MaxRestarts
  /\ admitted \subseteq [id : Ids \cup {NoId}, stamp : Nat]
  /\ IsFiniteSet(admitted)

\* Admitted calls whose readings lie in the span of that many ticks from t on.
AdmittedIn(t, span) == {a \in admitted : t <= a.stamp /\ a.stamp < t + span}

\* One global limit, exactly: all replicas together admit no more than Limit in
\* any window, wherever it begins.  A window is shorter by as much as a script
\* can come after one with a later reading: that one may already have evicted
\* entries this one should count.
WindowBound ==
  \A a \in admitted :
    Used(AdmittedIn(a.stamp, Window - (MaxDelay + MaxSkew))) <= Limit

\* A denied caller who comes back after RetryAfter is admitted if nobody else
\* called in between.
RetryAfterSuffices ==
  [][\A c \in Calls :
       Execute(c) /\ hint # NoHint /\ call[c].stamp >= hint => hint' = NoHint]_vars

\* Denied callers do not put off the moment one of them will be admitted, however
\* often they come back.
DenialsDoNotProlong ==
  [][hint # NoHint /\ hint' # NoHint => hint' <= hint]_vars

==============================================================================
