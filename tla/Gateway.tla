------------------------------- MODULE Gateway --------------------------------
(***************************************************************************)
(* One replica of the gateway serving the requests for one key of one      *)
(* route: RateLimitForRoute (middleware/ratelimit.go) asks the limiter the *)
(* registry built for this route and tier (limiter/registry/registry.go),  *)
(* an l1Wrapper (cache/l1.go) around a breakerWrapper around a Redis       *)
(* limiter, and forwards the request or turns it away.                     *)
(*                                                                         *)
(* The breaker is module Breaker, which this one extends.  The limiter     *)
(* behind it is any of the four: Redis allows or denies each request as it *)
(* likes, and the gateway looks at no more than that and whether Remaining *)
(* is above a threshold.  Requests for other keys share only the breaker   *)
(* with these, requests served by other replicas only Redis.               *)
(*                                                                         *)
(* A goroutine can pause between any two steps, and so between reading the *)
(* clock and looking into the cache.  As in Breaker, clock readings are    *)
(* kept as ages; here they stop at MaxAge, when an entry is expired for    *)
(* every reading that may still be used.                                   *)
(***************************************************************************)
EXTENDS Breaker

CONSTANTS
  L1Enabled,    \* config.L1CacheConfig.Enabled
  L1TTL,        \* config.L1CacheConfig.TTL, in ticks
  L1Extra,      \* Limit * L1TTL / Window, rounded up
  MaxPause,     \* bound: the longest pause between reading the clock and Get
  Fallback      \* config.RouteConfig.Fallback

ASSUME GatewayAssumption ==
  /\ L1Enabled \in BOOLEAN
  /\ L1TTL \in Nat
  /\ L1Extra \in Nat
  /\ MaxPause \in Nat
  /\ Fallback \in {"open", "closed"}
  /\ IsFiniteSet(Calls)
  /\ Cardinality(Calls) <= MaxTotal

VARIABLES
  req,          \* req[c]: how far the request in slot c has come
  entry,        \* the key's entry in L1Cache.entries
  hits          \* history: requests served from entry, up to L1Extra + 1

vars == <<breakerVars, req, entry, hits>>

(***************************************************************************)
(* A request is idle, is asking the cache (it has read the clock), has     *)
(* found an expired entry, has missed the cache (and is about to enter the *)
(* breaker), is calling Redis, is answered (by the breaker, with a         *)
(* decision), or is responding, that is, forwarded to the upstream or      *)
(* turned away.                                                            *)
(*                                                                         *)
(* decision is what Redis said: "high" for an allow with Remaining above   *)
(* Limit * RemainingThreshold, "low" for any other allow, "deny", "none".  *)
(* asked is the age of the clock reading of l1Wrapper.Allow, and decided   *)
(* (history) the age of the decision; a response out of the cache keeps    *)
(* both as they were at the lookup, and no other needs them.               *)
(***************************************************************************)
Idle == [stage |-> "idle", asked |-> 0, decision |-> "none", decided |-> 0,
         response |-> "none"]

NoEntry == [decision |-> "none", asked |-> 0, decided |-> 0]

Forwarding == {"fromCache", "fromStore", "failOpen"}

InFlight == {c \in Calls : req[c].stage \notin {"idle", "responding"}}

MaxAge == L1TTL + MaxPause + 1

Older(a) == IF a >= MaxAge THEN a ELSE a + 1

MovesTo(c, stage) ==
  req' = [req EXCEPT ![c] = [req[c] EXCEPT !.stage = stage]]

Responds(c, decision, response) ==
  req' = [req EXCEPT ![c] = [Idle EXCEPT !.stage = "responding",
                                         !.decision = decision,
                                         !.response = response]]

Init ==
  /\ BreakerInit
  /\ req = [c \in Calls |-> Idle]
  /\ entry = NoEntry
  /\ hits = 0

------------------------------------------------------------------------------
(***************************************************************************)
(* RateLimitForRoute up to the limiter, and the cache in front of it.      *)
(***************************************************************************)

\* A client sends a request; bound: none comes that could exceed MaxTotal.
Arrive(c) ==
  /\ req[c].stage = "idle"
  /\ state = Closed => total + Cardinality(InFlight) < MaxTotal

\* No tier for the identity (401), an error of the resolver (500), or no quota
\* for the tier (403): the limiter is not asked.
Refuse(c) ==
  /\ Arrive(c)
  /\ Responds(c, "none", "refused")
  /\ UNCHANGED <<breakerVars, entry, hits>>

\* The others ask the limiter: l1Wrapper.Allow reads the clock, once, for both
\* Get and Set.  Without a cache for this route there is no l1Wrapper.
Ask(c) ==
  /\ Arrive(c)
  /\ MovesTo(c, IF L1Enabled THEN "asking" ELSE "missed")
  /\ UNCHANGED <<breakerVars, entry, hits>>

\* !now.After(e.expiresAt): when c read the clock, the entry was not yet older
\* than L1TTL; it may even have been stored since.
Fresh(c) == entry.asked - req[c].asked <= L1TTL

\* L1Cache.Get finds an allow that has not expired.
Hit(c) ==
  /\ req[c].stage = "asking"
  /\ entry.decision \in {"low", "high"}
  /\ Fresh(c)
  /\ req' = [req EXCEPT ![c] = [stage |-> "responding", asked |-> req[c].asked,
                                decision |-> entry.decision,
                                decided |-> entry.decided,
                                response |-> "fromCache"]]
  /\ hits' = IF hits > L1Extra THEN hits ELSE hits + 1
  /\ UNCHANGED <<breakerVars, entry>>

\* It finds an expired entry, which it is going to delete ...
FindExpired(c) ==
  /\ req[c].stage = "asking"
  /\ entry # NoEntry
  /\ ~Fresh(c)
  /\ MovesTo(c, "expired")
  /\ UNCHANGED <<breakerVars, entry, hits>>

\* ... whatever has been stored meanwhile.
DeleteEntry(c) ==
  /\ req[c].stage = "expired"
  /\ MovesTo(c, "missed")
  /\ entry' = NoEntry
  /\ hits' = 0
  /\ UNCHANGED breakerVars

\* It finds nothing.
Miss(c) ==
  /\ req[c].stage = "asking"
  /\ entry = NoEntry
  /\ MovesTo(c, "missed")
  /\ UNCHANGED <<breakerVars, entry, hits>>

------------------------------------------------------------------------------
(***************************************************************************)
(* breakerWrapper.Allow and the end of RateLimitForRoute.                  *)
(***************************************************************************)

\* The decision's Allowed is not set.
Unavailable_NotAllowed(c) ==
  Responds(c, "none", IF Fallback = "closed" THEN "unavailable" ELSE "tooMany")

\* The limiter returned an error: 503, or forward as if it had allowed.
Unavailable(c) ==
  Responds(c, "none", IF Fallback = "closed" THEN "unavailable" ELSE "failOpen")

\* Redis is called all the same.
FailFast_FallsThrough(c) ==
  /\ req[c].stage = "missed"
  /\ Reject(c)
  /\ MovesTo(c, "calling")
  /\ UNCHANGED <<entry, hits>>

\* The open breaker turns the call away.
FailFast(c) ==
  /\ req[c].stage = "missed"
  /\ Reject(c)
  /\ Unavailable(c)
  /\ UNCHANGED <<entry, hits>>

\* It lets the call through.
Call(c) ==
  /\ req[c].stage = "missed"
  /\ Admit(c) \/ Probe(c)
  /\ MovesTo(c, "calling")
  /\ UNCHANGED <<entry, hits>>

\* Redis runs the limiter's script.
Decide(c) ==
  /\ req[c].stage = "calling"
  /\ req[c].decision = "none"
  /\ redisUp
  /\ \E decision \in {"high", "low", "deny"} :
       req' = [req EXCEPT ![c] = [req[c] EXCEPT !.decision = decision,
                                                !.decided = 0]]
  /\ UNCHANGED <<breakerVars, entry, hits>>

\* Without the deadline, a call fails only once Redis has taken it.
Fail_NoDeadline(c) ==
  /\ req[c].stage = "calling"
  /\ req[c].decision # "none"
  /\ Finish(c, TRUE)
  /\ Unavailable(c)
  /\ UNCHANGED <<entry, hits>>

\* The call fails, whether or not the script ran.
Fail(c) ==
  /\ req[c].stage = "calling"
  /\ Finish(c, TRUE)
  /\ Unavailable(c)
  /\ UNCHANGED <<entry, hits>>

\* The answer gets back to the breaker and is handed on.
Return(c) ==
  /\ req[c].stage = "calling"
  /\ req[c].decision # "none"
  /\ Finish(c, FALSE)
  /\ MovesTo(c, "answered")
  /\ UNCHANGED <<entry, hits>>

\* The entry expires L1TTL after Set instead of after the reading.
CacheSet_ClockReadAgain(c) ==
  IF L1Enabled /\ req[c].decision = "high"
    THEN /\ entry' = [decision |-> "high", asked |-> 0,
                      decided |-> req[c].decided]
         /\ hits' = 0
    ELSE UNCHANGED <<entry, hits>>

\* L1Cache.Set: only an allow with enough left is stored, with the expiry that
\* follows from the reading before the call.
CacheSet(c) ==
  IF L1Enabled /\ req[c].decision = "high"
    THEN /\ entry' = [decision |-> "high", asked |-> req[c].asked,
                      decided |-> req[c].decided]
         /\ hits' = 0
    ELSE UNCHANGED <<entry, hits>>

\* The decision goes into the cache, and is carried out.
Respond(c) ==
  /\ req[c].stage = "answered"
  /\ CacheSet(c)
  /\ Responds(c, req[c].decision,
              IF req[c].decision = "deny" THEN "tooMany" ELSE "fromStore")
  /\ UNCHANGED breakerVars

\* The response is complete, and so is the upstream's if it was forwarded.
Done(c) ==
  /\ req[c].stage = "responding"
  /\ req' = [req EXCEPT ![c] = Idle]
  /\ UNCHANGED <<breakerVars, entry, hits>>

------------------------------------------------------------------------------
\* Time passes, but no lookup is put off for longer than MaxPause.
Tick ==
  /\ BreakerTick
  /\ \A c \in Calls : req[c].stage = "asking" => req[c].asked < MaxPause
  /\ req' = [c \in Calls |->
               IF c \in InFlight
                 THEN [req[c] EXCEPT !.asked = Older(@),
                                     !.decided = IF req[c].decision = "none"
                                                   THEN 0 ELSE Older(@)]
                 ELSE req[c]]
  /\ entry' = IF entry = NoEntry
                THEN NoEntry
                ELSE [entry EXCEPT !.asked = Older(@), !.decided = Older(@)]
  /\ UNCHANGED hits

RedisChanges ==
  /\ RedisSwitches
  /\ UNCHANGED <<req, entry, hits>>

Next ==
  \/ \E c \in Calls : Refuse(c)
  \/ \E c \in Calls : Ask(c)
  \/ \E c \in Calls : Hit(c)
  \/ \E c \in Calls : FindExpired(c)
  \/ \E c \in Calls : DeleteEntry(c)
  \/ \E c \in Calls : Miss(c)
  \/ \E c \in Calls : FailFast(c)
  \/ \E c \in Calls : Call(c)
  \/ \E c \in Calls : Decide(c)
  \/ \E c \in Calls : Fail(c)
  \/ \E c \in Calls : Return(c)
  \/ \E c \in Calls : Respond(c)
  \/ \E c \in Calls : Done(c)
  \/ Tick
  \/ RedisChanges

Spec == Init /\ [][Next]_vars

(***************************************************************************)
(* Goroutines run, time passes, and clients whose requests ask the limiter *)
(* keep coming.  A call to Redis has a deadline that stays passed, however *)
(* often Redis comes and goes: hence strong fairness.                      *)
(***************************************************************************)
Fairness ==
  /\ WF_vars(\E c \in Calls : Ask(c))
  /\ \A c \in Calls :
       /\ WF_vars(Hit(c) \/ FindExpired(c) \/ Miss(c))
       /\ WF_vars(DeleteEntry(c))
       /\ WF_vars(FailFast(c) \/ Call(c))
       /\ WF_vars(Decide(c))
       /\ SF_vars(Fail(c) \/ Return(c))
       /\ WF_vars(Respond(c))
       /\ WF_vars(Done(c))
  /\ WF_vars(Tick)

FairSpec == Spec /\ Fairness

------------------------------------------------------------------------------
(***************************************************************************)
(* Properties.                                                             *)
(***************************************************************************)

Decisions == {"none", "high", "low", "deny"}

\* The values of the gateway's own variables; a request is in the breaker
\* exactly while it calls Redis.
TypeOK ==
  /\ req \in [Calls -> [stage : {"idle", "asking", "expired", "missed",
                                 "calling", "answered", "responding"},
                        asked : 0 .. MaxAge,
                        decision : Decisions,
                        decided : 0 .. MaxAge,
                        response : Forwarding \cup {"none", "refused", "tooMany",
                                                    "unavailable"}]]
  /\ entry \in [decision : Decisions, asked : 0 .. MaxAge,
                decided : 0 .. MaxAge]
  /\ hits \in 0 .. L1Extra + 1
  /\ \A c \in Calls : (c \in Running) = (req[c].stage = "calling")

Responding(c, response) ==
  req[c].stage = "responding" /\ req[c].response = response

\* Every request that reaches the upstream does so for a reason: Redis allowed
\* that very request; or it allowed an earlier one, with enough left, no more than
\* L1TTL before this one asked; or the route fails open.  So a route that fails
\* closed protects its upstream within L1TTL of the last word of Redis, however
\* long calls were under way, however long a lookup was put off and whatever
\* other requests stored or deleted meanwhile.
BackendProtected ==
  \A c \in Calls :
    /\ Responding(c, "fromStore") => req[c].decision \in {"high", "low"}
    /\ Responding(c, "fromCache") =>
         req[c].decision = "high" /\ req[c].decided <= req[c].asked + L1TTL
    /\ Responding(c, "failOpen") => Fallback = "open"

\* A client is told 429 only if Redis denied that very request: an outage never
\* looks like an exhausted quota, and a denial is never served from the cache.
DenialIsReal ==
  \A c \in Calls : Responding(c, "tooMany") => req[c].decision = "deny"

\* What ARCHITECTURE.md, section 6, says of the cache: "each replica may admit up
\* to (limit * TTL / window) extra requests before Redis is checked".
OverAdmissionBounded == hits <= L1Extra

\* No goroutine is parked: every request is answered, whatever Redis does.
Answered == \A c \in Calls : req[c].stage # "idle" ~> req[c].stage = "idle"

\* Once Redis stays up, the fallback policy is no longer needed: eventually no
\* request is answered without a decision.
FallbackEnds ==
  <>[]redisUp =>
    <>[](\A c \in Calls : ~Responding(c, "failOpen") /\ ~Responding(c, "unavailable"))

==============================================================================
