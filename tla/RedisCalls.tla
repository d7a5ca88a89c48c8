------------------------------ MODULE RedisCalls ------------------------------
(***************************************************************************)
(* How the calls of the distributed limiters travel                        *)
(* (limiter/distributed/*.go): Allow reads the clock of its replica, sends *)
(* the reading as an argument of a Lua script (runScript, scripts.go) and  *)
(* waits; Redis runs the script atomically when the request gets there.    *)
(* Between the two, other calls of this or another replica run their       *)
(* scripts, the request or its answer may be lost, the client may send the *)
(* same request again, and the caller may stop waiting.                    *)
(*                                                                         *)
(* The modules of the four algorithms extend this one.  Time is counted in *)
(* the milliseconds of the scripts, here ticks.                            *)
(***************************************************************************)
EXTENDS Integers, FiniteSets

CONSTANTS
  Calls,      \* slots for Allow calls in progress, over all replicas
  MaxSkew,    \* how far the clocks of two replicas can be apart, in ticks
  MaxDelay,   \* how long a request can take to reach Redis, in ticks
  Retries,    \* times the Redis client sends a request again (go-redis)
  MaxTime     \* bound: the clock stops there

ASSUME RedisCallsAssumption ==
  /\ MaxSkew \in Nat
  /\ MaxDelay \in Nat
  /\ Retries \in Nat
  /\ MaxTime \in Nat

VARIABLES
  now,        \* time at the slowest clock
  call        \* call[c]: what is known of the Allow call in slot c

callVars == <<now, call>>

\* waiting: Allow has not returned.  copies: requests on their way to Redis.
\* sentAt: when Allow read its clock; stamp: what it read.
Free == [waiting |-> FALSE, copies |-> 0, resent |-> 0, sentAt |-> 0, stamp |-> 0]

\* A call of which that many requests are on their way; its slot can be used
\* again once there is none and nobody waits.
Settled(r, copies, waiting) ==
  IF waiting \/ copies > 0
    THEN [r EXCEPT !.copies = copies, !.waiting = waiting]
    ELSE Free

CallsInit ==
  /\ now = 0
  /\ call = [c \in Calls |-> Free]

\* Allow reads its replica's clock and sends the script.
Depart(c) ==
  /\ call[c] = Free
  /\ \E skew \in 0 .. MaxSkew :
       call' = [call EXCEPT ![c] = [waiting |-> TRUE, copies |-> 1, resent |-> 0,
                                    sentAt |-> now, stamp |-> now + skew]]
  /\ UNCHANGED now

\* A request reaches Redis; the answer reaches the caller, or is lost.
Arrive(c) ==
  /\ call[c].copies > 0
  /\ \E answered \in BOOLEAN :
       call' = [call EXCEPT ![c] =
                  Settled(call[c], call[c].copies - 1,
                          call[c].waiting /\ ~answered)]
  /\ UNCHANGED now

\* A request is lost, or Redis refuses it.
LoseRequest(c) ==
  /\ call[c].copies > 0
  /\ call' = [call EXCEPT ![c] =
                Settled(call[c], call[c].copies - 1, call[c].waiting)]
  /\ UNCHANGED now

\* A plausible mistake in the definition that follows: the deadline is not looked
\* at.  No specification uses it.
SendAgain_NoDeadline(c) ==
  /\ call[c].waiting
  /\ call[c].resent < Retries
  /\ call' = [call EXCEPT ![c] =
                [call[c] EXCEPT !.copies = @ + 1, !.resent = @ + 1]]
  /\ UNCHANGED now

\* The client saw the connection fail and sends the same arguments again, as
\* long as the deadline of the call allows.
SendAgain(c) ==
  /\ call[c].waiting
  /\ call[c].resent < Retries
  /\ now <= call[c].sentAt + MaxDelay
  /\ call' = [call EXCEPT ![c] =
                [call[c] EXCEPT !.copies = @ + 1, !.resent = @ + 1]]
  /\ UNCHANGED now

\* The deadline passes or the client reports an error: Allow returns
\* ErrUnavailable, whatever has become of the request.
ReturnUnavailable(c) ==
  /\ call[c].waiting
  /\ call' = [call EXCEPT ![c] = Settled(call[c], call[c].copies, FALSE)]
  /\ UNCHANGED now

\* Time passes; a request that is not lost reaches Redis within MaxDelay.
TimePasses ==
  /\ now < MaxTime
  /\ \A c \in Calls : call[c].copies > 0 => now < call[c].sentAt + MaxDelay
  /\ now' = now + 1
  /\ UNCHANGED call

\* What can happen to a call between its departure and its arrival.
OnTheWay(c) == LoseRequest(c) \/ SendAgain(c) \/ ReturnUnavailable(c)

CallState ==
  [waiting : BOOLEAN, copies : Nat, resent : Nat, sentAt : Nat, stamp : Nat]

CallsTypeOK ==
  /\ now \in Nat
  /\ call \in [Calls -> CallState]

\* A request on its way carries the reading of a clock in range, taken at a time
\* in range.
InRange(r, t) ==
  /\ r.waiting \/ r.copies > 0 =>
       /\ r.sentAt <= t
       /\ r.sentAt <= r.stamp
       /\ r.stamp <= r.sentAt + MaxSkew
  /\ r.copies > 0 => t <= r.sentAt + MaxDelay

ReadingsInRange == \A c \in Calls : InRange(call[c], now)

==============================================================================
