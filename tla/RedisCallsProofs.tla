--------------------------- MODULE RedisCallsProofs ---------------------------
(***************************************************************************)
(* What the modules of the Redis limiters may rely on about the readings   *)
(* that reach their scripts, for every bound on delay and clock skew.      *)
(***************************************************************************)
EXTENDS RedisCalls, TLAPS

CallsInv == CallsTypeOK /\ ReadingsInRange

LEMMA FreeOK ==
  /\ Free \in CallState
  /\ \A t \in Nat : InRange(Free, t)
BY DEF Free, CallState, InRange

\* Perhaps a request less on its way, perhaps nobody waiting any more.
LEMMA SettledOK ==
  ASSUME NEW q \in CallState, NEW t \in Nat, InRange(q, t),
         NEW n \in Nat, n <= q.copies,
         NEW w \in BOOLEAN, w => q.waiting
  PROVE  Settled(q, n, w) \in CallState /\ InRange(Settled(q, n, w), t)
<1> DEFINE r == [q EXCEPT !.copies = n, !.waiting = w]
<1>1. r \in CallState
  BY DEF CallState
<1>2. /\ r.copies = n /\ r.waiting = w
      /\ r.sentAt = q.sentAt /\ r.stamp = q.stamp
  BY DEF CallState
<1> HIDE DEF r
<1>3. InRange(r, t)
  BY <1>2 DEF InRange, CallState
<1> USE DEF r
<1> QED BY <1>1, <1>3, FreeOK DEF Settled

\* A step that changes one slot into a call in range.
LEMMA SlotStep ==
  ASSUME CallsInv, NEW c \in Calls, NEW r \in CallState, InRange(r, now),
         call' = [call EXCEPT ![c] = r], now' = now
  PROVE  CallsInv'
<1>1. \A d \in Calls : call'[d] = IF d = c THEN r ELSE call[d]
  BY DEF CallsInv, CallsTypeOK
<1>2. CallsTypeOK'
  BY DEF CallsInv, CallsTypeOK
<1>3. \A d \in Calls : InRange(call'[d], now)
  BY <1>1 DEF CallsInv, ReadingsInRange
<1> QED BY <1>2, <1>3 DEF CallsInv, ReadingsInRange

LEMMA SettleStep ==
  ASSUME CallsInv, NEW c \in Calls,
         NEW n \in Nat, n <= call[c].copies,
         NEW w \in BOOLEAN, w => call[c].waiting,
         call' = [call EXCEPT ![c] = Settled(call[c], n, w)], now' = now
  PROVE  CallsInv'
<1> DEFINE q == call[c]
           r == Settled(q, n, w)
<1>1. q \in CallState /\ InRange(q, now) /\ now \in Nat
  BY DEF CallsInv, CallsTypeOK, ReadingsInRange
<1> HIDE DEF q
<1>2. r \in CallState /\ InRange(r, now)
  <2>1. n <= q.copies /\ (w => q.waiting)
    BY DEF q
  <2> QED BY <1>1, <2>1, SettledOK
<1>3. call' = [call EXCEPT ![c] = r]
  BY DEF q
<1> HIDE DEF r
<1> QED BY <1>2, <1>3, SlotStep

LEMMA CallsInitOK == CallsInit => CallsInv
BY FreeOK DEF CallsInit, CallsInv, CallsTypeOK, ReadingsInRange

LEMMA DepartOK ==
  ASSUME CallsInv, NEW c \in Calls, Depart(c)
  PROVE  CallsInv'
<1>1. PICK skew \in 0 .. MaxSkew :
        call' = [call EXCEPT ![c] = [waiting |-> TRUE, copies |-> 1, resent |-> 0,
                                     sentAt |-> now, stamp |-> now + skew]]
  BY DEF Depart
<1> DEFINE r == [waiting |-> TRUE, copies |-> 1, resent |-> 0,
                 sentAt |-> now, stamp |-> now + skew]
<1>2. r \in CallState /\ InRange(r, now)
  BY RedisCallsAssumption DEF CallsInv, CallsTypeOK, CallState, InRange
<1> QED BY <1>1, <1>2, SlotStep DEF Depart

LEMMA ArriveOK ==
  ASSUME CallsInv, NEW c \in Calls, Arrive(c)
  PROVE  CallsInv'
<1>1. PICK answered \in BOOLEAN :
        call' = [call EXCEPT ![c] =
                   Settled(call[c], call[c].copies - 1,
                           call[c].waiting /\ ~answered)]
  BY DEF Arrive
<1> DEFINE n == call[c].copies - 1
           w == call[c].waiting /\ ~answered
<1>2. call[c] \in CallState /\ call[c].copies > 0 /\ now' = now
  BY DEF CallsInv, CallsTypeOK, Arrive
<1>3. /\ n \in Nat /\ n <= call[c].copies
      /\ w \in BOOLEAN /\ (w => call[c].waiting)
  BY <1>2 DEF CallState
<1> HIDE DEF n, w
<1>4. call' = [call EXCEPT ![c] = Settled(call[c], n, w)]
  BY <1>1 DEF n, w
<1> QED BY <1>2, <1>3, <1>4, SettleStep

LEMMA OnTheWayOK ==
  ASSUME CallsInv, NEW c \in Calls, OnTheWay(c)
  PROVE  CallsInv'
<1>1. call[c] \in CallState /\ InRange(call[c], now) /\ now \in Nat
  BY DEF CallsInv, CallsTypeOK, ReadingsInRange
<1>2. CASE LoseRequest(c)
  <2> DEFINE n == call[c].copies - 1
             w == call[c].waiting
  <2>1. n \in Nat /\ n <= call[c].copies /\ w \in BOOLEAN /\ (w => call[c].waiting)
    BY <1>1, <1>2 DEF LoseRequest, CallState
  <2>2. call' = [call EXCEPT ![c] = Settled(call[c], n, w)] /\ now' = now
    BY <1>2 DEF LoseRequest
  <2> HIDE DEF n, w
  <2> QED BY <2>1, <2>2, SettleStep
<1>3. CASE ReturnUnavailable(c)
  <2> DEFINE n == call[c].copies
  <2>1. n \in Nat /\ n <= call[c].copies
    BY <1>1 DEF CallState
  <2>2. call' = [call EXCEPT ![c] = Settled(call[c], n, FALSE)] /\ now' = now
    BY <1>3 DEF ReturnUnavailable
  <2> HIDE DEF n
  <2> QED BY <2>1, <2>2, SettleStep
<1>4. CASE SendAgain(c)
  <2> DEFINE q == call[c]
             n == q.copies + 1
             m == q.resent + 1
             r == [q EXCEPT !.copies = n, !.resent = m]
  <2>1. call' = [call EXCEPT ![c] = r] /\ now' = now
    BY <1>4 DEF SendAgain
  <2>2. /\ q \in CallState /\ InRange(q, now) /\ n \in Nat /\ m \in Nat
        /\ q.waiting /\ now <= q.sentAt + MaxDelay
    BY <1>1, <1>4 DEF SendAgain, CallState
  <2> HIDE DEF q, n, m
  <2>3. /\ r \in CallState /\ r.waiting = q.waiting
        /\ r.sentAt = q.sentAt /\ r.stamp = q.stamp
    BY <2>2 DEF CallState
  <2> HIDE DEF r
  <2>4. InRange(r, now)
    BY <2>2, <2>3 DEF InRange
  <2> QED BY <2>1, <2>3, <2>4, SlotStep
<1> QED BY <1>2, <1>3, <1>4 DEF OnTheWay

LEMMA TimePassesOK ==
  ASSUME CallsInv, TimePasses
  PROVE  CallsInv'
<1>1. now \in Nat /\ now' = now + 1 /\ call' = call
  BY DEF CallsInv, CallsTypeOK, TimePasses
<1>2. ASSUME NEW c \in Calls
      PROVE  InRange(call[c], now + 1)
  <2>1. /\ call[c] \in CallState /\ InRange(call[c], now)
        /\ call[c].copies > 0 => now < call[c].sentAt + MaxDelay
    BY DEF CallsInv, CallsTypeOK, ReadingsInRange, TimePasses
  <2> QED
    BY <1>1, <2>1, RedisCallsAssumption DEF InRange, CallState
<1> QED BY <1>1, <1>2 DEF CallsInv, CallsTypeOK, ReadingsInRange

LEMMA CallsKept ==
  ASSUME CallsInv, UNCHANGED callVars
  PROVE  CallsInv'
BY DEF CallsInv, CallsTypeOK, ReadingsInRange, InRange, callVars

\* The reading a script runs with was taken no later than now and no longer ago
\* than MaxDelay, by a clock at most MaxSkew ahead.
LEMMA Arrival ==
  ASSUME CallsInv, NEW c \in Calls, Arrive(c)
  PROVE  /\ call[c].stamp \in Nat
         /\ now \in Nat /\ now' = now
         /\ now <= call[c].stamp + MaxDelay
         /\ call[c].stamp <= now + MaxSkew
<1>1. /\ call[c] \in CallState /\ InRange(call[c], now) /\ now \in Nat
      /\ call[c].copies > 0 /\ now' = now
  BY DEF CallsInv, CallsTypeOK, ReadingsInRange, Arrive
<1> QED BY <1>1, RedisCallsAssumption DEF CallState, InRange

==============================================================================
