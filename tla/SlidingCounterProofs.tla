------------------------- MODULE SlidingCounterProofs -------------------------
(***************************************************************************)
(* Theorems about the Redis sliding window counter, for every number of    *)
(* concurrent calls, every quota and every bound on delay and clock skew.  *)
(***************************************************************************)
EXTENDS SlidingCounter, RedisCallsProofs

\* A counter lives for two windows from the earliest moment at which it can have
\* been charged.
LivesLongEnough ==
  \A w \in Indexes : used[w] > 0 => Window * w + TTL <= dies[w] + MaxSkew

\* No counter exceeds what was charged.
NothingInvented == \A w \in Indexes : used[w] <= charged[w]

Count(w) == IF w \in Indexes THEN used[w] ELSE 0

\* The counters still hold all that was charged, and the observer looks at no
\* more than two of them.
NothingForgotten ==
  /\ \A w \in Indexes : used[w] = charged[w]
  /\ taken <= Count(WindowOf(from)) + Count(WindowOf(from) + 1)

IInv ==
  /\ TypeOK
  /\ ReadingsInRange
  /\ LivesLongEnough
  /\ NothingInvented
  /\ CountersSurvive => NothingForgotten

------------------------------------------------------------------------------
(***************************************************************************)
(* Arithmetic.                                                             *)
(***************************************************************************)

LEMMA Quantities ==
  /\ Limit \in Nat /\ Window \in Nat /\ Window > 0
  /\ Cost \in Nat /\ Cost > 0 /\ TTL \in Nat /\ TTL = 2 * Window
  /\ MaxTime \in Nat /\ MaxSkew \in Nat /\ MaxDelay \in Nat
BY SlidingCounterAssumption, RedisCallsAssumption DEF TTL

LEMMA TimesInt ==
  ASSUME NEW a \in Int
  PROVE  Window * a \in Int /\ Window * (a + 1) = Window * a + Window
BY Quantities

LEMMA TimesMonotone ==
  ASSUME NEW a \in Int, NEW b \in Int, a <= b
  PROVE  Window * a <= Window * b
<1>1. Window \in Nat /\ b - a \in Nat
  BY Quantities
<1>2. Window * (b - a) >= 0
  BY <1>1
<1>3. Window * (b - a) = Window * b - Window * a
  BY <1>1
<1> QED BY <1>1, <1>2, <1>3

\* A reading is in its window.
LEMMA Division ==
  ASSUME NEW stamp \in Nat
  PROVE  /\ WindowOf(stamp) \in Nat
         /\ stamp % Window \in 0 .. Window - 1
         /\ Window * WindowOf(stamp) <= stamp
         /\ stamp < Window * WindowOf(stamp) + Window
         /\ stamp = Window * WindowOf(stamp) + (stamp % Window)
<1> DEFINE q == stamp \div Window
<1>1. /\ q \in Nat
      /\ stamp = Window * q + (stamp % Window)
      /\ stamp % Window \in 0 .. Window - 1
  BY Quantities
<1>2. Window * q \in Nat
  BY <1>1, Quantities
<1> HIDE DEF q
<1>3. q = WindowOf(stamp)
  BY DEF q, WindowOf
<1> QED BY <1>1, <1>2, <1>3, Quantities

\* Later readings are in later windows.
LEMMA WindowMonotone ==
  ASSUME NEW a \in Nat, NEW b \in Nat, a <= b
  PROVE  WindowOf(a) <= WindowOf(b)
<1> DEFINE p == WindowOf(a)
           q == WindowOf(b)
<1>1. /\ p \in Nat /\ q \in Nat
      /\ Window * p <= a /\ b < Window * q + Window
  BY Division
<1> HIDE DEF p, q
<1>2. ASSUME p >= q + 1 PROVE FALSE
  <2>1. Window * (q + 1) <= Window * p
    BY <1>1, <1>2, TimesMonotone
  <2>2. Window * (q + 1) = Window * q + Window /\ Window * q \in Int
        /\ Window * p \in Int
    BY <1>1, TimesInt
  <2> QED BY <1>1, <2>1, <2>2, Quantities
<1>3. p <= q
  BY <1>1, <1>2
<1> QED BY <1>3 DEF p, q

\* The span of the observer meets two windows.
LEMMA SpanWindows ==
  ASSUME NEW a \in Nat, NEW stamp \in a .. a + Window - 1
  PROVE  WindowOf(stamp) \in {WindowOf(a), WindowOf(a) + 1}
<1> DEFINE p == WindowOf(a)
           q == WindowOf(stamp)
<1>1. stamp \in Nat
  BY Quantities
<1>2. p <= q
  BY <1>1, WindowMonotone
<1>3. /\ p \in Nat /\ q \in Nat
      /\ a < Window * p + Window /\ Window * q <= stamp
  BY <1>1, Division
<1> HIDE DEF p, q
<1>4. ASSUME q >= p + 2 PROVE FALSE
  <2>1. Window * (p + 2) <= Window * q
    BY <1>3, <1>4, TimesMonotone
  <2>2. /\ Window * (p + 2) = Window * p + 2 * Window
        /\ Window * p \in Int /\ Window * q \in Int
    BY <1>3, Quantities
  <2> QED BY <1>3, <2>1, <2>2, Quantities
<1>5. q = p \/ q = p + 1
  BY <1>2, <1>3, <1>4
<1> QED BY <1>5 DEF p, q

\* The counters of a reading exist.
LEMMA ReadingIndexes ==
  ASSUME NEW stamp \in Nat, stamp <= MaxTime + MaxSkew
  PROVE  /\ WindowOf(stamp) \in Indexes
         /\ WindowOf(stamp) - 1 \in Indexes
         /\ Indexes \subseteq Int
<1>1. MaxTime + MaxSkew \in Nat
  BY Quantities
<1>2. WindowOf(stamp) <= WindowOf(MaxTime + MaxSkew)
  BY <1>1, WindowMonotone
<1>3. WindowOf(stamp) \in Nat /\ WindowOf(MaxTime + MaxSkew) \in Nat
  BY <1>1, Division
<1>4. Indexes = -1 .. WindowOf(MaxTime + MaxSkew)
  BY DEF Indexes, WindowOf
<1> QED BY <1>2, <1>3, <1>4

------------------------------------------------------------------------------
(***************************************************************************)
(* sliding_window_counter.lua                                              *)
(***************************************************************************)

LEMMA GetRange ==
  ASSUME TypeOK, NEW w \in Indexes
  PROVE  Get(w) \in Nat /\ Get(w) <= used[w]
BY Quantities DEF TypeOK, Get

\* The estimate lies between the current counter alone and both in full.
LEMMA EstimateRange ==
  ASSUME TypeOK, NEW stamp \in Nat, stamp <= MaxTime + MaxSkew
  PROVE  LET w == WindowOf(stamp)
         IN  /\ Estimate(stamp) \in Nat
             /\ Get(w) * Window <= Estimate(stamp)
             /\ Estimate(stamp) <= (Get(w - 1) + Get(w)) * Window
<1> DEFINE w == WindowOf(stamp)
           prev == Get(w - 1)
           curr == Get(w)
           overlap == Window - (stamp % Window)
<1>1. prev \in Nat /\ curr \in Nat
  BY GetRange, ReadingIndexes
<1>2. overlap \in Nat /\ overlap <= Window
  BY Division, Quantities
<1>3. Estimate(stamp) = prev * overlap + curr * Window
  BY DEF Estimate
<1> HIDE DEF prev, curr, overlap
<1>4. prev * overlap \in Nat /\ curr * Window \in Nat /\ prev * Window \in Nat
  BY <1>1, <1>2, Quantities
<1>5. prev * overlap <= prev * Window
  <2>1. prev * (Window - overlap) >= 0
    BY <1>1, <1>2, Quantities
  <2>2. prev * (Window - overlap) = prev * Window - prev * overlap
    BY <1>1, <1>2, Quantities
  <2> QED BY <1>4, <2>1, <2>2
<1>6. (prev + curr) * Window = prev * Window + curr * Window
  BY <1>1, Quantities
<1>7. /\ Estimate(stamp) \in Nat
      /\ curr * Window <= Estimate(stamp)
      /\ Estimate(stamp) <= (prev + curr) * Window
  BY <1>3, <1>4, <1>5, <1>6
<1> QED BY <1>7 DEF prev, curr

LEMMA TimesCancel ==
  ASSUME NEW a \in Int, NEW b \in Int, a * Window <= b * Window
  PROVE  a <= b
<1>1. ASSUME a >= b + 1 PROVE FALSE
  <2>1. Window * (b + 1) <= Window * a
    BY <1>1, TimesMonotone
  <2>2. /\ Window * (b + 1) = Window * b + Window
        /\ Window * a = a * Window /\ Window * b = b * Window
        /\ Window * a \in Int /\ Window * b \in Int
    BY Quantities
  <2> QED BY <2>1, <2>2, Quantities
<1> QED BY <1>1

\* An admitted call leaves its counter within the limit; a denied one finds too
\* little room.
LEMMA FitsBound ==
  ASSUME TypeOK, NEW stamp \in Nat, stamp <= MaxTime + MaxSkew
  PROVE  LET w == WindowOf(stamp)
         IN  /\ Fits(stamp) => Get(w) + Cost <= Limit
             /\ ~Fits(stamp) => Get(w - 1) + Get(w) + Cost > Limit
<1> DEFINE w == WindowOf(stamp)
           prev == Get(w - 1)
           curr == Get(w)
           estimate == Estimate(stamp)
<1>1. prev \in Nat /\ curr \in Nat
  BY GetRange, ReadingIndexes
<1>2. /\ estimate \in Nat /\ curr * Window <= estimate
      /\ estimate <= (prev + curr) * Window
  BY EstimateRange
<1>3. Fits(stamp) <=> estimate + Cost * Window <= Limit * Window
  BY DEF Fits
<1> HIDE DEF prev, curr, estimate
<1>4. /\ (curr + Cost) * Window = curr * Window + Cost * Window
      /\ (prev + curr + Cost) * Window = (prev + curr) * Window + Cost * Window
      /\ curr * Window \in Int /\ Cost * Window \in Int /\ Limit * Window \in Int
      /\ (prev + curr) * Window \in Int
  BY <1>1, Quantities
<1>5. ASSUME Fits(stamp) PROVE curr + Cost <= Limit
  <2>1. (curr + Cost) * Window <= Limit * Window
    BY <1>2, <1>3, <1>4, <1>5
  <2> QED BY <1>1, <2>1, TimesCancel, Quantities
<1>6. ASSUME ~Fits(stamp) PROVE prev + curr + Cost > Limit
  <2>1. ASSUME prev + curr + Cost <= Limit PROVE FALSE
    <3>1. Window * (prev + curr + Cost) <= Window * Limit
      BY <1>1, <2>1, TimesMonotone, Quantities
    <3>2. /\ Window * (prev + curr + Cost) = (prev + curr + Cost) * Window
          /\ Window * Limit = Limit * Window
      BY <1>1, Quantities
    <3> QED BY <1>2, <1>3, <1>4, <1>6, <3>1, <3>2
  <2> QED BY <1>1, <2>1, Quantities
<1> QED BY <1>5, <1>6 DEF prev, curr

\* A counter that still has calls to come is not gone.
LEMMA StillThere ==
  ASSUME IInv, NEW w \in Indexes, now < Window * w + TTL - MaxSkew + 1
  PROVE  Get(w) = used[w]
<1>1. /\ used[w] \in Nat /\ dies[w] \in Nat /\ now \in Nat
      /\ used[w] > 0 => Window * w + TTL <= dies[w] + MaxSkew
  BY DEF IInv, TypeOK, CallsTypeOK, LivesLongEnough
<1>2. Window * w \in Int /\ TTL \in Nat /\ MaxSkew \in Nat
  BY TimesInt, ReadingIndexes, Quantities DEF Indexes
<1> QED BY <1>1, <1>2 DEF Get

\* What a run of the script does to each counter.
LEMMA ScriptEffect ==
  ASSUME TypeOK, NEW stamp \in Nat, stamp <= MaxTime + MaxSkew, RunScript(stamp)
  PROVE  LET w == WindowOf(stamp)
         IN  /\ \A i \in Indexes :
                  /\ used'[i] = IF Fits(stamp) /\ i = w THEN Get(w) + Cost
                                                        ELSE used[i]
                  /\ charged'[i] = IF Fits(stamp) /\ i = w THEN charged[i] + Cost
                                                           ELSE charged[i]
                  /\ \/ dies'[i] = dies[i] /\ (Fits(stamp) => i # w)
                     \/ dies'[i] = now + TTL /\ Fits(stamp)
                          /\ (i = w \/ i = w - 1)
             /\ used' \in [Indexes -> 0 .. Limit]
             /\ charged' \in [Indexes -> Nat]
             /\ dies' \in [Indexes -> Nat]
             /\ taken' \in Nat
             /\ restarts' = restarts /\ from' = from
<1> DEFINE w == WindowOf(stamp)
           allowed == Fits(stamp)
           curr == Get(w)
<1>1. w \in Indexes
  BY ReadingIndexes
<1>2. curr \in Nat /\ (allowed => curr + Cost <= Limit)
  BY <1>1, GetRange, FitsBound
<1>3. /\ used \in [Indexes -> 0 .. Limit] /\ charged \in [Indexes -> Nat]
      /\ dies \in [Indexes -> Nat] /\ now \in Nat /\ taken \in Nat
  BY DEF TypeOK, CallsTypeOK
<1>4. /\ used' = [used EXCEPT ![w] = IF allowed THEN curr + Cost ELSE used[w]]
      /\ dies' = IF allowed THEN Renewed(w) ELSE dies
      /\ charged' = [charged EXCEPT ![w] = IF allowed THEN charged[w] + Cost
                                                      ELSE charged[w]]
      /\ taken' = IF allowed /\ stamp \in from .. from + Window - 1
                    THEN taken + Cost ELSE taken
      /\ restarts' = restarts /\ from' = from
  BY DEF RunScript, Charge
<1>5. \A i \in Indexes :
        Renewed(w)[i] = IF i = w \/ (i = w - 1 /\ Get(i) > 0) THEN now + TTL
                                                             ELSE dies[i]
  BY DEF Renewed
<1>6. Renewed(w) \in [Indexes -> Nat]
  BY <1>3, Quantities DEF Renewed
<1> HIDE DEF w, allowed, curr
<1>7. /\ \A i \in Indexes :
           /\ used'[i] = IF allowed /\ i = w THEN curr + Cost ELSE used[i]
           /\ charged'[i] = IF allowed /\ i = w THEN charged[i] + Cost
                                                ELSE charged[i]
  BY <1>1, <1>3, <1>4
<1>8. \A i \in Indexes :
        \/ dies'[i] = dies[i] /\ (allowed => i # w)
        \/ dies'[i] = now + TTL /\ allowed /\ (i = w \/ i = w - 1)
  BY <1>4, <1>5
<1>9. /\ used' \in [Indexes -> 0 .. Limit] /\ charged' \in [Indexes -> Nat]
      /\ dies' \in [Indexes -> Nat] /\ taken' \in Nat
  <2>1. (IF allowed THEN curr + Cost ELSE used[w]) \in 0 .. Limit
    BY <1>1, <1>2, <1>3, Quantities
  <2>2. (IF allowed THEN charged[w] + Cost ELSE charged[w]) \in Nat
    BY <1>1, <1>3, Quantities
  <2>3. used' \in [Indexes -> 0 .. Limit]
    BY <1>3, <1>4, <2>1
  <2>4. charged' \in [Indexes -> Nat]
    BY <1>3, <1>4, <2>2
  <2>5. dies' \in [Indexes -> Nat]
    BY <1>3, <1>4, <1>6
  <2>6. taken' \in Nat
    BY <1>3, <1>4, Quantities
  <2> QED BY <2>3, <2>4, <2>5, <2>6
<1> QED BY <1>4, <1>7, <1>8, <1>9 DEF w, allowed, curr

------------------------------------------------------------------------------
(***************************************************************************)
(* Every step keeps the invariant.                                         *)
(***************************************************************************)

LEMMA IInvCalls == IInv => CallsInv
BY DEF IInv, TypeOK, CallsInv

\* A step that only concerns calls on their way.
LEMMA QuietStep ==
  ASSUME IInv, UNCHANGED <<redis, observed>>, CallsInv', now' <= MaxTime
  PROVE  IInv'
<1>1. TypeOK' /\ ReadingsInRange'
  BY DEF IInv, CallsInv, TypeOK, redis, observed
<1>2. LivesLongEnough' /\ NothingInvented' /\ (CountersSurvive => NothingForgotten')
  BY DEF IInv, LivesLongEnough, NothingInvented, NothingForgotten, Count,
         redis, observed
<1> QED BY <1>1, <1>2 DEF IInv

\* The reading of a request that arrives, and its window.
LEMMA ArrivalRange ==
  ASSUME IInv, NEW c \in Calls, Arrive(c)
  PROVE  LET stamp == call[c].stamp
             w == WindowOf(stamp)
         IN  /\ stamp \in Nat /\ stamp <= MaxTime + MaxSkew
             /\ now \in Nat /\ now' = now
             /\ w \in Indexes /\ w - 1 \in Indexes /\ w \in Nat
             /\ Window * w <= now + MaxSkew
             /\ now < Window * w + Window + MaxDelay
<1> DEFINE stamp == call[c].stamp
           w == WindowOf(stamp)
<1>1. /\ stamp \in Nat /\ now \in Nat /\ now' = now
      /\ now <= stamp + MaxDelay /\ stamp <= now + MaxSkew
  BY IInvCalls, Arrival
<1>2. now <= MaxTime
  BY DEF IInv, TypeOK
<1> HIDE DEF stamp
<1>3. stamp <= MaxTime + MaxSkew
  BY <1>1, <1>2, Quantities
<1>4. w \in Indexes /\ w - 1 \in Indexes
  BY <1>1, <1>3, ReadingIndexes
<1>5. w \in Nat /\ Window * w <= stamp /\ stamp < Window * w + Window
  BY <1>1, Division
<1> HIDE DEF w
<1>6. Window * w \in Int
  BY <1>5, TimesInt
<1>7. Window * w <= now + MaxSkew /\ now < Window * w + Window + MaxDelay
  BY <1>1, <1>5, <1>6, Quantities
<1> QED BY <1>1, <1>3, <1>4, <1>5, <1>7 DEF w, stamp

LEMMA ExecuteIInv ==
  ASSUME IInv, NEW c \in Calls, Execute(c)
  PROVE  IInv'
<1> DEFINE stamp == call[c].stamp
           w == WindowOf(stamp)
           allowed == Fits(stamp)
           curr == Get(w)
<1>1. Arrive(c) /\ RunScript(stamp)
  BY DEF Execute
<1>2. /\ stamp \in Nat /\ stamp <= MaxTime + MaxSkew
      /\ now \in Nat /\ now' = now
      /\ w \in Indexes /\ w \in Nat
      /\ Window * w <= now + MaxSkew
      /\ now < Window * w + Window + MaxDelay
  BY <1>1, ArrivalRange
<1>3. CallsInv' /\ TypeOK
  BY <1>1, IInvCalls, ArriveOK DEF IInv
<1>4. /\ \A i \in Indexes :
           /\ used'[i] = IF allowed /\ i = w THEN curr + Cost ELSE used[i]
           /\ charged'[i] = IF allowed /\ i = w THEN charged[i] + Cost
                                                ELSE charged[i]
           /\ \/ dies'[i] = dies[i] /\ (allowed => i # w)
              \/ dies'[i] = now + TTL /\ allowed /\ (i = w \/ i = w - 1)
      /\ used' \in [Indexes -> 0 .. Limit]
      /\ charged' \in [Indexes -> Nat]
      /\ dies' \in [Indexes -> Nat]
      /\ taken' \in Nat
      /\ restarts' = restarts /\ from' = from
  BY <1>1, <1>2, <1>3, ScriptEffect
<1>5. curr \in Nat /\ curr <= used[w]
  BY <1>2, <1>3, GetRange
<1>6. TypeOK'
  BY <1>2, <1>3, <1>4 DEF TypeOK, CallsInv
<1>7. taken' = IF allowed /\ stamp \in from .. from + Window - 1
                THEN taken + Cost ELSE taken
  BY <1>1 DEF RunScript
<1>8. /\ \A i \in Indexes : used[i] \in Nat /\ charged[i] \in Nat
                               /\ dies[i] \in Nat
      /\ Indexes \subseteq Int
      /\ taken \in Nat /\ from \in 0 .. MaxTime
  BY <1>2, <1>3, ReadingIndexes DEF TypeOK
<1> HIDE DEF w, stamp, allowed, curr
<1>9. LivesLongEnough'
  <2> SUFFICES ASSUME NEW i \in Indexes, used'[i] > 0
               PROVE  Window * i + TTL <= dies'[i] + MaxSkew
    BY DEF LivesLongEnough
  <2>1. CASE dies'[i] = dies[i] /\ (allowed => i # w)
    BY <1>4, <2>1 DEF IInv, LivesLongEnough
  <2>2. CASE dies'[i] = now + TTL /\ (i = w \/ i = w - 1)
    <3>1. Window * i <= Window * w
      BY <1>2, <1>8, <2>2, TimesMonotone
    <3>2. Window * i \in Int /\ Window * w \in Int
      BY <1>2, <1>8, TimesInt
    <3> QED BY <1>2, <2>2, <3>1, <3>2, Quantities
  <2> QED BY <1>4, <2>1, <2>2
<1>10. NothingInvented'
  BY <1>2, <1>4, <1>5, <1>8, Quantities DEF IInv, NothingInvented
<1>11. ASSUME CountersSurvive PROVE NothingForgotten'
  <2>1. curr = used[w]
    <3>1. Window * w \in Int
      BY <1>2, TimesInt
    <3>2. now < Window * w + TTL - MaxSkew + 1
      BY <1>2, <1>11, <3>1, Quantities DEF CountersSurvive
    <3> QED BY <1>2, <3>2, StillThere DEF curr
  <2>2. \A i \in Indexes : used'[i] = charged'[i]
    BY <1>2, <1>4, <1>8, <1>11, <2>1, Quantities DEF IInv, NothingForgotten
  <2>3. PICK f \in Nat : f = WindowOf(from) /\ f = WindowOf(from)'
    BY <1>4, <1>8, Division, Quantities DEF WindowOf
  <2>4. taken <= Count(f) + Count(f + 1)
    BY <1>11, <2>3 DEF IInv, NothingForgotten
  <2>5. \A i \in Nat : Count(i) \in Nat
    BY <1>8 DEF Count
  <2>6. \A i \in Nat :
          Count(i)' = IF allowed /\ i = w THEN Count(i) + Cost ELSE Count(i)
    BY <1>2, <1>4, <2>1 DEF Count, Indexes
  <2>7. allowed /\ stamp \in from .. from + Window - 1 => w = f \/ w = f + 1
    <3>1. from \in Nat
      BY <1>8, Quantities
    <3>2. stamp \in from .. from + Window - 1
            => WindowOf(stamp) \in {WindowOf(from), WindowOf(from) + 1}
      BY <3>1, SpanWindows
    <3> QED BY <2>3, <3>2 DEF w
  <2>8. taken' <= Count(f)' + Count(f + 1)'
    <3>1. /\ Count(f) \in Nat /\ Count(f + 1) \in Nat
          /\ Count(f)' = IF allowed /\ f = w THEN Count(f) + Cost ELSE Count(f)
          /\ Count(f + 1)' = IF allowed /\ f + 1 = w THEN Count(f + 1) + Cost
                                                     ELSE Count(f + 1)
      BY <2>3, <2>5, <2>6
    <3> QED BY <1>7, <1>8, <2>3, <2>4, <2>7, <3>1, Quantities
  <2>9. (taken <= Count(WindowOf(from)) + Count(WindowOf(from) + 1))'
    BY <2>3, <2>8 DEF Count
  <2> QED BY <2>2, <2>9 DEF NothingForgotten
<1> QED BY <1>3, <1>6, <1>9, <1>10, <1>11 DEF IInv, CallsInv

LEMMA RestartIInv ==
  ASSUME IInv, Restart
  PROVE  IInv'
<1>1. /\ used' = [w \in Indexes |-> 0] /\ charged' = [w \in Indexes |-> 0]
      /\ taken' = 0 /\ restarts' = restarts + 1 /\ restarts < MaxRestarts
      /\ now' = now /\ call' = call /\ dies' = dies /\ from' = from
  BY DEF Restart
<1>2. CallsTypeOK' /\ ReadingsInRange'
  BY <1>1 DEF IInv, TypeOK, CallsTypeOK, ReadingsInRange
<1>3. restarts' \in 0 .. MaxRestarts
  BY <1>1, SlidingCounterAssumption DEF IInv, TypeOK
<1>4. used' \in [Indexes -> 0 .. Limit] /\ charged' \in [Indexes -> Nat]
  BY <1>1, Quantities
<1>5. TypeOK'
  BY <1>1, <1>2, <1>3, <1>4 DEF IInv, TypeOK
<1>6. \A w \in Indexes : used'[w] = 0 /\ charged'[w] = 0
  BY <1>1
<1>7. LivesLongEnough' /\ NothingInvented'
  BY <1>6 DEF LivesLongEnough, NothingInvented
<1>8. NothingForgotten'
  BY <1>1, <1>6 DEF NothingForgotten, Count
<1> QED BY <1>2, <1>5, <1>7, <1>8 DEF IInv

LEMMA NextIInv ==
  ASSUME IInv, [Next]_vars
  PROVE  IInv'
<1>1. now <= MaxTime
  BY DEF IInv, TypeOK
<1>2. CASE UNCHANGED vars
  <2>1. CallsInv'
    BY <1>2, IInvCalls, CallsKept DEF vars, callVars
  <2> QED BY <1>1, <1>2, <2>1, QuietStep DEF vars, redis, observed
<1>3. ASSUME NEW c \in Calls, Send(c)
      PROVE  IInv'
  BY <1>1, <1>3, IInvCalls, DepartOK, QuietStep DEF Send, Depart
<1>4. ASSUME NEW c \in Calls, Travel(c)
      PROVE  IInv'
  <2>1. now' = now
    BY <1>4 DEF Travel, OnTheWay, LoseRequest, SendAgain, ReturnUnavailable
  <2> QED BY <1>1, <1>4, <2>1, IInvCalls, OnTheWayOK, QuietStep DEF Travel
<1>5. CASE Tick
  <2>1. now' <= MaxTime
    BY <1>5, Quantities DEF IInv, TypeOK, CallsTypeOK, Tick, TimePasses
  <2> QED BY <1>5, <2>1, IInvCalls, TimePassesOK, QuietStep DEF Tick
<1> QED BY <1>2, <1>3, <1>4, <1>5, ExecuteIInv, RestartIInv DEF Next

LEMMA InitIInv == Init => IInv
<1> SUFFICES ASSUME Init PROVE IInv
  OBVIOUS
<1>1. CallsInv /\ now = 0
  BY CallsInitOK DEF Init, CallsInit
<1>2. /\ used = [w \in Indexes |-> 0] /\ charged = [w \in Indexes |-> 0]
      /\ dies = [w \in Indexes |-> 0] /\ taken = 0
  BY DEF Init
<1>3. TypeOK
  BY <1>1, <1>2, Quantities, SlidingCounterAssumption DEF Init, TypeOK, CallsInv
<1>4. LivesLongEnough /\ NothingInvented /\ NothingForgotten
  BY <1>2 DEF LivesLongEnough, NothingInvented, NothingForgotten, Count
<1> QED BY <1>1, <1>3, <1>4 DEF IInv, CallsInv

LEMMA Invariance == Spec => []IInv
<1>1. IInv /\ [Next]_vars => IInv'
  BY NextIInv
<1> QED BY <1>1, InitIInv, PTL DEF Spec

------------------------------------------------------------------------------
\* No counter ever exceeds the limit, whatever order the scripts run in.
THEOREM TypeCorrect == Spec => []TypeOK
<1>1. IInv => TypeOK
  BY DEF IInv
<1> QED BY <1>1, Invariance, PTL

\* The error is at most one window's worth: if a counter outlives the calls of
\* its own window, no span of Window ticks is charged more than twice the limit.
THEOREM BoundedError ==
  ASSUME CountersSurvive
  PROVE  Spec => []WindowBound
<1>1. IInv => WindowBound
  <2> SUFFICES ASSUME IInv PROVE WindowBound
    OBVIOUS
  <2>1. \A w : Count(w) \in Nat /\ Count(w) <= Limit
    BY Quantities DEF IInv, TypeOK, Count
  <2>2. taken <= Count(WindowOf(from)) + Count(WindowOf(from) + 1) /\ taken \in Nat
    BY DEF IInv, NothingForgotten, TypeOK
  <2> QED BY <2>1, <2>2, Quantities DEF WindowBound
<1> QED BY <1>1, Invariance, PTL

\* Of the counters a script reads, only the previous one can be gone, and only
\* when so little of its window still overlaps.
LEMMA StillNeeded ==
  ASSUME CountersSurvive, IInv, NEW c \in Calls, Execute(c)
  PROVE  LET stamp == call[c].stamp
             w == WindowOf(stamp)
         IN  /\ Get(w) = charged[w]
             /\ \/ Get(w - 1) = charged[w - 1]
                \/ /\ Get(w - 1) = 0
                   /\ Window - (stamp % Window) <= MaxDelay + MaxSkew - 1
<1> DEFINE stamp == call[c].stamp
           w == WindowOf(stamp)
<1>1. /\ stamp \in Nat /\ w \in Nat /\ w \in Indexes /\ w - 1 \in Indexes
      /\ now \in Nat /\ now < Window * w + Window + MaxDelay
      /\ now <= stamp + MaxDelay
  BY ArrivalRange, IInvCalls, Arrival DEF Execute
<1>2. stamp = Window * w + (stamp % Window)
  BY <1>1, Division
<1>3. stamp % Window \in 0 .. Window - 1
  BY <1>1, Division
<1> HIDE DEF w, stamp
<1>4. /\ Window * w \in Int /\ Window * (w - 1) \in Int
      /\ Window * w = Window * (w - 1) + Window
  <2>1. w - 1 \in Int /\ (w - 1) + 1 = w
    BY <1>1
  <2> QED BY <1>1, <2>1, TimesInt
<1>5. Get(w) = charged[w]
  <2>1. now < Window * w + TTL - MaxSkew + 1
    BY <1>1, <1>4, Quantities DEF CountersSurvive
  <2> QED BY <1>1, <2>1, StillThere DEF IInv, NothingForgotten
<1>6. CASE now <= dies[w - 1]
  BY <1>1, <1>5, <1>6 DEF w, stamp, Get, IInv, NothingForgotten
<1>7. CASE ~(now <= dies[w - 1]) /\ used[w - 1] > 0
  <2>1. Window * (w - 1) + TTL <= dies[w - 1] + MaxSkew /\ dies[w - 1] \in Nat
    BY <1>1, <1>7 DEF IInv, LivesLongEnough, TypeOK
  <2>2. Window - (stamp % Window) <= MaxDelay + MaxSkew - 1
    BY <1>1, <1>2, <1>3, <1>4, <1>7, <2>1, Quantities
  <2>3. Get(w - 1) = 0
    BY <1>7 DEF Get
  <2> QED BY <1>5, <2>2, <2>3 DEF w, stamp
<1>8. CASE ~(now <= dies[w - 1]) /\ ~(used[w - 1] > 0)
  <2>1. used[w - 1] = 0 /\ charged[w - 1] = 0
    BY <1>1, <1>8, Quantities DEF IInv, TypeOK, NothingForgotten
  <2> QED BY <1>5, <1>8, <2>1 DEF w, stamp, Get
<1> QED BY <1>6, <1>7, <1>8

\* Whatever the delay and the skew, as long as a counter outlives the calls of its
\* own window, what expiry hides from a script is no more than the limit earns in
\* that time.
THEOREM ExpiryLossIsBounded ==
  ASSUME CountersSurvive
  PROVE  Spec => ExpiryLossBounded
<1> DEFINE missed(stamp) == ChargedEstimate(stamp) - Estimate(stamp)
           Bounded(c) == missed(call[c].stamp) > 0
                           => missed(call[c].stamp)
                                <= Limit * (MaxDelay + MaxSkew - 1)
<1>1. ASSUME IInv, NEW c \in Calls, Execute(c)
      PROVE  Bounded(c)
  <2> DEFINE stamp == call[c].stamp
             w == WindowOf(stamp)
             overlap == Window - (stamp % Window)
             prev == charged[w - 1]
             curr == charged[w]
             late == MaxDelay + MaxSkew - 1
  <2>1. /\ Get(w) = curr
        /\ Get(w - 1) = prev \/ (Get(w - 1) = 0 /\ overlap <= late)
    BY <1>1, StillNeeded
  <2>2. /\ stamp \in Nat /\ w \in Indexes /\ w - 1 \in Indexes
    BY <1>1, ArrivalRange DEF Execute
  <2>3. prev \in Nat /\ curr \in Nat /\ prev <= Limit
    BY <1>1, <2>2, Quantities DEF IInv, TypeOK, NothingForgotten
  <2>4. overlap \in Nat /\ late \in Int
    <3>1. stamp % Window \in 0 .. Window - 1
      BY <2>2, Division
    <3> HIDE DEF stamp
    <3> QED BY <3>1, Quantities
  <2>5. missed(stamp) = (prev * overlap + curr * Window)
                          - (Get(w - 1) * overlap + Get(w) * Window)
    BY DEF ChargedEstimate, Estimate
  <2> HIDE DEF overlap, prev, curr, late, w
  <2>6. prev * overlap \in Nat /\ curr * Window \in Nat
    BY <2>3, <2>4, Quantities
  <2>7. CASE Get(w - 1) = prev
    <3>1. missed(stamp) = 0
      BY <2>1, <2>5, <2>6, <2>7
    <3> QED BY <3>1
  <2>8. CASE Get(w - 1) = 0 /\ overlap <= late
    <3>1. missed(stamp) = prev * overlap
      <4>1. Get(w - 1) * overlap = 0
        BY <2>4, <2>8
      <4> QED BY <2>1, <2>5, <2>6, <4>1
    <3>2. prev * overlap <= Limit * overlap
      <4>1. (Limit - prev) * overlap >= 0
        BY <2>3, <2>4, Quantities
      <4>2. (Limit - prev) * overlap = Limit * overlap - prev * overlap
        BY <2>3, <2>4, Quantities
      <4>3. Limit * overlap \in Int
        BY <2>4, Quantities
      <4> QED BY <2>6, <4>1, <4>2, <4>3
    <3>3. Limit * overlap <= Limit * late
      <4>1. Limit * (late - overlap) >= 0
        BY <2>4, <2>8, Quantities
      <4>2. Limit * (late - overlap) = Limit * late - Limit * overlap
        BY <2>4, Quantities
      <4>3. Limit * overlap \in Int /\ Limit * late \in Int
        BY <2>4, Quantities
      <4> QED BY <4>1, <4>2, <4>3
    <3>4. Limit * overlap \in Int /\ Limit * late \in Int
      BY <2>4, Quantities
    <3>5. missed(stamp) <= Limit * late
      BY <2>6, <3>1, <3>2, <3>3, <3>4
    <3> QED BY <3>5 DEF late
  <2> QED BY <2>1, <2>7, <2>8
<1>2. IInv /\ [Next]_vars
        => [\A c \in Calls : Execute(c) => Bounded(c)]_vars
  <2> HIDE DEF Bounded
  <2> QED BY <1>1
<1> QED BY <1>2, Invariance, PTL DEF Spec, ExpiryLossBounded

\* Nobody is denied because others were denied, or because a counter remembers
\* more than two windows.
THEOREM DenialsJustified == Spec => DenialJustified
<1>1. ASSUME IInv, NEW c \in Calls, Execute(c), charged' = charged
      PROVE  LET w == WindowOf(call[c].stamp)
             IN  charged[w - 1] + charged[w] + Cost > Limit
  <2> DEFINE stamp == call[c].stamp
             w == WindowOf(stamp)
  <2>1. /\ stamp \in Nat /\ stamp <= MaxTime + MaxSkew /\ w \in Indexes
        /\ w - 1 \in Indexes
    BY <1>1, ArrivalRange DEF Execute
  <2>2. TypeOK /\ RunScript(stamp)
    BY <1>1 DEF IInv, Execute
  <2>3. /\ charged'[w] = IF Fits(stamp) THEN charged[w] + Cost ELSE charged[w]
        /\ charged[w] \in Nat /\ charged[w - 1] \in Nat
    BY <2>1, <2>2, ScriptEffect DEF TypeOK
  <2>4. ~Fits(stamp)
    BY <1>1, <2>3, Quantities
  <2>5. Get(w - 1) + Get(w) + Cost > Limit
    BY <2>1, <2>2, <2>4, FitsBound
  <2>6. /\ Get(w) \in Nat /\ Get(w - 1) \in Nat
        /\ Get(w) <= used[w] /\ Get(w - 1) <= used[w - 1]
        /\ used[w] \in Nat /\ used[w - 1] \in Nat
        /\ used[w] <= charged[w] /\ used[w - 1] <= charged[w - 1]
    BY <1>1, <2>1, <2>2, GetRange DEF IInv, NothingInvented, TypeOK
  <2> HIDE DEF w
  <2>7. charged[w - 1] + charged[w] + Cost > Limit
    BY <2>3, <2>5, <2>6, Quantities
  <2> QED BY <2>7 DEF w
<1>2. IInv /\ [Next]_vars
        => [\A c \in Calls : Execute(c) /\ charged' = charged =>
              LET w == WindowOf(call[c].stamp)
              IN  charged[w - 1] + charged[w] + Cost > Limit]_vars
  BY <1>1
<1> QED BY <1>2, Invariance, PTL DEF Spec, DenialJustified

==============================================================================
