--------------------------- MODULE SlidingLogProofs ---------------------------
(***************************************************************************)
(* The sliding window log keeps the global limit for every number of       *)
(* calls, limit, window, cost, delay, clock skew and number of retries.    *)
(*                                                                         *)
(* The argument: what was admitted and is no longer in the sorted set has  *)
(* a reading so old that no request still to arrive can share a window     *)
(* with it (Forgotten).  So a script counts all that matters.              *)
(***************************************************************************)
EXTENDS SlidingLog, RedisCallsProofs, FiniteSetTheorems, WellFoundedInduction

\* The expiry is at most one TTL away, and all entries were written before it
\* was set.
ExpiryFar ==
  /\ expiresAt <= now + TTL
  /\ \A e \in log : e.stamp + TTL <= expiresAt + MaxSkew

Forgotten ==
  \A a \in admitted : a \notin Present => a.stamp + Window <= now + MaxSkew

IInv ==
  /\ TypeOK
  /\ ReadingsInRange
  /\ log \subseteq admitted
  /\ ExpiryFar
  /\ Forgotten
  /\ WindowBound

LEMMA Quantities ==
  /\ Limit \in Nat /\ Limit > 0
  /\ Window \in Nat /\ Window > 0
  /\ Cost \in Nat /\ Cost > 0
  /\ MaxDelay \in Nat /\ MaxSkew \in Nat /\ MaxRestarts \in Nat
  /\ TTL = 2 * Window /\ TTL \in Nat
BY SlidingLogAssumption, RedisCallsAssumption DEF TTL

------------------------------------------------------------------------------
(***************************************************************************)
(* What entries use of the limit.                                          *)
(***************************************************************************)

LEMMA UsedNat ==
  ASSUME NEW S, IsFiniteSet(S)
  PROVE  Used(S) \in Nat
<1>1. Cardinality(S) \in Nat
  BY FS_CardinalityType
<1> QED BY <1>1, Quantities DEF Used

LEMMA UsedGrows ==
  ASSUME NEW T, IsFiniteSet(T), NEW S \in SUBSET T
  PROVE  IsFiniteSet(S) /\ Used(S) <= Used(T)
<1>1. IsFiniteSet(S) /\ Cardinality(S) <= Cardinality(T)
  BY FS_Subset
<1>2. Cardinality(S) \in Nat /\ Cardinality(T) \in Nat
  BY <1>1, FS_CardinalityType
<1>3. \A m, n \in Nat : m <= n => Cost * m <= Cost * n
  BY Quantities
<1> QED BY <1>1, <1>2, <1>3 DEF Used

LEMMA UsedByOneMore ==
  ASSUME NEW S, IsFiniteSet(S), NEW e
  PROVE  IsFiniteSet(S \cup {e}) /\ Used(S \cup {e}) <= Used(S) + Cost
<1>1. /\ IsFiniteSet(S \cup {e}) /\ Cardinality(S) \in Nat
      /\ \/ Cardinality(S \cup {e}) = Cardinality(S)
         \/ Cardinality(S \cup {e}) = Cardinality(S) + 1
  BY FS_AddElement, FS_CardinalityType
<1>2. \A n \in Nat : Cost * (n + 1) = Cost * n + Cost /\ Cost * n \in Nat
  BY Quantities
<1> QED BY <1>1, <1>2, Quantities DEF Used

LEMMA UsedByOneLess ==
  ASSUME NEW S, IsFiniteSet(S), NEW e \in S
  PROVE  Used(S \ {e}) + Cost = Used(S)
<1>1. /\ IsFiniteSet(S \ {e}) /\ Cardinality(S) \in Nat
      /\ Cardinality(S \ {e}) = Cardinality(S) - 1
  BY FS_RemoveElement, FS_CardinalityType
<1>2. Cardinality(S \ {e}) \in Nat
  BY <1>1, FS_CardinalityType
<1>3. \A n \in Nat : Cost * (n + 1) = Cost * n + Cost /\ Cost * n \in Nat
  BY Quantities
<1>4. Cardinality(S) = Cardinality(S \ {e}) + 1
  BY <1>1, <1>2
<1> QED BY <1>2, <1>3, <1>4 DEF Used

LEMMA UsedByNone == Used({}) = 0
BY FS_EmptySet, Quantities DEF Used

------------------------------------------------------------------------------
(***************************************************************************)
(* The script.                                                             *)
(***************************************************************************)

LEMMA RetainedOK ==
  ASSUME TypeOK, NEW stamp \in Nat
  PROVE  /\ Retained(stamp) \subseteq Present
         /\ Present \subseteq log
         /\ IsFiniteSet(Retained(stamp))
         /\ Used(Retained(stamp)) \in Nat
         /\ Used(Retained(stamp)) <= Limit
<1>1. Retained(stamp) \subseteq Present /\ Present \subseteq log
  BY DEF Retained, Present
<1>2. Retained(stamp) \in SUBSET log /\ IsFiniteSet(log)
  BY <1>1 DEF TypeOK
<1>3. IsFiniteSet(Retained(stamp)) /\ Used(Retained(stamp)) <= Used(log)
  BY <1>2, UsedGrows
<1>4. Used(Retained(stamp)) \in Nat /\ Used(log) \in Nat /\ Used(log) <= Limit
  BY <1>2, <1>3, UsedNat DEF TypeOK
<1> QED BY <1>1, <1>3, <1>4, Quantities

\* The oldest reading of a set of entries.
LEMMA Oldest ==
  ASSUME NEW S, \A e \in S : e.stamp \in Nat, S # {},
         NEW stamp
  PROVE  \E e \in S : /\ ComeBack(S, stamp) = e.stamp + Window
                      /\ \A f \in S : e.stamp <= f.stamp
<1> DEFINE T == {e.stamp : e \in S}
           oldest == CHOOSE t \in T : \A e \in S : t <= e.stamp
<1>1. PICK e0 \in S : TRUE
  OBVIOUS
<1>2. \E t \in T : \A e \in S : t <= e.stamp
  <2> DEFINE below == {p \in Nat \X Nat : p[1] < p[2]}
  <2>1. OpToRel(<, Nat) = below
    BY DEF OpToRel
  <2>2. IsWellFoundedOn(below, Nat)
    BY <2>1, NatLessThanWellFounded
  <2>3. T \subseteq Nat /\ T # {}
    BY <1>1
  <2> HIDE DEF below, T
  <2>4. PICK t \in T : \A u \in T : <<u, t>> \notin below
    BY <2>2, <2>3, WFMin
  <2>5. \A u \in T : ~(u < t)
    <3> SUFFICES ASSUME NEW u \in T, u < t PROVE FALSE
      OBVIOUS
    <3>1. <<u, t>> \in Nat \X Nat /\ <<u, t>>[1] = u /\ <<u, t>>[2] = t
      BY <2>3
    <3>2. <<u, t>> \in below
      BY <3>1 DEF below
    <3> QED BY <2>4, <3>2
  <2>6. \A u \in T : t <= u
    BY <2>3, <2>5
  <2> USE DEF T
  <2> QED BY <2>4, <2>6
<1>3. oldest \in T /\ \A e \in S : oldest <= e.stamp
  BY <1>2
<1>4. ComeBack(S, stamp) = oldest + Window
  BY DEF ComeBack
<1> QED BY <1>3, <1>4

------------------------------------------------------------------------------
(***************************************************************************)
(* The invariant.                                                          *)
(***************************************************************************)

LEMMA InitIInv == Init => IInv
<1> SUFFICES ASSUME Init PROVE IInv
  OBVIOUS
<1>1. CallsTypeOK /\ ReadingsInRange /\ now = 0
  BY CallsInitOK DEF Init, CallsInv, CallsInit
<1>2. IsFiniteSet({}) /\ Used({}) = 0
  BY FS_EmptySet, UsedByNone
<1>3. TypeOK
  BY <1>1, <1>2, Quantities DEF Init, TypeOK, NoHint
<1>4. log \subseteq admitted /\ ExpiryFar /\ Forgotten /\ WindowBound
  BY <1>1, Quantities DEF Init, ExpiryFar, Forgotten, WindowBound
<1> QED BY <1>1, <1>3, <1>4 DEF IInv

\* Where nothing but the calls and the clock changes.
LEMMA RedisKept ==
  ASSUME IInv, UNCHANGED redis, now' \in Nat, now <= now',
         CallsInv', memberId' \in [Calls -> Ids \cup {NoId}]
  PROVE  IInv'
<1>1. TypeOK' /\ ReadingsInRange' /\ (log \subseteq admitted)'
  BY DEF IInv, TypeOK, CallsInv, redis, Used
<1>2. now \in Nat /\ expiresAt \in Nat /\ \A a \in admitted : a.stamp \in Nat
  BY DEF IInv, TypeOK, CallsTypeOK
<1>3. log \subseteq admitted
  BY DEF IInv
<1>4. ExpiryFar'
  <2>1. expiresAt <= now + TTL /\ log' = log /\ expiresAt' = expiresAt
    BY DEF IInv, ExpiryFar, redis
  <2>2. expiresAt <= now' + TTL
    <3>1. now \in Nat /\ expiresAt \in Nat /\ expiresAt <= now + TTL
      BY <1>2, <2>1
    <3>2. \A x, n, m, k \in Nat : x <= n + k /\ n <= m => x <= m + k
      OBVIOUS
    <3>3. now' \in Nat /\ now <= now' /\ TTL \in Nat
      BY Quantities
    <3> QED BY <3>1, <3>2, <3>3, Zenon
  <2>3. \A e \in log : e.stamp + TTL <= expiresAt + MaxSkew
    BY DEF IInv, ExpiryFar
  <2> QED BY <2>1, <2>2, <2>3, Quantities DEF ExpiryFar
<1>5. Forgotten'
  <2> SUFFICES ASSUME NEW a \in admitted, a \notin Present'
               PROVE  a.stamp + Window <= now' + MaxSkew
    BY DEF Forgotten, redis
  <2>1. CASE a \in Present
    <3>1. a \in log /\ now' > expiresAt
      BY <1>2, <2>1 DEF Present, redis
    <3>2. a.stamp + TTL <= expiresAt + MaxSkew
      BY <3>1 DEF IInv, ExpiryFar
    <3> QED BY <1>2, <3>1, <3>2, Quantities
  <2>2. CASE a \notin Present
    BY <1>2, <2>2, Quantities DEF IInv, Forgotten
  <2> QED BY <2>1, <2>2
<1>6. WindowBound'
  BY DEF IInv, WindowBound, AdmittedIn, Used, redis
<1> QED BY <1>1, <1>4, <1>5, <1>6 DEF IInv

LEMMA RestartIInv ==
  ASSUME IInv, Restart
  PROVE  IInv'
<1>1. CallsInv'
  BY CallsKept DEF IInv, TypeOK, CallsInv, Restart, callVars
<1>2. IsFiniteSet({}) /\ Used({}) = 0
  BY FS_EmptySet, UsedByNone
<1>3. Used(log)' = 0
  BY <1>2 DEF Used, Restart
<1>4. TypeOK'
  BY <1>1, <1>2, <1>3, Quantities DEF IInv, TypeOK, CallsInv, Restart, NoHint
<1> QED
  BY <1>1, <1>4 DEF IInv, CallsInv, ExpiryFar, Forgotten, WindowBound, Restart, TTL

\* What a run of the script does to the log.
LEMMA ScriptStep ==
  ASSUME IInv, NEW c \in Calls, Execute(c),
         NEW stamp, stamp = call[c].stamp,
         NEW kept, kept = Retained(stamp)
  PROVE  /\ CallsInv'
         /\ now \in Nat /\ now' = now
         /\ stamp \in Nat /\ now <= stamp + MaxDelay /\ stamp <= now + MaxSkew
         /\ kept \subseteq Present /\ Present \subseteq log
         /\ IsFiniteSet(kept) /\ Used(kept) \in Nat /\ Used(kept) <= Limit
         /\ expiresAt' = now + TTL
         /\ \/ /\ Used(kept) + Cost <= Limit
               /\ log' = kept \cup {[id |-> memberId[c], stamp |-> stamp]}
               /\ admitted' = admitted \cup {[id |-> memberId[c], stamp |-> stamp]}
               /\ hint' = NoHint
            \/ /\ ~(Used(kept) + Cost <= Limit)
               /\ log' = kept
               /\ admitted' = admitted
               /\ hint' = ComeBack(kept, stamp)
<1>1. CallsInv /\ TypeOK /\ Arrive(c) /\ RunScript(c)
  BY DEF IInv, TypeOK, CallsInv, Execute
<1>2. /\ CallsInv' /\ now \in Nat /\ now' = now
      /\ stamp \in Nat /\ now <= stamp + MaxDelay /\ stamp <= now + MaxSkew
  BY <1>1, ArriveOK, Arrival
<1>3. /\ kept \subseteq Present /\ Present \subseteq log
      /\ IsFiniteSet(kept) /\ Used(kept) \in Nat /\ Used(kept) <= Limit
  BY <1>1, <1>2, RetainedOK
<1> QED BY <1>1, <1>2, <1>3 DEF RunScript, Member

LEMMA ExecuteIInv ==
  ASSUME IInv, NEW c \in Calls, Execute(c)
  PROVE  IInv'
<1> DEFINE stamp == call[c].stamp
           kept == Retained(stamp)
           new == [id |-> memberId[c], stamp |-> stamp]
           room == Used(kept) + Cost <= Limit
<1>1. /\ CallsInv'
      /\ now \in Nat /\ now' = now
      /\ stamp \in Nat /\ now <= stamp + MaxDelay /\ stamp <= now + MaxSkew
      /\ kept \subseteq Present /\ Present \subseteq log
      /\ IsFiniteSet(kept) /\ Used(kept) \in Nat /\ Used(kept) <= Limit
      /\ expiresAt' = now + TTL
      /\ \/ /\ room
            /\ log' = kept \cup {new}
            /\ admitted' = admitted \cup {new}
            /\ hint' = NoHint
         \/ /\ ~room
            /\ log' = kept
            /\ admitted' = admitted
            /\ hint' = ComeBack(kept, stamp)
  BY ScriptStep
<1>2. \A e \in kept : e.stamp > stamp - Window
  BY DEF Retained
<1>3. \A e \in Present : e \notin kept => e.stamp <= stamp - Window
  <2>1. \A e \in log : e.stamp \in Nat
    BY DEF IInv, TypeOK
  <2> QED BY <1>1, <2>1, Quantities DEF Retained
<1> HIDE DEF kept, stamp
<1>4. new \in [id : Ids \cup {NoId}, stamp : Nat] /\ new.stamp = stamp
  BY <1>1 DEF IInv, TypeOK
<1> HIDE DEF new
<1>5. /\ log \subseteq [id : Ids \cup {NoId}, stamp : Nat]
      /\ admitted \subseteq [id : Ids \cup {NoId}, stamp : Nat]
      /\ IsFiniteSet(admitted)
      /\ log \subseteq admitted
      /\ memberId \in [Calls -> Ids \cup {NoId}]
      /\ restarts \in 0 .. MaxRestarts
  BY DEF IInv, TypeOK
<1>6. TypeOK'
  <2>1. CallsTypeOK'
    BY <1>1 DEF CallsInv
  <2>2. /\ log' \subseteq [id : Ids \cup {NoId}, stamp : Nat]
        /\ admitted' \subseteq [id : Ids \cup {NoId}, stamp : Nat]
    BY <1>1, <1>4, <1>5
  <2>3. IsFiniteSet(log') /\ Used(log') <= Limit
    <3>1. IsFiniteSet(kept \cup {new}) /\ Used(kept \cup {new}) <= Used(kept) + Cost
      BY <1>1, UsedByOneMore
    <3>2. Used(kept \cup {new}) \in Nat
      BY <3>1, UsedNat
    <3>3. CASE room /\ log' = kept \cup {new}
      BY <1>1, <3>1, <3>2, <3>3, Quantities
    <3>4. CASE log' = kept
      BY <1>1, <3>4
    <3> QED BY <1>1, <3>3, <3>4
  <2>4. IsFiniteSet(admitted')
    <3>1. IsFiniteSet(admitted \cup {new})
      BY <1>5, UsedByOneMore
    <3> QED BY <1>1, <1>5, <3>1
  <2>5. hint' \in Int
    <3>1. CASE hint' = NoHint
      BY <3>1 DEF NoHint
    <3>2. CASE hint' = ComeBack(kept, stamp)
      <4>1. \A e \in kept : e.stamp \in Nat
        BY <1>1, <1>5
      <4>2. CASE kept = {}
        BY <1>1, <3>2, <4>2, Quantities DEF ComeBack
      <4>3. CASE kept # {}
        BY <3>2, <4>1, <4>3, Oldest, Quantities
      <4> QED BY <4>2, <4>3
    <3> QED BY <1>1, <3>1, <3>2
  <2>6. memberId' \in [Calls -> Ids \cup {NoId}]
    BY <1>5 DEF Execute, Forget
  <2>7. restarts' \in 0 .. MaxRestarts
    BY <1>5 DEF Execute, RunScript
  <2>8. expiresAt' \in Nat
    BY <1>1, Quantities
  <2>9. Used(log)' = Used(log')
    BY DEF Used
  <2> QED BY <2>1, <2>2, <2>3, <2>4, <2>5, <2>6, <2>7, <2>8, <2>9 DEF TypeOK
<1>7. (log \subseteq admitted)'
  BY <1>1, <1>5
<1>8. ExpiryFar'
  <2>1. \A e \in log : e.stamp \in Nat /\ e.stamp + TTL <= expiresAt + MaxSkew
    BY <1>5 DEF IInv, ExpiryFar
  <2>2. expiresAt \in Nat /\ expiresAt <= now + TTL
    BY DEF IInv, TypeOK, ExpiryFar
  <2>3. \A e \in log : e.stamp + TTL <= expiresAt' + MaxSkew
    BY <1>1, <2>1, <2>2, Quantities
  <2>4. new.stamp + TTL <= expiresAt' + MaxSkew
    BY <1>1, <1>4, Quantities
  <2>5. expiresAt' <= now' + TTL
    BY <1>1, Quantities
  <2>6. \A e \in log' : e \in log \/ e = new
    BY <1>1
  <2> QED BY <2>3, <2>4, <2>5, <2>6 DEF ExpiryFar
<1>9. Forgotten'
  <2> SUFFICES ASSUME NEW a \in admitted', a \notin Present'
               PROVE  a.stamp + Window <= now + MaxSkew
    BY <1>1 DEF Forgotten
  <2>1. Present' = log'
    BY <1>1, Quantities DEF Present
  <2>2. a \in admitted /\ a \notin kept /\ a.stamp \in Nat
    BY <1>1, <1>5, <2>1
  <2>3. CASE a \in Present
    BY <1>1, <1>3, <2>2, <2>3, Quantities
  <2>4. CASE a \notin Present
    BY <2>2, <2>4 DEF IInv, Forgotten
  <2> QED BY <2>3, <2>4
<1>10. WindowBound'
  <2> DEFINE span == Window - (MaxDelay + MaxSkew)
  <2> SUFFICES ASSUME NEW a \in admitted'
               PROVE  Used(AdmittedIn(a.stamp, span)') <= Limit
    BY DEF WindowBound, Used, AdmittedIn
  <2> DEFINE old == AdmittedIn(a.stamp, span)
             X == AdmittedIn(a.stamp, span)'
  <2>1. span \in Int /\ a.stamp \in Nat /\ \A f \in admitted' : f.stamp \in Nat
    BY <1>1, <1>4, <1>5, Quantities
  <2>2. CASE new \in X /\ new \in admitted' /\ room
    <3>1. a.stamp <= stamp /\ stamp < a.stamp + span
      BY <1>4, <2>2 DEF AdmittedIn
    <3>2. ASSUME NEW f \in X, f # new
          PROVE  f \in kept
      <4>1. f \in admitted /\ a.stamp <= f.stamp /\ f.stamp \in Nat
        BY <1>1, <2>1, <3>2 DEF AdmittedIn
      <4>2. f.stamp + Window > now + MaxSkew /\ f.stamp > stamp - Window
        BY <1>1, <2>1, <3>1, <4>1, Quantities
      <4>3. now + MaxSkew \in Nat /\ f.stamp + Window \in Nat
        BY <1>1, <4>1, Quantities
      <4>4. f \in Present
        BY <4>1, <4>2, <4>3 DEF IInv, Forgotten
      <4>5. ~(f.stamp <= stamp - Window)
        BY <1>1, <4>1, <4>2, Quantities
      <4> QED BY <1>3, <4>4, <4>5
    <3>3. X \in SUBSET (kept \cup {new})
      BY <3>2
    <3>4. IsFiniteSet(kept \cup {new}) /\ Used(kept \cup {new}) <= Used(kept) + Cost
      BY <1>1, UsedByOneMore
    <3>5. IsFiniteSet(X) /\ Used(X) <= Used(kept \cup {new})
      BY <3>3, <3>4, UsedGrows
    <3>6. Used(X) \in Nat /\ Used(kept \cup {new}) \in Nat
      BY <3>4, <3>5, UsedNat
    <3> QED BY <1>1, <2>2, <3>4, <3>5, <3>6, Quantities DEF room
  <2>3. CASE new \notin X \/ admitted' = admitted
    <3>1. X = old
      BY <1>1, <2>3 DEF AdmittedIn
    <3>2. CASE a \in admitted
      BY <3>1, <3>2 DEF IInv, WindowBound
    <3>3. CASE a \notin admitted
      <4>1. a = new /\ new \notin X
        BY <1>1, <2>3, <3>3
      <4>2. ~(a.stamp < a.stamp + span)
        BY <2>1, <4>1 DEF AdmittedIn
      <4>3. X = {}
        BY <2>1, <4>2, Quantities DEF AdmittedIn
      <4> QED BY <4>3, UsedByNone, Quantities
    <3> QED BY <3>2, <3>3
  <2> QED BY <1>1, <2>2, <2>3 DEF AdmittedIn
<1> QED BY <1>1, <1>6, <1>7, <1>8, <1>9, <1>10 DEF IInv, CallsInv

LEMMA IInvStep == IInv /\ [Next]_vars => IInv'
<1> SUFFICES ASSUME IInv, [Next]_vars PROVE IInv'
  OBVIOUS
<1>1. CallsInv /\ now \in Nat /\ memberId \in [Calls -> Ids \cup {NoId}]
  BY DEF IInv, TypeOK, CallsInv, CallsTypeOK
<1>2. ASSUME NEW c \in Calls, Send(c) PROVE IInv'
  <2>1. CallsInv' /\ now' = now
    BY <1>1, <1>2, DepartOK DEF Send, Depart
  <2>2. memberId' \in [Calls -> Ids \cup {NoId}]
    BY <1>1, <1>2 DEF Send
  <2> QED BY <1>1, <1>2, <2>1, <2>2, RedisKept DEF Send
<1>3. ASSUME NEW c \in Calls, Execute(c) PROVE IInv'
  BY <1>3, ExecuteIInv
<1>4. ASSUME NEW c \in Calls, Travel(c) PROVE IInv'
  <2>1. CallsInv' /\ now' = now
    BY <1>1, <1>4, OnTheWayOK
       DEF Travel, OnTheWay, LoseRequest, SendAgain, ReturnUnavailable
  <2>2. memberId' \in [Calls -> Ids \cup {NoId}]
    BY <1>1, <1>4 DEF Travel, Forget
  <2> QED BY <1>1, <1>4, <2>1, <2>2, RedisKept DEF Travel
<1>5. ASSUME Tick PROVE IInv'
  <2>1. CallsInv' /\ now' = now + 1
    BY <1>1, <1>5, TimePassesOK DEF Tick, TimePasses
  <2> QED BY <1>1, <1>5, <2>1, RedisKept DEF Tick
<1>6. ASSUME Restart PROVE IInv'
  BY <1>6, RestartIInv
<1>7. CASE UNCHANGED vars
  <2>1. CallsInv'
    BY <1>1, <1>7, CallsKept DEF vars, callVars
  <2> QED BY <1>1, <1>7, <2>1, RedisKept DEF vars, redis
<1> QED BY <1>2, <1>3, <1>4, <1>5, <1>6, <1>7 DEF Next

LEMMA Invariance == Spec => []IInv
BY InitIInv, IInvStep, PTL DEF Spec

\* The sorted set never holds more than the limit, and the calls and Redis hold
\* the values their types allow.
THEOREM TypeCorrect == Spec => []TypeOK
<1>1. IInv => TypeOK
  BY DEF IInv
<1> QED BY <1>1, Invariance, PTL

\* No window shorter than Window by the spread of the readings ever holds more
\* than Limit admitted calls of all replicas; with clocks that agree and requests
\* that arrive at once no window at all does.
THEOREM GlobalLimit == Spec => []WindowBound
<1>1. IInv => WindowBound
  BY DEF IInv
<1> QED BY <1>1, Invariance, PTL

------------------------------------------------------------------------------
(***************************************************************************)
(* What a denied caller is told.                                           *)
(***************************************************************************)

\* The caller waits for an entry that is in the log.
HintIsDue == hint # NoHint => \E e \in log : e.stamp + Window = hint

\* As soon as one entry has left the log there is room for another call.
LEMMA RoomAfterEviction ==
  ASSUME IInv, NEW c \in Calls, Execute(c),
         NEW e \in log, e \notin Retained(call[c].stamp)
  PROVE  hint' = NoHint
<1> DEFINE stamp == call[c].stamp
           kept == Retained(stamp)
<1>1. /\ kept \subseteq log /\ Used(kept) \in Nat
      /\ hint' = NoHint \/ ~(Used(kept) + Cost <= Limit)
  BY ScriptStep
<1>2. IsFiniteSet(log) /\ Used(log) <= Limit
  BY DEF IInv, TypeOK
<1>3. kept \in SUBSET (log \ {e}) /\ log \ {e} \in SUBSET log
  BY <1>1
<1>4. IsFiniteSet(log \ {e}) /\ Used(kept) <= Used(log \ {e})
  BY <1>2, <1>3, UsedGrows
<1>5. Used(log \ {e}) + Cost = Used(log)
  BY <1>2, UsedByOneLess
<1>6. Used(log \ {e}) \in Nat /\ Used(log) \in Nat
  BY <1>2, <1>4, UsedNat
<1> HIDE DEF kept
<1> QED BY <1>1, <1>2, <1>4, <1>5, <1>6, Quantities

\* A denial names the oldest entry that counted.
LEMMA DenialNamesOldest ==
  ASSUME IInv, Cost <= Limit, NEW c \in Calls, Execute(c), hint' # NoHint
  PROVE  /\ log' = Retained(call[c].stamp)
         /\ \E e \in log' : /\ hint' = e.stamp + Window
                            /\ \A f \in log' : e.stamp <= f.stamp
<1> DEFINE stamp == call[c].stamp
           kept == Retained(stamp)
<1>1. /\ kept \subseteq log
      /\ ~(Used(kept) + Cost <= Limit)
      /\ log' = kept /\ hint' = ComeBack(kept, stamp)
  BY ScriptStep
<1>2. \A f \in kept : f.stamp \in Nat
  BY <1>1 DEF IInv, TypeOK
<1>3. kept # {}
  BY <1>1, UsedByNone, Quantities
<1> HIDE DEF kept
<1>4. \E e \in kept : /\ ComeBack(kept, stamp) = e.stamp + Window
                      /\ \A f \in kept : e.stamp <= f.stamp
  BY <1>2, <1>3, Oldest
<1> USE DEF kept
<1> QED BY <1>1, <1>4

LEMMA HintIsDueStep ==
  ASSUME Cost <= Limit
  PROVE  IInv /\ HintIsDue /\ [Next]_vars => HintIsDue'
<1> SUFFICES ASSUME IInv, HintIsDue, [Next]_vars PROVE HintIsDue'
  OBVIOUS
<1>1. ASSUME NEW c \in Calls, Execute(c) PROVE HintIsDue'
  BY <1>1, DenialNamesOldest DEF HintIsDue
<1>2. ASSUME Restart PROVE HintIsDue'
  BY <1>2 DEF Restart, HintIsDue
<1>3. ASSUME UNCHANGED redis PROVE HintIsDue'
  BY <1>3 DEF redis, HintIsDue
<1> QED BY <1>1, <1>2, <1>3 DEF Next, Send, Travel, Tick, vars, redis

LEMMA HintInvariance ==
  ASSUME Cost <= Limit
  PROVE  Spec => [](IInv /\ HintIsDue)
<1>1. Init => HintIsDue
  BY DEF Init, HintIsDue
<1>2. IInv /\ HintIsDue /\ [Next]_vars => HintIsDue'
  BY HintIsDueStep
<1> QED BY <1>1, <1>2, Invariance, PTL DEF Spec

LEMMA ExecutesAfterHint ==
  ASSUME IInv, HintIsDue, NEW c \in Calls, Execute(c), hint # NoHint,
         call[c].stamp >= hint
  PROVE  hint' = NoHint
<1>1. PICK e \in log : e.stamp + Window = hint
  BY DEF HintIsDue
<1>2. e.stamp \in Nat /\ call[c].stamp \in Nat
  BY ScriptStep DEF IInv, TypeOK
<1>3. e \notin Retained(call[c].stamp)
  BY <1>1, <1>2, Quantities DEF Retained
<1> QED BY <1>1, <1>3, RoomAfterEviction

\* If the limit holds the cost of a call, a denied caller who waits RetryAfter
\* and is next is admitted.
THEOREM RetryAfterIsEnough ==
  ASSUME Cost <= Limit
  PROVE  Spec => RetryAfterSuffices
<1>1. IInv /\ HintIsDue /\ [Next]_vars =>
        [\A c \in Calls :
           Execute(c) /\ hint # NoHint /\ call[c].stamp >= hint => hint' = NoHint]_vars
  BY ExecutesAfterHint
<1> QED BY <1>1, HintInvariance, PTL DEF Spec, RetryAfterSuffices

\* If the limit holds the cost of a call, denied callers do not put off the moment
\* the next call will be admitted.
THEOREM DenialsAreFree ==
  ASSUME Cost <= Limit
  PROVE  Spec => DenialsDoNotProlong
<1>1. ASSUME IInv, HintIsDue, [Next]_vars, hint # NoHint, hint' # NoHint
      PROVE  hint' <= hint
  <2>1. PICK e \in log : e.stamp + Window = hint
    BY <1>1 DEF HintIsDue
  <2>2. ASSUME NEW c \in Calls, Execute(c) PROVE hint' <= hint
    <3>1. e \in Retained(call[c].stamp)
      BY <1>1, <2>2, RoomAfterEviction
    <3>2. PICK f \in log' : /\ hint' = f.stamp + Window
                            /\ \A g \in log' : f.stamp <= g.stamp
      BY <1>1, <2>2, DenialNamesOldest
    <3>3. f.stamp <= e.stamp /\ f \in log
      BY <1>1, <2>2, <3>1, <3>2, DenialNamesOldest, ScriptStep
    <3>4. f.stamp \in Nat /\ e.stamp \in Nat
      BY <1>1, <3>3 DEF IInv, TypeOK
    <3> QED BY <2>1, <3>2, <3>3, <3>4, Quantities
  <2>3. CASE hint' = hint
    <3>1. hint \in Int
      BY <1>1 DEF IInv, TypeOK
    <3> QED BY <2>3, <3>1
  <2>4. ASSUME Restart PROVE hint' <= hint
    BY <1>1, <2>4 DEF Restart
  <2> QED BY <1>1, <2>2, <2>3, <2>4 DEF Next, Send, Travel, Tick, vars, redis
<1>2. IInv /\ HintIsDue /\ [Next]_vars =>
        [hint # NoHint /\ hint' # NoHint => hint' <= hint]_vars
  BY <1>1
<1> QED BY <1>2, HintInvariance, PTL DEF Spec, DenialsDoNotProlong

==============================================================================
