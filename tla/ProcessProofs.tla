----------------------------- MODULE ProcessProofs ------------------------------
(***************************************************************************)
(* Theorems about module Process: what holds of the gateway process for    *)
(* any number of requests, reloads and handlers, and any limiter.          *)
(***************************************************************************)
EXTENDS Process, FiniteSetTheorems, NaturalsInduction, WellFoundedInduction, TLAPS

------------------------------------------------------------------------------
(***************************************************************************)
(* Reloading.                                                              *)
(***************************************************************************)

ConfigOf(g) == generation[g].config

\* A generation is a record, whose fields can be anything.
IsGeneration(r) ==
  r = [config |-> r.config, cell |-> r.cell, touched |-> r.touched, taken |-> r.taken]

WellFormed(gs) ==
  /\ DOMAIN gs = Generations
  /\ gs = [g \in Generations |-> gs[g]]
  /\ \A g \in Generations : IsGeneration(gs[g])

\* Versions grow on their way from the file through main to the active handler, and
\* nobody has signalled a version that the file did not have yet.
VersionsInOrder ==
  /\ configFile.version \in Nat /\ signalled \in Nat
  /\ reloading.config.version \in Nat /\ ConfigOf(active).version \in Nat
  /\ signalled <= configFile.version
  /\ ConfigOf(active).version <= configFile.version
  /\ reloading.stage = "building" =>
       /\ ConfigOf(active).version <= reloading.config.version
       /\ reloading.config.version <= configFile.version

Shape ==
  /\ active \in Generations
  /\ WellFormed(generation)
  /\ configFile = [version |-> configFile.version, valid |-> configFile.valid,
                   algorithm |-> configFile.algorithm]
  /\ reloading = [stage |-> reloading.stage, config |-> reloading.config]

ReloadInv == Running => Shape /\ VersionsInOrder /\ ReloadNotLost

\* Forgetting does not touch the active generation.
LEMMA ForgottenOK ==
  ASSUME NEW gs, WellFormed(gs), NEW requests, NEW current \in Generations
  PROVE  /\ Forgotten(gs, requests, current)[current] = gs[current]
         /\ WellFormed(Forgotten(gs, requests, current))
<1>1. IsGeneration(Unused)
  BY DEF IsGeneration, Unused
<1> QED
  BY <1>1 DEF Forgotten, WellFormed

LEMMA BuiltOK ==
  ASSUME NEW config
  PROVE  IsGeneration(Built(config)) /\ Built(config).config = config
BY DEF IsGeneration, Built, Unused

LEMMA ExceptOK ==
  ASSUME NEW gs, WellFormed(gs), NEW g \in Generations, NEW r, IsGeneration(r)
  PROVE  WellFormed([gs EXCEPT ![g] = r]) /\ [gs EXCEPT ![g] = r][g] = r
BY DEF WellFormed

\* Main takes over what it has read.
LEMMA SwapStep ==
  ASSUME ReloadInv, Swap
  PROVE  ReloadInv'
<1>1. Running /\ Shape /\ VersionsInOrder /\ ReloadNotLost
  BY DEF ReloadInv, Swap
<1>2. PICK g \in Generations :
        /\ active' = g
        /\ generation' = Forgotten([generation EXCEPT ![g] = Built(reloading.config)],
                                   request, g)
  BY DEF Swap
<1> DEFINE built == [generation EXCEPT ![g] = Built(reloading.config)]
<1>3. WellFormed(built) /\ built[g] = Built(reloading.config)
  BY <1>1, BuiltOK, ExceptOK DEF Shape
<1>4. generation' = Forgotten(built, request, g)
  BY <1>2
<1> HIDE DEF built
<1>5. WellFormed(generation') /\ generation'[g] = built[g]
  BY <1>3, <1>4, ForgottenOK
<1>6. ConfigOf(active)' = reloading.config
  BY <1>2, <1>3, <1>5, BuiltOK DEF ConfigOf
<1>7. /\ UNCHANGED <<configFile, signalled, sighup, server>>
      /\ reloading.stage = "building"
      /\ reloading' = [stage |-> "waiting", config |-> NoConfig]
  BY DEF Swap, stopping
<1>8. Shape'
  BY <1>1, <1>2, <1>5, <1>7 DEF Shape
<1>9. VersionsInOrder'
  BY <1>1, <1>6, <1>7 DEF VersionsInOrder, NoConfig
<1>10. ReloadNotLost'
  BY <1>1, <1>6, <1>7 DEF ReloadNotLost, VersionsInOrder, ConfigOf
<1> QED
  BY <1>8, <1>9, <1>10 DEF ReloadInv

\* The other steps of main and of those who write the file and signal.
LEMMA ReadingSteps ==
  ASSUME ReloadInv, EditConfig \/ Hangup \/ TakeSignal \/ ReadConfig
  PROVE  ReloadInv'
<1>1. Running /\ Shape /\ VersionsInOrder /\ ReloadNotLost
  BY DEF ReloadInv, EditConfig, Hangup, TakeSignal, ReadConfig
<1>2. CASE EditConfig
  <2>1. /\ configFile' \in [version : {configFile.version + 1}, valid : BOOLEAN,
                            algorithm : {Edited[configFile.algorithm]}]
        /\ UNCHANGED <<sighup, reloading, signalled, active, generation, server>>
    BY <1>2 DEF EditConfig, limiting, stopping
  <2>2. Shape' /\ VersionsInOrder'
    BY <1>1, <2>1 DEF Shape, VersionsInOrder, ConfigOf, WellFormed, IsGeneration
  <2>3. ReloadNotLost'
    BY <1>1, <2>1 DEF ReloadNotLost, Running
  <2> QED
    BY <2>2, <2>3 DEF ReloadInv
<1>3. CASE Hangup
  <2>1. /\ sighup' = TRUE /\ signalled' = configFile.version
        /\ UNCHANGED <<configFile, reloading, active, generation, server>>
    BY <1>3 DEF Hangup, limiting, stopping
  <2> QED
    BY <1>1, <2>1 DEF ReloadInv, ReloadNotLost, Shape, VersionsInOrder, ConfigOf,
                      WellFormed, IsGeneration
<1>4. CASE TakeSignal
  <2>1. /\ reloading.stage = "waiting" /\ sighup' = FALSE
        /\ reloading' = [reloading EXCEPT !.stage = "reading"]
        /\ UNCHANGED <<configFile, signalled, active, generation, server>>
    BY <1>4 DEF TakeSignal, limiting, stopping
  <2>2. reloading' = [stage |-> "reading", config |-> reloading.config]
    BY <1>1, <2>1 DEF Shape
  <2> QED
    BY <1>1, <2>1, <2>2 DEF ReloadInv, ReloadNotLost, Shape, VersionsInOrder, ConfigOf,
                            WellFormed, IsGeneration
<1>5. CASE ReadConfig
  <2>1. CASE Exit("crashed")
    BY <2>1 DEF Exit, Ended, Running, ReloadInv
  <2>2. CASE ~Exit("crashed")
    <3>1. /\ reloading' = [stage |-> "building", config |-> configFile]
          /\ UNCHANGED <<configFile, sighup, signalled, active, generation, server>>
      BY <1>5, <2>2 DEF ReadConfig, limiting, stopping
    <3> QED
      BY <1>1, <3>1 DEF ReloadInv, ReloadNotLost, Shape, VersionsInOrder, ConfigOf,
                        WellFormed, IsGeneration
  <2> QED
    BY <2>1, <2>2
<1> QED
  BY <1>2, <1>3, <1>4, <1>5

\* hs differs from gs in maps, ages and admissions only.
SameConfigs(gs, hs) == WellFormed(hs) /\ \A k \in Generations : hs[k].config = gs[k].config

\* A step that leaves main and every handler's configuration alone.
LEMMA SameHandlers ==
  ASSUME ReloadInv, Running, UNCHANGED <<reload, active>>,
         WellFormed(generation'), ConfigOf(active)' = ConfigOf(active)
  PROVE  ReloadInv'
BY DEF ReloadInv, Shape, VersionsInOrder, ReloadNotLost, ConfigOf, reload

LEMMA SameConfigsStep ==
  ASSUME ReloadInv, Running, UNCHANGED <<reload, active>>,
         SameConfigs(generation, generation')
  PROVE  ReloadInv'
<1>1. active \in Generations /\ active' = active
  BY DEF ReloadInv, Shape
<1>2. WellFormed(generation') /\ ConfigOf(active)' = ConfigOf(active)
  BY <1>1 DEF SameConfigs, ConfigOf
<1> QED
  BY <1>2, SameHandlers

LEMMA OneChanged ==
  ASSUME NEW gs, WellFormed(gs), NEW g, NEW r, NEW hs, hs = [gs EXCEPT ![g] = r],
         g \in Generations => IsGeneration(r) /\ r.config = gs[g].config
  PROVE  SameConfigs(gs, hs)
<1>1. CASE g \in Generations
  BY <1>1 DEF SameConfigs, WellFormed
<1>2. CASE g \notin Generations
  BY <1>2 DEF SameConfigs, WellFormed
<1> QED
  BY <1>1, <1>2

\* Another map, and another age.
LEMMA MapChanged ==
  ASSUME NEW gs, WellFormed(gs), NEW g, NEW x, NEW t, NEW hs,
         hs = [gs EXCEPT ![g].cell = x, ![g].touched = t]
  PROVE  SameConfigs(gs, hs)
<1> DEFINE q == [gs[g] EXCEPT !.cell = x]
           r == [q EXCEPT !.touched = t]
<1>1. g \in Generations => IsGeneration(r) /\ r.config = gs[g].config
  <2> SUFFICES ASSUME g \in Generations PROVE IsGeneration(r) /\ r.config = gs[g].config
    OBVIOUS
  <2>1. PICK a, b, c, d : gs[g] = [config |-> a, cell |-> b, touched |-> c, taken |-> d]
    BY DEF WellFormed, IsGeneration
  <2>2. q = [config |-> a, cell |-> x, touched |-> c, taken |-> d]
    BY <2>1
  <2> HIDE DEF q
  <2>3. r = [config |-> a, cell |-> x, touched |-> t, taken |-> d]
    BY <2>2
  <2> QED
    BY <2>1, <2>3 DEF IsGeneration
<1>2. hs = [gs EXCEPT ![g] = r]
  BY DEF WellFormed
<1> HIDE DEF r
<1> QED
  BY <1>1, <1>2, OneChanged

LEMMA AgeChanged ==
  ASSUME NEW gs, WellFormed(gs), NEW g, NEW t, NEW hs,
         hs = [gs EXCEPT ![g].touched = t]
  PROVE  SameConfigs(gs, hs)
<1> DEFINE r == [gs[g] EXCEPT !.touched = t]
<1>1. g \in Generations => IsGeneration(r) /\ r.config = gs[g].config
  BY DEF WellFormed, IsGeneration
<1>2. hs = [gs EXCEPT ![g] = r]
  OBVIOUS
<1> HIDE DEF r
<1> QED
  BY <1>1, <1>2, OneChanged

\* Another record of admissions.
LEMMA TakenChanged ==
  ASSUME NEW gs, WellFormed(gs), NEW g, NEW n, NEW hs,
         hs = [gs EXCEPT ![g].taken[0] = n]
  PROVE  SameConfigs(gs, hs)
<1> DEFINE r == [gs[g] EXCEPT !.taken = [@ EXCEPT ![0] = n]]
<1>1. g \in Generations => IsGeneration(r) /\ r.config = gs[g].config
  BY DEF WellFormed, IsGeneration
<1>2. hs = [gs EXCEPT ![g] = r]
  OBVIOUS
<1> HIDE DEF r
<1> QED
  BY <1>1, <1>2, OneChanged

\* Requests leave main and the configurations alone.
LEMMA ServingSteps ==
  ASSUME ReloadInv, NEW c \in Calls,
         Arrive(c) \/ GetOrInsert(c) \/ Decide(c) \/ Done(c)
  PROVE  ReloadInv'
<1>1. Running /\ UNCHANGED <<reload, active>>
  BY DEF Arrive, GetOrInsert, Decide, Done, Running, Ended
<1>2. Shape
  BY <1>1 DEF ReloadInv
<1>3. CASE Arrive(c)
  <2>1. UNCHANGED generation
    BY <1>3 DEF Arrive, limiting
  <2> QED
    BY <1>1, <1>2, <2>1, SameHandlers DEF Shape, ConfigOf
<1>4. CASE GetOrInsert(c)
  <2> DEFINE g == request[c].generation
  <2>1. CASE UNCHANGED generation
    BY <1>1, <1>2, <2>1, SameHandlers DEF Shape, ConfigOf
  <2>2. CASE ~UNCHANGED generation
    <3>1. \/ generation' = [generation EXCEPT ![g].touched = 0]
          \/ \E x \in Cells :
               generation' = [generation EXCEPT ![g].cell = x, ![g].touched = 0]
      BY <1>4, <2>2 DEF GetOrInsert, limiting
    <3>2. SameConfigs(generation, generation')
      BY <1>2, <3>1, AgeChanged, MapChanged DEF Shape
    <3> QED
      BY <1>1, <3>2, SameConfigsStep
  <2> QED
    BY <2>1, <2>2
<1>5. CASE Decide(c)
  <2> DEFINE g == request[c].generation
  <2>1. PICK n : generation' = [generation EXCEPT ![g].taken[0] = n]
    BY <1>5 DEF Decide
  <2>2. SameConfigs(generation, generation')
    BY <1>2, <2>1, TakenChanged DEF Shape
  <2> QED
    BY <1>1, <2>2, SameConfigsStep
<1>6. CASE Done(c)
  <2>1. generation' = Forgotten(generation, request', active)
    BY <1>6 DEF Done
  <2>2. WellFormed(generation') /\ generation'[active] = generation[active]
    BY <1>2, <2>1, ForgottenOK DEF Shape
  <2> QED
    BY <1>1, <2>2, SameHandlers DEF ConfigOf
<1> QED
  BY <1>3, <1>4, <1>5, <1>6

\* So does the janitor.
LEMMA SweepStep ==
  ASSUME ReloadInv, NEW h \in Generations, Sweep(h)
  PROVE  ReloadInv'
<1>1. Running /\ Shape /\ UNCHANGED <<reload, active>>
  BY DEF Sweep, ReloadInv
<1>2. generation' = [generation EXCEPT ![h].cell = None, ![h].touched = 0]
  BY DEF Sweep
<1>3. SameConfigs(generation, generation')
  BY <1>1, <1>2, MapChanged DEF Shape
<1> QED
  BY <1>1, <1>3, SameConfigsStep

\* And time.
LEMMA TimeStep ==
  ASSUME ReloadInv, Tick
  PROVE  ReloadInv'
<1>1. Running /\ Shape /\ UNCHANGED <<reload, active>>
  BY DEF Tick, ReloadInv
<1>2. generation' = [g \in Generations |->
                      [generation[g] EXCEPT
                         !.taken = Aged(@),
                         !.touched = IF generation[g].cell = None THEN 0
                                     ELSE Min({TTL + 1, @ + 1})]]
  BY DEF Tick
<1>3. SameConfigs(generation, generation')
  <2>1. ASSUME NEW g \in Generations
        PROVE  IsGeneration(generation'[g]) /\ generation'[g].config = generation[g].config
    <3>1. PICK t, n : generation'[g] = [[generation[g] EXCEPT !.taken = n] EXCEPT !.touched = t]
      BY <1>2
    <3>2. generation[g] = [config |-> generation[g].config, cell |-> generation[g].cell,
                           touched |-> generation[g].touched, taken |-> generation[g].taken]
      BY <1>1 DEF Shape, WellFormed, IsGeneration
    <3>3. generation'[g] = [config |-> generation[g].config, cell |-> generation[g].cell,
                            touched |-> t, taken |-> n]
      BY <3>1, <3>2
    <3> QED
      BY <3>3 DEF IsGeneration
  <2>2. DOMAIN generation' = Generations /\ generation' = [g \in Generations |-> generation'[g]]
    BY <1>2
  <2> QED
    BY <2>1, <2>2 DEF SameConfigs, WellFormed
<1> QED
  BY <1>1, <1>3, SameConfigsStep

\* And the server, as long as it runs.
LEMMA ServerSteps ==
  ASSUME ReloadInv, ScrapeEnds \/ Terminate \/ ListenerFails \/ MetricsClosed \/ MainClosed
  PROVE  ReloadInv'
<1>1. CASE ListenerFails \/ MainClosed
  BY <1>1 DEF ListenerFails, MainClosed, Exit, ReloadInv, Running, Ended
<1>2. CASE ScrapeEnds \/ Terminate \/ MetricsClosed
  <2>1. Running /\ UNCHANGED <<reload, active, generation>>
    BY <1>2 DEF ScrapeEnds, Terminate, MetricsClosed, Running, Ended, limiting
  <2> QED
    BY <2>1, SameHandlers DEF ReloadInv, Shape, ConfigOf
<1> QED
  BY <1>1, <1>2

\* main.go: whenever signals and edits of the file come, also during a reload, the file
\* as it was at the last signal is in effect or on its way, for any number of versions.
THEOREM ReloadsKept == Spec => []ReloadNotLost
<1>1. Init => ReloadInv
  <2> SUFFICES ASSUME Init PROVE ReloadInv
    OBVIOUS
  <2>1. Shape
    BY BuiltOK DEF Init, Shape, WellFormed, IsGeneration, NoConfig, Unused
  <2>2. ConfigOf(active) = configFile /\ configFile.version = 1
    BY BuiltOK DEF Init, ConfigOf
  <2> QED
    <3>1. signalled = 1 /\ reloading.stage = "waiting" /\ reloading.config.version = 0
      BY DEF Init, NoConfig
    <3>2. VersionsInOrder /\ ReloadNotLost
      BY <2>2, <3>1 DEF VersionsInOrder, ReloadNotLost, ConfigOf
    <3> QED
      BY <2>1, <3>2 DEF ReloadInv
<1>2. ReloadInv /\ [Next]_vars => ReloadInv'
  <2> SUFFICES ASSUME ReloadInv, [Next]_vars PROVE ReloadInv'
    OBVIOUS
  <2>1. CASE UNCHANGED vars
    BY <2>1 DEF vars, reload, limiting, stopping, ReloadInv, Shape, VersionsInOrder,
                ReloadNotLost, ConfigOf, Running, WellFormed, IsGeneration
  <2>2. ASSUME NEW c \in Calls, Arrive(c) \/ GetOrInsert(c) \/ Decide(c) \/ Done(c)
        PROVE  ReloadInv'
    BY <2>2, ServingSteps
  <2>3. ASSUME NEW h \in Generations, Sweep(h)
        PROVE  ReloadInv'
    BY <2>3, SweepStep
  <2> QED
    BY <2>1, <2>2, <2>3, ReadingSteps, SwapStep, ServerSteps, TimeStep DEF Next
<1>3. ReloadInv => ReloadNotLost
  BY DEF ReloadInv, ReloadNotLost
<1> QED
  BY <1>1, <1>2, <1>3, PTL DEF Spec

------------------------------------------------------------------------------
(***************************************************************************)
(* Arithmetic.                                                             *)
(***************************************************************************)

LEMMA LimiterQuantities ==
  /\ Limit \in Nat /\ Limit >= 1 /\ Window \in Nat /\ Window >= 1
  /\ Capacity \in Nat /\ Capacity >= 1 /\ Cost \in Nat /\ Cost >= 1
  /\ Full \in Nat /\ Charge \in Nat /\ Charge = Window * Cost
BY LocalAssumption DEF Full, Charge

LEMMA ProcessQuantities ==
  TTL \in Nat /\ MaxPause \in Nat /\ Grace \in Nat /\ MaxVersion \in Nat /\ MaxVersion >= 1
BY ProcessAssumption

LEMMA MinOf ==
  ASSUME NEW a \in Int, NEW b \in Int
  PROVE  Min({a, b}) = IF a <= b THEN a ELSE b
BY DEF Min

LEMMA MaxOf ==
  ASSUME NEW a \in Int, NEW b \in Int
  PROVE  Max({a, b}) = IF a <= b THEN b ELSE a
BY DEF Max

LEMMA Times ==
  ASSUME NEW m \in Nat, NEW a \in Int, NEW b \in Int
  PROVE  /\ m * a \in Int /\ m * (a + b) = m * a + m * b
         /\ a <= b => m * a <= m * b
<1>1. m * a \in Int /\ m * b \in Int /\ m * (a + b) = m * a + m * b
  OBVIOUS
<1>2. ASSUME a <= b
      PROVE  m * a <= m * b
  <2>1. b - a \in Nat
    BY <1>2
  <2>2. m * (b - a) >= 0
    BY <2>1
  <2>3. m * (b - a) = m * b - m * a
    OBVIOUS
  <2> QED BY <1>1, <2>2, <2>3
<1> QED BY <1>1, <1>2

\* What holds at 0 and is passed on holds of every number.
LEMMA Counting ==
  ASSUME NEW T, 0 \in T, \A n \in Nat : n \in T => n + 1 \in T
  PROVE  Nat \subseteq T
<1> DEFINE U == Nat \ T
           below == {p \in Nat \X Nat : p[1] < p[2]}
<1> SUFFICES ASSUME U # {} PROVE FALSE
  OBVIOUS
<1>1. OpToRel(<, Nat) = below
  BY DEF OpToRel
<1>2. IsWellFoundedOn(below, Nat)
  BY <1>1, NatLessThanWellFounded
<1>3. U \subseteq Nat /\ U # {}
  OBVIOUS
<1> HIDE DEF below, U
<1>4. PICK n \in U : \A u \in U : <<u, n>> \notin below
  BY <1>2, <1>3, WFMin
<1>5. n \in Nat /\ n \notin T
  BY DEF U
<1>6. n # 0
  BY <1>5
<1>7. n - 1 \in Nat /\ n - 1 < n
  BY <1>5, <1>6
<1>8. n - 1 \notin U
  <2>1. <<n - 1, n>> \in below
    BY <1>5, <1>7 DEF below
  <2> QED BY <1>4, <2>1
<1>9. n - 1 \in T
  BY <1>7, <1>8 DEF U
<1> QED BY <1>5, <1>7, <1>9

------------------------------------------------------------------------------
(***************************************************************************)
(* Counting what is younger than k ticks.                                  *)
(***************************************************************************)
Younger(log, k) == Cardinality(Units(log, 0 .. k - 1))

Logs == [Ages -> Nat]

LEMMA YoungerNext ==
  ASSUME NEW log \in Logs, NEW k \in Nat, k < Window,
         IsFiniteSet(Units(log, 0 .. k - 1))
  PROVE  /\ IsFiniteSet(Units(log, 0 .. k))
         /\ Younger(log, k + 1) = Younger(log, k) + log[k]
<1> DEFINE old == Units(log, 0 .. k - 1)
           new == {k} \X (1 .. log[k])
<1>1. k \in Ages /\ log[k] \in Nat
  BY LimiterQuantities DEF Logs, Ages
<1>2. Units(log, 0 .. k) = old \cup new
  <2>1. 0 .. k = (0 .. k - 1) \cup {k}
    OBVIOUS
  <2> QED BY <2>1 DEF Units
<1>3. IsFiniteSet(new) /\ Cardinality(new) = log[k]
  <2>1. IsFiniteSet({k}) /\ Cardinality({k}) = 1
    BY FS_Singleton
  <2> DEFINE n == log[k]
  <2>2. n \in Nat
    BY <1>1
  <2> HIDE DEF n
  <2>3. IsFiniteSet(1 .. n) /\ Cardinality(1 .. n) = n
    <3>1. Cardinality(1 .. n) = IF 1 > n THEN 0 ELSE n - 1 + 1
      BY <2>2, FS_Interval
    <3>2. IsFiniteSet(1 .. n)
      BY <2>2, FS_Interval
    <3> QED BY <2>2, <3>1, <3>2
  <2>4. /\ IsFiniteSet({k} \X (1 .. n))
        /\ Cardinality({k} \X (1 .. n)) = Cardinality({k}) * Cardinality(1 .. n)
    <3> DEFINE S == {k}
               T == 1 .. n
    <3>1. IsFiniteSet(S) /\ IsFiniteSet(T)
      BY <2>1, <2>3
    <3> HIDE DEF S, T
    <3>2. IsFiniteSet(S \X T) /\ Cardinality(S \X T) = Cardinality(S) * Cardinality(T)
      BY <3>1, FS_Product
    <3> QED BY <3>2 DEF S, T
  <2>5. Cardinality({k}) * Cardinality(1 .. n) = n
    BY <2>1, <2>2, <2>3
  <2> QED BY <2>4, <2>5 DEF n
<1>4. old \cap new = {}
  <2>1. \A p \in old : p[1] \in 0 .. k - 1
    BY DEF Units
  <2>2. \A p \in new : p[1] = k
    OBVIOUS
  <2> QED BY <2>1, <2>2
<1>5. Cardinality(old \cap new) = 0
  BY <1>4, FS_EmptySet
<1>6. Cardinality(old) \in Nat
  BY FS_CardinalityType
<1> HIDE DEF new
<1>7. /\ IsFiniteSet(old \cup new)
      /\ Cardinality(old \cup new) =
           Cardinality(old) + Cardinality(new) - Cardinality(old \cap new)
  BY <1>3, FS_Union
<1>8. /\ Younger(log, k + 1) = Cardinality(old \cup new)
      /\ Younger(log, k) = Cardinality(old)
  <2>1. (k + 1) - 1 = k
    OBVIOUS
  <2>2. Younger(log, k + 1) = Cardinality(Units(log, 0 .. (k + 1) - 1))
    BY DEF Younger
  <2>3. Younger(log, k + 1) = Cardinality(Units(log, 0 .. k))
    BY <2>1, <2>2
  <2> QED BY <1>2, <2>3 DEF Younger
<1>9. IsFiniteSet(Units(log, 0 .. k))
  BY <1>2, <1>7
<1> HIDE DEF old
<1> QED BY <1>1, <1>3, <1>5, <1>6, <1>7, <1>8, <1>9

LEMMA YoungerFinite ==
  ASSUME NEW log \in Logs, NEW k \in 0 .. Window
  PROVE  IsFiniteSet(Units(log, 0 .. k - 1))
<1> DEFINE T == {n \in Nat : n <= Window => IsFiniteSet(Units(log, 0 .. n - 1))}
<1>1. 0 \in T
  <2>1. Units(log, 0 .. -1) = {}
    BY DEF Units
  <2> QED BY <2>1, FS_EmptySet
<1>2. ASSUME NEW n \in Nat, n \in T
      PROVE  n + 1 \in T
  <2> SUFFICES ASSUME n + 1 <= Window
               PROVE  IsFiniteSet(Units(log, 0 .. n + 1 - 1))
    OBVIOUS
  <2>1. n < Window /\ IsFiniteSet(Units(log, 0 .. n - 1)) /\ n + 1 - 1 = n
    BY <1>2, LimiterQuantities
  <2>2. IsFiniteSet(Units(log, 0 .. n))
    BY <2>1, YoungerNext
  <2> QED BY <2>1, <2>2
<1>3. Nat \subseteq T
  <2> HIDE DEF T
  <2> QED BY <1>1, <1>2, Counting
<1> QED BY <1>3, LimiterQuantities

LEMMA YoungerZero ==
  ASSUME NEW log
  PROVE  Younger(log, 0) = 0
<1>1. Units(log, 0 .. -1) = {}
  BY DEF Units
<1> QED BY <1>1, FS_EmptySet DEF Younger

LEMMA YoungerStep ==
  ASSUME NEW log \in Logs, NEW k \in 0 .. Window - 1
  PROVE  /\ Younger(log, k + 1) = Younger(log, k) + log[k]
         /\ Younger(log, k) \in Nat /\ Younger(log, k + 1) \in Nat
         /\ log[k] \in Nat
<1>1. k \in Nat /\ k < Window /\ k \in 0 .. Window /\ k \in Ages
  BY LimiterQuantities DEF Ages
<1>2. IsFiniteSet(Units(log, 0 .. k - 1))
  BY <1>1, YoungerFinite
<1>3. Younger(log, k + 1) = Younger(log, k) + log[k]
  BY <1>1, <1>2, YoungerNext
<1>4. Younger(log, k) \in Nat
  BY <1>2, FS_CardinalityType DEF Younger
<1>5. log[k] \in Nat
  BY <1>1 DEF Logs
<1> QED BY <1>3, <1>4, <1>5

LEMMA YoungerNat ==
  ASSUME NEW log \in Logs, NEW k \in 0 .. Window
  PROVE  Younger(log, k) \in Nat
BY YoungerFinite, FS_CardinalityType DEF Younger

LEMMA SumIsYounger ==
  ASSUME NEW log \in Logs
  PROVE  Sum(log) = Younger(log, Window)
BY DEF Sum, Younger, Ages, Logs

\* Less is younger than less.
LEMMA YoungerMonotone ==
  ASSUME NEW log \in Logs, NEW j \in 0 .. Window, NEW k \in 0 .. Window, j <= k
  PROVE  Younger(log, j) <= Younger(log, k)
<1> DEFINE T == {n \in Nat : j + n <= Window => Younger(log, j) <= Younger(log, j + n)}
<1>1. 0 \in T
  BY YoungerNat
<1>2. ASSUME NEW n \in Nat, n \in T
      PROVE  n + 1 \in T
  <2> SUFFICES ASSUME j + n + 1 <= Window
               PROVE  Younger(log, j) <= Younger(log, j + n + 1)
    OBVIOUS
  <2>1. j + n \in 0 .. Window - 1
    BY LimiterQuantities
  <2>2. Younger(log, j) <= Younger(log, j + n)
    BY <1>2, <2>1, LimiterQuantities
  <2>3. /\ Younger(log, j + n + 1) = Younger(log, j + n) + log[j + n]
        /\ Younger(log, j + n) \in Nat /\ log[j + n] \in Nat
    BY <2>1, YoungerStep
  <2> QED BY <2>2, <2>3, YoungerNat
<1>3. Nat \subseteq T
  <2> HIDE DEF T
  <2> QED BY <1>1, <1>2, Counting
<1>4. k - j \in Nat /\ j + (k - j) = k
  BY LimiterQuantities
<1> QED BY <1>3, <1>4, LimiterQuantities

\* A tick later everything is one tick older.
LEMMA YoungerAged ==
  ASSUME NEW log \in Logs, NEW k \in 1 .. Window
  PROVE  Aged(log) \in Logs /\ Younger(Aged(log), k) = Younger(log, k - 1)
<1>1. Aged(log) \in Logs
  BY LimiterQuantities DEF Logs, Aged, Ages
<1> DEFINE T == {n \in Nat : n + 1 <= Window => Younger(Aged(log), n + 1) = Younger(log, n)}
<1>2. 0 \in T
  <2>1. 0 \in 0 .. Window - 1 /\ 0 \in Ages
    BY LimiterQuantities DEF Ages
  <2>2. Aged(log)[0] = 0
    BY <2>1 DEF Aged
  <2> QED BY <1>1, <2>1, <2>2, YoungerStep, YoungerZero
<1>3. ASSUME NEW n \in Nat, n \in T
      PROVE  n + 1 \in T
  <2> SUFFICES ASSUME n + 1 + 1 <= Window
               PROVE  Younger(Aged(log), n + 1 + 1) = Younger(log, n + 1)
    OBVIOUS
  <2>1. n \in 0 .. Window - 1 /\ n + 1 \in 0 .. Window - 1 /\ n + 1 \in Ages
    BY LimiterQuantities DEF Ages
  <2>2. Aged(log)[n + 1] = log[n]
    BY <2>1 DEF Aged
  <2>3. Younger(Aged(log), n + 1 + 1) = Younger(Aged(log), n + 1) + log[n]
    BY <1>1, <2>1, <2>2, YoungerStep
  <2>4. Younger(log, n + 1) = Younger(log, n) + log[n]
    BY <2>1, YoungerStep
  <2> QED BY <1>3, <2>3, <2>4, LimiterQuantities
<1>4. Nat \subseteq T
  <2> HIDE DEF T
  <2> QED BY <1>2, <1>3, Counting
<1>5. k - 1 \in Nat /\ (k - 1) + 1 = k /\ k <= Window
  BY LimiterQuantities
<1> QED BY <1>1, <1>4, <1>5

\* What is admitted now has age 0.
LEMMA YoungerAdded ==
  ASSUME NEW log \in Logs, NEW m \in Nat, NEW more, more = [log EXCEPT ![0] = log[0] + m],
         NEW k \in 1 .. Window
  PROVE  more \in Logs /\ Younger(more, k) = Younger(log, k) + m
<1>1. 0 \in Ages /\ 0 \in 0 .. Window - 1
  BY LimiterQuantities DEF Ages
<1>2. more \in Logs
  BY <1>1 DEF Logs
<1> DEFINE T == {n \in Nat : n + 1 <= Window => Younger(more, n + 1) = Younger(log, n + 1) + m}
<1>3. 0 \in T
  <2>1. more[0] = log[0] + m
    BY <1>1 DEF Logs
  <2>2. /\ Younger(more, 0 + 1) = Younger(more, 0) + more[0]
        /\ Younger(log, 0 + 1) = Younger(log, 0) + log[0] /\ log[0] \in Nat
    BY <1>1, <1>2, YoungerStep
  <2> QED BY <2>1, <2>2, YoungerZero
<1>4. ASSUME NEW n \in Nat, n \in T
      PROVE  n + 1 \in T
  <2> SUFFICES ASSUME n + 1 + 1 <= Window
               PROVE  Younger(more, n + 1 + 1) = Younger(log, n + 1 + 1) + m
    OBVIOUS
  <2>1. n + 1 \in 0 .. Window - 1 /\ n + 1 \in Ages
    BY LimiterQuantities DEF Ages
  <2>2. more[n + 1] = log[n + 1]
    BY <2>1 DEF Logs
  <2>3. Younger(more, n + 1 + 1) = Younger(more, n + 1) + log[n + 1]
    BY <1>2, <2>1, <2>2, YoungerStep
  <2>4. /\ Younger(log, n + 1 + 1) = Younger(log, n + 1) + log[n + 1]
        /\ Younger(log, n + 1) \in Nat /\ log[n + 1] \in Nat
    BY <2>1, YoungerStep
  <2> QED BY <1>4, <2>3, <2>4, LimiterQuantities
<1>5. Nat \subseteq T
  <2> HIDE DEF T
  <2> QED BY <1>3, <1>4, Counting
<1>6. k - 1 \in Nat /\ (k - 1) + 1 = k /\ k <= Window
  BY LimiterQuantities
<1> QED BY <1>2, <1>5, <1>6

Nothing == [a \in Ages |-> 0]

LEMMA YoungerNothing ==
  ASSUME NEW k \in 0 .. Window
  PROVE  Nothing \in Logs /\ Younger(Nothing, k) = 0
<1>1. Nothing \in Logs
  BY DEF Nothing, Logs
<1> DEFINE T == {n \in Nat : n <= Window => Younger(Nothing, n) = 0}
<1>2. 0 \in T
  BY YoungerZero
<1>3. ASSUME NEW n \in Nat, n \in T
      PROVE  n + 1 \in T
  <2> SUFFICES ASSUME n + 1 <= Window
               PROVE  Younger(Nothing, n + 1) = 0
    OBVIOUS
  <2>1. n \in 0 .. Window - 1 /\ n \in Ages
    BY LimiterQuantities DEF Ages
  <2>2. Nothing[n] = 0
    BY <2>1 DEF Nothing
  <2> QED BY <1>1, <1>3, <2>1, <2>2, YoungerStep, LimiterQuantities
<1>4. Nat \subseteq T
  <2> HIDE DEF T
  <2> QED BY <1>2, <1>3, Counting
<1> QED BY <1>1, <1>4, LimiterQuantities

------------------------------------------------------------------------------
(***************************************************************************)
(* Buckets: level is what could be taken now, in units of 1/Window.        *)
(***************************************************************************)

\* Whatever was taken in the last k ticks was there k ticks ago or was earned since.
Earned(level, log) ==
  /\ level \in 0 .. Full
  /\ \A k \in 1 .. Window :
       level + Window * Younger(log, k) <= Full + (k - 1) * Limit

LEMMA FullEarned == Earned(Full, Nothing)
<1>1. Full \in 0 .. Full
  BY LimiterQuantities
<1>2. ASSUME NEW k \in 1 .. Window
      PROVE  Full + Window * Younger(Nothing, k) <= Full + (k - 1) * Limit
  <2>1. Younger(Nothing, k) = 0
    BY YoungerNothing, LimiterQuantities
  <2>2. Window * 0 = 0
    BY LimiterQuantities
  <2>3. k - 1 \in Nat /\ (k - 1) * Limit \in Nat
    BY LimiterQuantities
  <2> QED BY <2>1, <2>2, <2>3, LimiterQuantities
<1> QED BY <1>1, <1>2 DEF Earned

LEMMA EarnedSpent ==
  ASSUME NEW log \in Logs, NEW level, Earned(level, log), Charge <= level,
         NEW more, more = [log EXCEPT ![0] = log[0] + Cost]
  PROVE  Earned(level - Charge, more)
<1>1. level - Charge \in 0 .. Full
  BY LimiterQuantities DEF Earned
<1>2. ASSUME NEW k \in 1 .. Window
      PROVE  (level - Charge) + Window * Younger(more, k) <= Full + (k - 1) * Limit
  <2>1. Younger(more, k) = Younger(log, k) + Cost
    BY YoungerAdded, LimiterQuantities
  <2>2. Younger(log, k) \in Nat
    BY YoungerNat, LimiterQuantities
  <2>3. /\ Window * (Younger(log, k) + Cost) = Window * Younger(log, k) + Charge
        /\ Window * Younger(log, k) \in Int
    BY <2>2, Times, LimiterQuantities
  <2>4. level + Window * Younger(log, k) <= Full + (k - 1) * Limit
    BY DEF Earned
  <2>5. (k - 1) * Limit \in Int /\ level \in Int
    BY LimiterQuantities DEF Earned
  <2> QED BY <2>1, <2>3, <2>4, <2>5, LimiterQuantities
<1> QED BY <1>1, <1>2 DEF Earned

LEMMA EarnedLater ==
  ASSUME NEW log \in Logs, NEW level, Earned(level, log),
         NEW later \in 0 .. Full, later <= level + Limit
  PROVE  Earned(later, Aged(log))
<1>1. ASSUME NEW k \in 1 .. Window
      PROVE  later + Window * Younger(Aged(log), k) <= Full + (k - 1) * Limit
  <2>1. Younger(Aged(log), k) = Younger(log, k - 1)
    BY YoungerAged
  <2>2. CASE k = 1
    <3>1. Younger(Aged(log), k) = 0
      BY <2>1, <2>2, YoungerZero
    <3>2. Window * 0 = 0 /\ (k - 1) * Limit = 0
      BY <2>2, LimiterQuantities
    <3> QED BY <3>1, <3>2, LimiterQuantities
  <2>3. CASE k # 1
    <3> DEFINE j == k - 1
    <3>1. j \in 1 .. Window
      BY <2>3, LimiterQuantities
    <3>2. level + Window * Younger(log, j) <= Full + (j - 1) * Limit
      BY <3>1 DEF Earned
    <3>3. j * Limit = (j - 1) * Limit + Limit /\ (j - 1) * Limit \in Int
      <4>1. j - 1 \in Int /\ Limit * ((j - 1) + 1) = Limit * (j - 1) + Limit * 1
        BY <3>1, Times, LimiterQuantities
      <4> QED BY <3>1, <4>1, LimiterQuantities
    <3>4. Younger(log, j) \in Nat
      BY <3>1, YoungerNat, LimiterQuantities
    <3>5. Window * Younger(log, j) \in Int /\ level \in Int
      BY <3>4, Times, LimiterQuantities DEF Earned
    <3> HIDE DEF j
    <3>6. later + Window * Younger(log, j) <= Full + j * Limit
      BY <3>2, <3>3, <3>5, LimiterQuantities
    <3> QED BY <2>1, <3>6 DEF j
  <2> QED BY <2>2, <2>3
<1> QED BY <1>1 DEF Earned

LEMMA DivisionBound ==
  ASSUME NEW n \in Nat, NEW m \in Nat, Window * n <= m
  PROVE  n <= m \div Window
<1> DEFINE q == m \div Window
<1>1. q \in Int /\ m < Window * (q + 1)
  BY LimiterQuantities
<1>2. ASSUME q + 1 <= n
      PROVE  FALSE
  <2>1. Window * (q + 1) <= Window * n
    BY <1>1, <1>2, Times, LimiterQuantities
  <2>2. Window * (q + 1) \in Int /\ Window * n \in Int
    BY <1>1, Times, LimiterQuantities
  <2> HIDE DEF q
  <2> QED BY <1>1, <2>1, <2>2
<1> HIDE DEF q
<1>3. n <= q
  BY <1>1, <1>2
<1> QED BY <1>3 DEF q

LEMMA EarnedMost ==
  ASSUME NEW log \in Logs, NEW level, Earned(level, log)
  PROVE  Sum(log) <= (Full + (Window - 1) * Limit) \div Window
<1>1. Younger(log, Window) \in Nat
  BY YoungerNat, LimiterQuantities
<1>2. level + Window * Younger(log, Window) <= Full + (Window - 1) * Limit
  BY LimiterQuantities DEF Earned
<1>3. level \in Nat /\ Window * Younger(log, Window) \in Int
  BY <1>1, Times, LimiterQuantities DEF Earned
<1>4. (Window - 1) * Limit \in Nat
  BY LimiterQuantities
<1>5. Full + (Window - 1) * Limit \in Nat
  BY <1>4, LimiterQuantities
<1>6. Window * Younger(log, Window) <= Full + (Window - 1) * Limit
  BY <1>2, <1>3, <1>5
<1> QED BY <1>1, <1>5, <1>6, DivisionBound, SumIsYounger

------------------------------------------------------------------------------
(***************************************************************************)
(* What the state of a limiter says of the requests it has admitted.       *)
(***************************************************************************)

Level(s) == Min({Full, s.tokens + s.age * Limit})

Room(s) == Full - Max({0, s.water - s.age * Limit})

\* The current count covers what was admitted since its window began, the previous
\* one the rest; both are behind by some windows.
WindowsKept(s, log, e) ==
  /\ s.currentCount <= Limit /\ s.prevCount <= Limit
  /\ s.behind = 0 =>
       /\ Younger(log, e + 1) <= s.currentCount
       /\ Younger(log, Window) - Younger(log, e + 1) <= s.prevCount
  /\ s.behind = 1 =>
       Younger(log, e + 1) = 0 /\ Younger(log, Window) <= s.currentCount
  /\ s.behind = 2 => Younger(log, Window) = 0

Kept(s, log, e) ==
  /\ s.algorithm = "token_bucket" => Earned(Level(s), log)
  /\ s.algorithm = "leaky_bucket" => Earned(Room(s), log)
  /\ s.algorithm = "sliding_window_log" =>
       s.timestamps = log /\ Younger(log, Window) <= Limit
  /\ s.algorithm = "sliding_window_counter" => WindowsKept(s, log, e)

Charged(log, allowed) == IF allowed THEN [log EXCEPT ![0] = log[0] + Cost] ELSE log

LEMMA StateKinds ==
  ASSUME NEW s \in States
  PROVE  /\ s.algorithm \in Algorithms
         /\ s.algorithm = "token_bucket" <=> s \in TokenStates
         /\ s.algorithm = "leaky_bucket" <=> s \in WaterStates
         /\ s.algorithm = "sliding_window_log" <=> s \in LogStates
         /\ s.algorithm = "sliding_window_counter" <=> s \in CounterStates
BY DEF States, TokenStates, WaterStates, LogStates, CounterStates, Algorithms

\* A new state.
LEMMA NewKept ==
  ASSUME NEW algorithm \in Algorithms, NEW e \in Ages
  PROVE  /\ New(algorithm) \in States /\ New(algorithm).algorithm = algorithm
         /\ Kept(New(algorithm), Nothing, e)
<1>1. CASE algorithm = "token_bucket"
  <2>1. New(algorithm) = [algorithm |-> "token_bucket", tokens |-> Full, age |-> 0]
    BY <1>1 DEF New
  <2>2. New(algorithm) \in TokenStates
    BY <2>1, LimiterQuantities DEF TokenStates
  <2>3. Level(New(algorithm)) = Full
    BY <2>1, MinOf, LimiterQuantities DEF Level
  <2> QED BY <1>1, <2>1, <2>2, <2>3, FullEarned DEF States, Kept
<1>2. CASE algorithm = "leaky_bucket"
  <2>1. New(algorithm) = [algorithm |-> "leaky_bucket", water |-> 0, age |-> 0]
    BY <1>2 DEF New
  <2>2. New(algorithm) \in WaterStates
    BY <2>1, LimiterQuantities DEF WaterStates
  <2>3. Room(New(algorithm)) = Full
    BY <2>1, MaxOf, LimiterQuantities DEF Room
  <2> QED BY <1>2, <2>1, <2>2, <2>3, FullEarned DEF States, Kept
<1>3. CASE algorithm = "sliding_window_log"
  <2>1. New(algorithm) = [algorithm |-> "sliding_window_log", timestamps |-> Nothing]
    BY <1>3 DEF New, Nothing
  <2>2. Nothing \in [Ages -> Nat]
    BY DEF Nothing
  <2>3. New(algorithm) \in LogStates
    BY <2>1, <2>2 DEF LogStates
  <2>4. Younger(Nothing, Window) <= Limit
    BY YoungerNothing, LimiterQuantities
  <2> QED BY <1>3, <2>1, <2>3, <2>4 DEF States, Kept
<1>4. CASE algorithm = "sliding_window_counter"
  <2>1. New(algorithm) = [algorithm |-> "sliding_window_counter", currentCount |-> 0,
                          prevCount |-> 0, behind |-> 0]
    BY <1>4 DEF New
  <2>2. New(algorithm) \in CounterStates
    BY <2>1 DEF CounterStates
  <2>3. Younger(Nothing, Window) = 0 /\ Younger(Nothing, e + 1) = 0
    BY YoungerNothing, LimiterQuantities DEF Ages
  <2>4. WindowsKept(New(algorithm), Nothing, e)
    BY <2>1, <2>3, LimiterQuantities DEF WindowsKept
  <2> QED BY <1>4, <2>1, <2>2, <2>4 DEF States, Kept
<1> QED BY <1>1, <1>2, <1>3, <1>4 DEF Algorithms

------------------------------------------------------------------------------
(***************************************************************************)
(* Allow, algorithm by algorithm.                                          *)
(***************************************************************************)

LEMMA TokenAllow ==
  ASSUME NEW s \in TokenStates, NEW r, r = TokenBucketAllow(s)
  PROVE  /\ r.state \in TokenStates /\ r.allowed \in BOOLEAN
         /\ \A log \in Logs :
              Earned(Level(s), log) => Earned(Level(r.state), Charged(log, r.allowed))
<1> DEFINE tokens == Level(s)
<1>1. /\ s.tokens \in 0 .. Full /\ s.age \in 0 .. Full
      /\ s = [algorithm |-> "token_bucket", tokens |-> s.tokens, age |-> s.age]
  BY DEF TokenStates
<1>2. s.age * Limit \in Nat
  BY <1>1, LimiterQuantities
<1>3. tokens \in 0 .. Full
  BY <1>1, <1>2, MinOf, LimiterQuantities DEF Level
<1>4. r = IF tokens >= Charge
            THEN Result(TRUE, [s EXCEPT !.tokens = tokens - Charge, !.age = 0])
            ELSE Result(FALSE, [s EXCEPT !.tokens = tokens, !.age = 0])
  BY DEF TokenBucketAllow, Level
<1> HIDE DEF tokens
<1>5. ASSUME NEW n \in 0 .. Full, NEW q, q = [s EXCEPT !.tokens = n, !.age = 0]
      PROVE  q \in TokenStates /\ Level(q) = n
  <2>1. q = [algorithm |-> "token_bucket", tokens |-> n, age |-> 0]
    <3>1. PICK a, b : s = [algorithm |-> "token_bucket", tokens |-> a, age |-> b]
      BY <1>1
    <3> QED BY <1>5, <3>1
  <2>2. Full + 0 * Limit = Full /\ n + 0 * Limit = n
    BY LimiterQuantities
  <2> QED BY <2>1, <2>2, MinOf, LimiterQuantities DEF TokenStates, Level
<1>6. CASE tokens >= Charge
  <2> DEFINE q == [s EXCEPT !.tokens = tokens - Charge, !.age = 0]
  <2>1. tokens - Charge \in 0 .. Full
    BY <1>3, <1>6, LimiterQuantities
  <2>2. q \in TokenStates /\ Level(q) = tokens - Charge
    BY <1>5, <2>1
  <2>3. r.state = q /\ r.allowed = TRUE
    BY <1>4, <1>6 DEF Result
  <2> HIDE DEF q
  <2>4. ASSUME NEW log \in Logs, Earned(tokens, log)
        PROVE  Earned(tokens - Charge, Charged(log, TRUE))
    BY <1>3, <1>6, <2>4, EarnedSpent DEF Charged
  <2> QED BY <2>2, <2>3, <2>4 DEF tokens
<1>7. CASE ~(tokens >= Charge)
  <2> DEFINE q == [s EXCEPT !.tokens = tokens, !.age = 0]
  <2>1. q \in TokenStates /\ Level(q) = tokens
    BY <1>3, <1>5
  <2>2. r.state = q /\ r.allowed = FALSE
    BY <1>4, <1>7 DEF Result
  <2> HIDE DEF q
  <2> QED BY <2>1, <2>2 DEF tokens, Charged
<1> QED BY <1>6, <1>7

LEMMA WaterAllow ==
  ASSUME NEW s \in WaterStates, NEW r, r = LeakyBucketAllow(s)
  PROVE  /\ r.state \in WaterStates /\ r.allowed \in BOOLEAN
         /\ \A log \in Logs :
              Earned(Room(s), log) => Earned(Room(r.state), Charged(log, r.allowed))
<1> DEFINE water == Max({0, s.water - s.age * Limit})
<1>1. /\ s.water \in 0 .. Full /\ s.age \in 0 .. Full
      /\ s = [algorithm |-> "leaky_bucket", water |-> s.water, age |-> s.age]
  BY DEF WaterStates
<1>2. s.age * Limit \in Nat
  BY <1>1, LimiterQuantities
<1>3. water \in 0 .. Full /\ Room(s) = Full - water
  <2>1. s.water - s.age * Limit \in Int
    BY <1>1, <1>2
  <2>2. water = IF 0 <= s.water - s.age * Limit THEN s.water - s.age * Limit ELSE 0
    BY <2>1, MaxOf
  <2> QED BY <1>1, <1>2, <2>2, LimiterQuantities DEF Room
<1>4. r = IF water + Charge <= Full
            THEN Result(TRUE, [s EXCEPT !.water = water + Charge, !.age = 0])
            ELSE Result(FALSE, [s EXCEPT !.water = water, !.age = 0])
  BY DEF LeakyBucketAllow
<1> HIDE DEF water
<1>5. ASSUME NEW n \in 0 .. Full, NEW q, q = [s EXCEPT !.water = n, !.age = 0]
      PROVE  q \in WaterStates /\ Room(q) = Full - n
  <2>1. q = [algorithm |-> "leaky_bucket", water |-> n, age |-> 0]
    <3>1. PICK a, b : s = [algorithm |-> "leaky_bucket", water |-> a, age |-> b]
      BY <1>1
    <3> QED BY <1>5, <3>1
  <2>2. n - 0 * Limit = n
    BY LimiterQuantities
  <2> QED BY <2>1, <2>2, MaxOf, LimiterQuantities DEF WaterStates, Room
<1>6. CASE water + Charge <= Full
  <2> DEFINE q == [s EXCEPT !.water = water + Charge, !.age = 0]
  <2>1. water + Charge \in 0 .. Full /\ Full - (water + Charge) = (Full - water) - Charge
    BY <1>3, <1>6, LimiterQuantities
  <2>2. q \in WaterStates /\ Room(q) = (Full - water) - Charge
    BY <1>5, <2>1
  <2>3. r.state = q /\ r.allowed = TRUE
    BY <1>4, <1>6 DEF Result
  <2> HIDE DEF q
  <2>4. Charge <= Full - water
    BY <1>3, <1>6, LimiterQuantities
  <2>5. ASSUME NEW log \in Logs, Earned(Full - water, log)
        PROVE  Earned((Full - water) - Charge, Charged(log, TRUE))
    BY <2>4, <2>5, EarnedSpent DEF Charged
  <2> QED BY <1>3, <2>2, <2>3, <2>5
<1>7. CASE ~(water + Charge <= Full)
  <2> DEFINE q == [s EXCEPT !.water = water, !.age = 0]
  <2>1. q \in WaterStates /\ Room(q) = Full - water
    BY <1>3, <1>5
  <2>2. r.state = q /\ r.allowed = FALSE
    BY <1>4, <1>7 DEF Result
  <2> HIDE DEF q
  <2> QED BY <1>3, <2>1, <2>2 DEF Charged
<1> QED BY <1>6, <1>7

LEMMA LogAllow ==
  ASSUME NEW s \in LogStates, NEW r, r = SlidingWindowLogAllow(s)
  PROVE  /\ r.state \in LogStates /\ r.allowed \in BOOLEAN
         /\ s.timestamps \in Logs
         /\ r.state.timestamps = Charged(s.timestamps, r.allowed)
         /\ Younger(s.timestamps, Window) <= Limit =>
              Younger(r.state.timestamps, Window) <= Limit
<1> DEFINE log == s.timestamps
<1>1. log \in Logs /\ s = [algorithm |-> "sliding_window_log", timestamps |-> log]
  BY DEF LogStates, Logs
<1>2. Sum(log) = Younger(log, Window) /\ Younger(log, Window) \in Nat
  BY <1>1, SumIsYounger, YoungerNat, LimiterQuantities
<1>3. CASE Sum(log) + Cost <= Limit
  <2> DEFINE more == [log EXCEPT ![0] = log[0] + Cost]
  <2>1. more \in Logs /\ Younger(more, Window) = Younger(log, Window) + Cost
    BY <1>1, YoungerAdded, LimiterQuantities
  <2>2. r = Result(TRUE, [s EXCEPT !.timestamps = more])
    BY <1>3 DEF SlidingWindowLogAllow
  <2> HIDE DEF more
  <2>3. r.allowed = TRUE /\ r.state = [algorithm |-> "sliding_window_log", timestamps |-> more]
    BY <1>1, <2>2 DEF Result
  <2>4. r.state \in LogStates /\ r.state.timestamps = more
    BY <2>1, <2>3 DEF LogStates, Logs
  <2>5. Younger(more, Window) <= Limit
    BY <1>2, <1>3, <2>1, LimiterQuantities
  <2> QED BY <1>1, <2>3, <2>4, <2>5 DEF Charged, more
<1>4. CASE ~(Sum(log) + Cost <= Limit)
  <2>1. r.allowed = FALSE /\ r.state = s
    BY <1>4 DEF SlidingWindowLogAllow, Result
  <2> QED BY <1>1, <2>1 DEF Charged
<1> QED BY <1>3, <1>4

LEMMA CounterAllow ==
  ASSUME NEW s \in CounterStates, NEW e \in Ages, NEW r,
         r = SlidingWindowCounterAllow(s, e)
  PROVE  /\ r.state \in CounterStates /\ r.allowed \in BOOLEAN
         /\ \A log \in Logs : WindowsKept(s, log, e) =>
              WindowsKept(r.state, Charged(log, r.allowed), e)
<1> DEFINE c == Shifted(s)
           weighted == c.prevCount * (Window - e) + c.currentCount * Window
<1>1. /\ s.currentCount \in Nat /\ s.prevCount \in Nat /\ s.behind \in 0 .. 2
      /\ s = [algorithm |-> "sliding_window_counter", currentCount |-> s.currentCount,
              prevCount |-> s.prevCount, behind |-> s.behind]
  BY DEF CounterStates
<1>2. c \in CounterStates /\ c.behind = 0
  <2>1. PICK a \in Nat, b \in Nat, d \in 0 .. 2 :
          s = [algorithm |-> "sliding_window_counter", currentCount |-> a,
               prevCount |-> b, behind |-> d]
    BY <1>1
  <2>2. CASE d = 0
    BY <2>1, <2>2 DEF Shifted, CounterStates
  <2>3. CASE d # 0
    <3>1. c = [algorithm |-> "sliding_window_counter", currentCount |-> 0,
               prevCount |-> IF d = 1 THEN a ELSE 0, behind |-> 0]
      BY <2>1, <2>3 DEF Shifted
    <3> HIDE DEF c
    <3> QED BY <2>1, <3>1 DEF CounterStates
  <2> QED BY <2>2, <2>3
<1>3. ASSUME NEW log \in Logs, WindowsKept(s, log, e)
      PROVE  WindowsKept(c, log, e)
  <2>1. e + 1 \in 0 .. Window /\ Window \in 0 .. Window /\ e + 1 <= Window
    BY LimiterQuantities DEF Ages
  <2>2. /\ Younger(log, Window) \in Nat /\ Younger(log, e + 1) \in Nat
        /\ Younger(log, e + 1) <= Younger(log, Window)
    BY <2>1, YoungerNat, YoungerMonotone
  <2>3. CASE s.behind = 0
    BY <1>3, <2>3 DEF Shifted
  <2>4. CASE s.behind = 1
    <3>1. c.prevCount = s.currentCount /\ c.currentCount = 0 /\ c.behind = 0
      BY <1>1, <2>4 DEF Shifted
    <3> HIDE DEF c
    <3> QED BY <1>1, <1>3, <2>2, <2>4, <3>1, LimiterQuantities DEF WindowsKept
  <2>5. CASE s.behind = 2
    <3>1. c.prevCount = 0 /\ c.currentCount = 0 /\ c.behind = 0
      BY <1>1, <2>5 DEF Shifted
    <3> HIDE DEF c
    <3> QED BY <1>1, <1>3, <2>2, <2>5, <3>1, LimiterQuantities DEF WindowsKept
  <2> QED BY <1>1, <2>3, <2>4, <2>5
<1>4. r = IF weighted + Charge <= Limit * Window
            THEN Result(TRUE, [c EXCEPT !.currentCount = c.currentCount + Cost])
            ELSE Result(FALSE, c)
  BY DEF SlidingWindowCounterAllow
<1> HIDE DEF c
<1>5. /\ c.currentCount \in Nat /\ c.prevCount \in Nat
      /\ c = [algorithm |-> "sliding_window_counter", currentCount |-> c.currentCount,
              prevCount |-> c.prevCount, behind |-> 0]
  BY <1>2 DEF CounterStates
<1>6. CASE weighted + Charge <= Limit * Window
  <2> DEFINE q == [c EXCEPT !.currentCount = c.currentCount + Cost]
  <2>1. r.state = q /\ r.allowed = TRUE
    BY <1>4, <1>6 DEF Result
  <2>2. q = [algorithm |-> "sliding_window_counter", currentCount |-> c.currentCount + Cost,
             prevCount |-> c.prevCount, behind |-> 0]
    BY <1>5
  <2> HIDE DEF q
  <2>3. q \in CounterStates
    BY <1>5, <2>2, LimiterQuantities DEF CounterStates
  <2>4. c.currentCount + Cost <= Limit
    <3>1. c.prevCount * (Window - e) \in Nat
      <4>1. Window - e \in Nat
        BY LimiterQuantities DEF Ages
      <4> QED BY <1>5, <4>1
    <3>2. Window * c.currentCount + Window * Cost <= Window * Limit
      BY <1>5, <1>6, <3>1, LimiterQuantities
    <3>3. Window * (c.currentCount + Cost) <= Window * Limit
      BY <1>5, <3>2, Times, LimiterQuantities
    <3>4. ASSUME Limit + 1 <= c.currentCount + Cost
          PROVE  FALSE
      <4>1. Window * (Limit + 1) <= Window * (c.currentCount + Cost)
        <5> DEFINE x == c.currentCount + Cost
                   y == Limit + 1
        <5>1. x \in Int /\ y \in Int /\ y <= x
          BY <1>5, <3>4, LimiterQuantities
        <5> HIDE DEF x, y
        <5>2. Window * y <= Window * x
          BY <5>1, Times, LimiterQuantities
        <5> QED BY <5>2 DEF x, y
      <4>2. Window * (Limit + 1) = Window * Limit + Window /\ Window * Limit \in Int
        BY LimiterQuantities
      <4>3. Window * (c.currentCount + Cost) \in Int
        BY <1>5, LimiterQuantities
      <4> QED BY <3>3, <4>1, <4>2, <4>3, LimiterQuantities
    <3> QED BY <1>5, <3>4, LimiterQuantities
  <2>5. ASSUME NEW log \in Logs, WindowsKept(s, log, e)
        PROVE  WindowsKept(q, Charged(log, TRUE), e)
    <3> DEFINE more == [log EXCEPT ![0] = log[0] + Cost]
    <3>1. e + 1 \in 1 .. Window /\ Window \in 1 .. Window
      BY LimiterQuantities DEF Ages
    <3>2. /\ Younger(more, e + 1) = Younger(log, e + 1) + Cost
          /\ Younger(more, Window) = Younger(log, Window) + Cost
      BY <3>1, YoungerAdded, LimiterQuantities
    <3>3. Younger(log, Window) \in Nat /\ Younger(log, e + 1) \in Nat
      BY <3>1, YoungerNat, LimiterQuantities
    <3>4. Charged(log, TRUE) = more
      BY DEF Charged
    <3> HIDE DEF more
    <3>5. WindowsKept(c, log, e)
      BY <1>3, <2>5
    <3>6. /\ c.prevCount <= Limit
          /\ Younger(log, e + 1) <= c.currentCount
          /\ Younger(log, Window) - Younger(log, e + 1) <= c.prevCount
      BY <1>2, <3>5 DEF WindowsKept
    <3>7. q.currentCount = c.currentCount + Cost /\ q.prevCount = c.prevCount /\ q.behind = 0
      BY <2>2
    <3>8. /\ q.currentCount <= Limit /\ q.prevCount <= Limit
          /\ Younger(more, e + 1) <= q.currentCount
          /\ Younger(more, Window) - Younger(more, e + 1) <= q.prevCount
      BY <1>5, <2>4, <3>2, <3>3, <3>6, <3>7, LimiterQuantities
    <3>9. q.behind = 0 /\ q.behind # 1 /\ q.behind # 2
      BY <3>7
    <3>10. WindowsKept(q, more, e)
      BY <3>8, <3>9 DEF WindowsKept
    <3> QED BY <3>4, <3>10
  <2> QED BY <2>1, <2>3, <2>5
<1>7. CASE ~(weighted + Charge <= Limit * Window)
  <2>1. r.state = c /\ r.allowed = FALSE
    BY <1>4, <1>7 DEF Result
  <2> QED BY <1>2, <1>3, <2>1 DEF Charged
<1> QED BY <1>6, <1>7


\* Allow keeps a state of its kind, and what it says of the admitted requests.
LEMMA AllowKept ==
  ASSUME NEW s \in States, NEW e \in Ages, NEW r, r = Allow(s, e)
  PROVE  /\ r.state \in States /\ r.state.algorithm = s.algorithm
         /\ r.allowed \in BOOLEAN
         /\ \A log \in Logs :
              Kept(s, log, e) => Kept(r.state, Charged(log, r.allowed), e)
<1>1. CASE s.algorithm = "token_bucket"
  <2>1. s \in TokenStates /\ r = TokenBucketAllow(s)
    BY <1>1, StateKinds DEF Allow
  <2>2. /\ r.state \in TokenStates /\ r.allowed \in BOOLEAN
        /\ \A log \in Logs :
             Earned(Level(s), log) => Earned(Level(r.state), Charged(log, r.allowed))
    BY <2>1, TokenAllow
  <2>3. r.state \in States /\ r.state.algorithm = "token_bucket"
    BY <2>2, StateKinds DEF States
  <2> QED BY <1>1, <2>2, <2>3 DEF Kept
<1>2. CASE s.algorithm = "leaky_bucket"
  <2>1. s \in WaterStates /\ r = LeakyBucketAllow(s)
    BY <1>2, StateKinds DEF Allow
  <2>2. /\ r.state \in WaterStates /\ r.allowed \in BOOLEAN
        /\ \A log \in Logs :
             Earned(Room(s), log) => Earned(Room(r.state), Charged(log, r.allowed))
    BY <2>1, WaterAllow
  <2>3. r.state \in States /\ r.state.algorithm = "leaky_bucket"
    BY <2>2, StateKinds DEF States
  <2> QED BY <1>2, <2>2, <2>3 DEF Kept
<1>3. CASE s.algorithm = "sliding_window_log"
  <2>1. s \in LogStates /\ r = SlidingWindowLogAllow(s)
    BY <1>3, StateKinds DEF Allow
  <2>2. /\ r.state \in LogStates /\ r.allowed \in BOOLEAN
        /\ r.state.timestamps = Charged(s.timestamps, r.allowed)
        /\ Younger(s.timestamps, Window) <= Limit =>
             Younger(r.state.timestamps, Window) <= Limit
    BY <2>1, LogAllow
  <2>3. r.state \in States /\ r.state.algorithm = "sliding_window_log"
    BY <2>2, StateKinds DEF States
  <2> QED BY <1>3, <2>2, <2>3 DEF Kept
<1>4. CASE s.algorithm = "sliding_window_counter"
  <2>1. s \in CounterStates /\ r = SlidingWindowCounterAllow(s, e)
    BY <1>4, StateKinds DEF Allow
  <2>2. /\ r.state \in CounterStates /\ r.allowed \in BOOLEAN
        /\ \A log \in Logs : WindowsKept(s, log, e) =>
             WindowsKept(r.state, Charged(log, r.allowed), e)
    BY <2>1, CounterAllow
  <2>3. r.state \in States /\ r.state.algorithm = "sliding_window_counter"
    BY <2>2, StateKinds DEF States
  <2> QED BY <1>4, <2>2, <2>3 DEF Kept
<1> QED BY <1>1, <1>2, <1>3, <1>4, StateKinds DEF Algorithms

------------------------------------------------------------------------------
(***************************************************************************)
(* A tick, algorithm by algorithm.                                         *)
(***************************************************************************)

LEMMA AgesSaturate ==
  ASSUME NEW age \in 0 .. Full, NEW older, older = Min({Full, age + 1})
  PROVE  /\ older \in 0 .. Full
         /\ \/ older * Limit = age * Limit + Limit
            \/ older = Full /\ older * Limit >= Full /\ age * Limit >= Full
<1>1. older = IF Full <= age + 1 THEN Full ELSE age + 1
  BY MinOf, LimiterQuantities
<1>2. CASE age = Full
  <2>1. older = Full
    BY <1>1, <1>2, LimiterQuantities
  <2>2. Full * 1 <= Full * Limit /\ Full * 1 = Full
    BY Times, LimiterQuantities
  <2> QED BY <1>2, <2>1, <2>2, LimiterQuantities
<1>3. CASE age # Full
  <2>1. older = age + 1
    BY <1>1, <1>3, LimiterQuantities
  <2>2. Limit * (age + 1) = Limit * age + Limit * 1
    BY Times, LimiterQuantities
  <2>3. Limit * (age + 1) = (age + 1) * Limit /\ Limit * age = age * Limit /\ Limit * 1 = Limit
    BY LimiterQuantities
  <2>4. (age + 1) * Limit = age * Limit + Limit
    BY <2>2, <2>3
  <2>5. older \in 0 .. Full
    BY <1>3, <2>1, LimiterQuantities
  <2> QED BY <2>1, <2>4, <2>5
<1> QED BY <1>2, <1>3

LEMMA TokenOlder ==
  ASSUME NEW s \in TokenStates, NEW newWindow \in BOOLEAN, NEW q, q = Older(s, newWindow)
  PROVE  /\ q \in TokenStates
         /\ Level(s) \in 0 .. Full /\ Level(q) \in 0 .. Full /\ Level(q) <= Level(s) + Limit
<1> DEFINE older == Min({Full, s.age + 1})
<1>1. PICK n \in 0 .. Full, m \in 0 .. Full :
        s = [algorithm |-> "token_bucket", tokens |-> n, age |-> m]
  BY DEF TokenStates
<1>2. /\ older \in 0 .. Full
      /\ \/ older * Limit = m * Limit + Limit
         \/ older = Full /\ older * Limit >= Full /\ m * Limit >= Full
  BY <1>1, AgesSaturate
<1>3. q = [s EXCEPT !.age = older]
  BY <1>1 DEF Older
<1> HIDE DEF older
<1>4. q = [algorithm |-> "token_bucket", tokens |-> n, age |-> older]
  BY <1>1, <1>3
<1>5. q \in TokenStates
  BY <1>2, <1>4 DEF TokenStates
<1>6. m * Limit \in Nat /\ older * Limit \in Nat
  BY <1>2, LimiterQuantities
<1>7. Level(s) = IF Full <= n + m * Limit THEN Full ELSE n + m * Limit
  BY <1>1, <1>6, MinOf, LimiterQuantities DEF Level
<1>8. Level(q) = IF Full <= n + older * Limit THEN Full ELSE n + older * Limit
  BY <1>4, <1>6, MinOf, LimiterQuantities DEF Level
<1> QED BY <1>2, <1>5, <1>6, <1>7, <1>8, LimiterQuantities

LEMMA WaterOlder ==
  ASSUME NEW s \in WaterStates, NEW newWindow \in BOOLEAN, NEW q, q = Older(s, newWindow)
  PROVE  /\ q \in WaterStates
         /\ Room(s) \in 0 .. Full /\ Room(q) \in 0 .. Full /\ Room(q) <= Room(s) + Limit
<1> DEFINE older == Min({Full, s.age + 1})
<1>1. PICK n \in 0 .. Full, m \in 0 .. Full :
        s = [algorithm |-> "leaky_bucket", water |-> n, age |-> m]
  BY DEF WaterStates
<1>2. /\ older \in 0 .. Full
      /\ \/ older * Limit = m * Limit + Limit
         \/ older = Full /\ older * Limit >= Full /\ m * Limit >= Full
  BY <1>1, AgesSaturate
<1>3. q = [s EXCEPT !.age = older]
  BY <1>1 DEF Older
<1> HIDE DEF older
<1>4. q = [algorithm |-> "leaky_bucket", water |-> n, age |-> older]
  BY <1>1, <1>3
<1>5. q \in WaterStates
  BY <1>2, <1>4 DEF WaterStates
<1>6. m * Limit \in Nat /\ older * Limit \in Nat
  BY <1>2, LimiterQuantities
<1>7. Room(s) = Full - (IF 0 <= n - m * Limit THEN n - m * Limit ELSE 0)
  BY <1>1, <1>6, MaxOf, LimiterQuantities DEF Room
<1>8. Room(q) = Full - (IF 0 <= n - older * Limit THEN n - older * Limit ELSE 0)
  BY <1>4, <1>6, MaxOf, LimiterQuantities DEF Room
<1> QED BY <1>2, <1>5, <1>6, <1>7, <1>8, LimiterQuantities

LEMMA LogOlder ==
  ASSUME NEW s \in LogStates, NEW newWindow \in BOOLEAN, NEW q, q = Older(s, newWindow)
  PROVE  /\ q \in LogStates /\ q.timestamps = Aged(s.timestamps)
         /\ Younger(s.timestamps, Window) <= Limit =>
              Younger(q.timestamps, Window) <= Limit
<1> DEFINE log == s.timestamps
<1>1. log \in Logs /\ s = [algorithm |-> "sliding_window_log", timestamps |-> log]
  BY DEF LogStates, Logs
<1>2. q = [s EXCEPT !.timestamps = Aged(log)]
  BY <1>1 DEF Older
<1>3. q = [algorithm |-> "sliding_window_log", timestamps |-> Aged(log)]
  BY <1>1, <1>2
<1>4. /\ Aged(log) \in Logs
      /\ Younger(Aged(log), Window) = Younger(log, Window - 1)
  BY <1>1, YoungerAged, LimiterQuantities
<1>5. /\ Younger(log, Window - 1) <= Younger(log, Window)
      /\ Younger(log, Window - 1) \in Nat /\ Younger(log, Window) \in Nat
  <2>1. Window - 1 \in 0 .. Window /\ Window \in 0 .. Window /\ Window - 1 <= Window
    BY LimiterQuantities
  <2> QED BY <1>1, <2>1, YoungerMonotone, YoungerNat
<1> HIDE DEF log
<1>6. q \in LogStates
  BY <1>3, <1>4 DEF LogStates, Logs
<1>7. Younger(log, Window) <= Limit => Younger(Aged(log), Window) <= Limit
  BY <1>4, <1>5, LimiterQuantities
<1> QED BY <1>3, <1>6, <1>7 DEF log

\* The clock of the windows.
LEMMA ClockStep ==
  ASSUME NEW e \in Ages, NEW f, f = (e + 1) % Window
  PROVE  f \in Ages /\ IF e = Window - 1 THEN f = 0 ELSE f = e + 1
<1>1. e \in Nat /\ e <= Window - 1
  BY LimiterQuantities DEF Ages
<1>2. CASE e = Window - 1
  <2>1. e + 1 = Window
    BY <1>2, LimiterQuantities
  <2>2. Window % Window = 0
    BY LimiterQuantities
  <2> QED BY <1>2, <2>1, <2>2, LimiterQuantities DEF Ages
<1>3. CASE e # Window - 1
  <2>1. e + 1 < Window /\ e + 1 \in Nat
    BY <1>1, <1>3, LimiterQuantities
  <2>2. (e + 1) % Window = e + 1
    BY <2>1, LimiterQuantities
  <2> QED BY <1>3, <2>1, <2>2, LimiterQuantities DEF Ages
<1> QED BY <1>2, <1>3

LEMMA CounterOlder ==
  ASSUME NEW s \in CounterStates, NEW e \in Ages, NEW f, f = (e + 1) % Window,
         NEW q, q = Older(s, f = 0)
  PROVE  /\ q \in CounterStates
         /\ \A log \in Logs : WindowsKept(s, log, e) => WindowsKept(q, Aged(log), f)
<1>1. PICK a \in Nat, b \in Nat, d \in 0 .. 2 :
        s = [algorithm |-> "sliding_window_counter", currentCount |-> a, prevCount |-> b,
             behind |-> d]
  BY DEF CounterStates
<1> DEFINE later == IF f = 0 THEN Min({2, d + 1}) ELSE d
<1>2. q = [s EXCEPT !.behind = later]
  BY <1>1 DEF Older
<1>3. later = IF f = 0 THEN IF d = 0 THEN 1 ELSE 2 ELSE d
  BY MinOf
<1> HIDE DEF later
<1>4. q = [algorithm |-> "sliding_window_counter", currentCount |-> a, prevCount |-> b,
           behind |-> later]
  BY <1>1, <1>2
<1>5. q \in CounterStates
  BY <1>3, <1>4 DEF CounterStates
<1>6. ASSUME NEW log \in Logs, WindowsKept(s, log, e)
      PROVE  WindowsKept(q, Aged(log), f)
  <2> DEFINE all == Younger(log, Window)
             now == Younger(log, e + 1)
             all2 == Younger(Aged(log), Window)
             now2 == Younger(Aged(log), f + 1)
  <2>1. /\ a <= Limit /\ b <= Limit
        /\ d = 0 => now <= a /\ all - now <= b
        /\ d = 1 => now = 0 /\ all <= a
        /\ d = 2 => all = 0
    BY <1>1, <1>6 DEF WindowsKept
  <2>2. f \in Ages /\ IF e = Window - 1 THEN f = 0 ELSE f = e + 1
    BY ClockStep
  <2>3. /\ all \in Nat /\ now \in Nat /\ all2 \in Nat
        /\ all2 <= all /\ now <= all
    <3>1. /\ Window - 1 \in 0 .. Window /\ Window \in 1 .. Window /\ Window - 1 <= Window
          /\ e + 1 \in 0 .. Window /\ e + 1 <= Window /\ Window \in 0 .. Window
      BY LimiterQuantities DEF Ages
    <3>2. all2 = Younger(log, Window - 1)
      BY <3>1, YoungerAged
    <3>3. Younger(log, Window - 1) <= all /\ now <= all
      BY <3>1, YoungerMonotone
    <3>4. Younger(log, Window - 1) \in Nat /\ all \in Nat /\ now \in Nat
      BY <3>1, YoungerNat
    <3> QED BY <3>2, <3>3, <3>4
  <2>4. now2 = IF f = 0 THEN 0 ELSE now
    <3>1. f + 1 \in 1 .. Window /\ (f + 1) - 1 = f
      BY <2>2, LimiterQuantities DEF Ages
    <3>2. now2 = Younger(log, f)
      BY <3>1, YoungerAged
    <3> QED BY <2>2, <3>2, YoungerZero
  <2>5. f = 0 => now = all
    BY <2>2, LimiterQuantities DEF Ages
  <2> HIDE DEF all, now, all2, now2
  <2>6. /\ later = 0 => now2 <= a /\ all2 - now2 <= b
        /\ later = 1 => now2 = 0 /\ all2 <= a
        /\ later = 2 => all2 = 0
    BY <1>3, <2>1, <2>3, <2>4, <2>5
  <2>7. q.currentCount = a /\ q.prevCount = b /\ q.behind = later
    BY <1>4
  <2> QED BY <2>1, <2>6, <2>7 DEF WindowsKept, all2, now2
<1> QED BY <1>5, <1>6

\* A tick keeps a state of its kind, and what it says of the admitted requests.
LEMMA OlderKept ==
  ASSUME NEW s \in States, NEW e \in Ages, NEW f, f = (e + 1) % Window,
         NEW q, q = Older(s, f = 0)
  PROVE  /\ q \in States /\ q.algorithm = s.algorithm
         /\ \A log \in Logs : Kept(s, log, e) => Kept(q, Aged(log), f)
<1>1. CASE s.algorithm = "token_bucket"
  <2>1. s \in TokenStates
    BY <1>1, StateKinds
  <2>2. /\ q \in TokenStates
        /\ Level(s) \in 0 .. Full /\ Level(q) \in 0 .. Full /\ Level(q) <= Level(s) + Limit
    BY <2>1, TokenOlder
  <2>3. q \in States /\ q.algorithm = "token_bucket"
    BY <2>2, StateKinds DEF States
  <2>4. \A log \in Logs : Earned(Level(s), log) => Earned(Level(q), Aged(log))
    BY <2>2, EarnedLater
  <2> QED BY <1>1, <2>3, <2>4 DEF Kept
<1>2. CASE s.algorithm = "leaky_bucket"
  <2>1. s \in WaterStates
    BY <1>2, StateKinds
  <2>2. /\ q \in WaterStates
        /\ Room(s) \in 0 .. Full /\ Room(q) \in 0 .. Full /\ Room(q) <= Room(s) + Limit
    BY <2>1, WaterOlder
  <2>3. q \in States /\ q.algorithm = "leaky_bucket"
    BY <2>2, StateKinds DEF States
  <2>4. \A log \in Logs : Earned(Room(s), log) => Earned(Room(q), Aged(log))
    BY <2>2, EarnedLater
  <2> QED BY <1>2, <2>3, <2>4 DEF Kept
<1>3. CASE s.algorithm = "sliding_window_log"
  <2>1. s \in LogStates
    BY <1>3, StateKinds
  <2>2. /\ q \in LogStates /\ q.timestamps = Aged(s.timestamps)
        /\ Younger(s.timestamps, Window) <= Limit =>
             Younger(q.timestamps, Window) <= Limit
    BY <2>1, LogOlder
  <2>3. q \in States /\ q.algorithm = "sliding_window_log"
    BY <2>2, StateKinds DEF States
  <2> QED BY <1>3, <2>2, <2>3 DEF Kept
<1>4. CASE s.algorithm = "sliding_window_counter"
  <2>1. s \in CounterStates
    BY <1>4, StateKinds
  <2>2. /\ q \in CounterStates
        /\ \A log \in Logs : WindowsKept(s, log, e) => WindowsKept(q, Aged(log), f)
    BY <2>1, CounterOlder
  <2>3. q \in States /\ q.algorithm = "sliding_window_counter"
    BY <2>2, StateKinds DEF States
  <2> QED BY <1>4, <2>2, <2>3 DEF Kept
<1> QED BY <1>1, <1>2, <1>3, <1>4, StateKinds DEF Algorithms

\* What a state says bounds what it has admitted.
LEMMA KeptMost ==
  ASSUME NEW s \in States, NEW e \in Ages, NEW log \in Logs, Kept(s, log, e)
  PROVE  Sum(log) <= Most(s.algorithm)
<1>1. CASE s.algorithm \in {"token_bucket", "leaky_bucket"}
  <2>1. \E level : Earned(level, log)
    BY <1>1 DEF Kept
  <2> QED BY <1>1, <2>1, EarnedMost DEF Most
<1>2. CASE s.algorithm = "sliding_window_log"
  BY <1>2, SumIsYounger DEF Kept, Most
<1>3. CASE s.algorithm = "sliding_window_counter"
  <2>1. s \in CounterStates /\ WindowsKept(s, log, e)
    BY <1>3, StateKinds DEF Kept
  <2>2. /\ s.currentCount \in Nat /\ s.prevCount \in Nat /\ s.behind \in 0 .. 2
    BY <2>1 DEF CounterStates
  <2>3. /\ e + 1 \in 0 .. Window /\ Window \in 0 .. Window
    BY LimiterQuantities DEF Ages
  <2>4. Younger(log, Window) \in Nat /\ Younger(log, e + 1) \in Nat
    BY <2>3, YoungerNat
  <2>5. Younger(log, Window) <= 2 * Limit
    BY <2>1, <2>2, <2>4, LimiterQuantities DEF WindowsKept
  <2> QED BY <1>3, <2>5, SumIsYounger DEF Most
<1> QED BY <1>1, <1>2, <1>3, StateKinds DEF Algorithms

LEMMA NothingMost ==
  ASSUME NEW algorithm \in Algorithms
  PROVE  Sum(Nothing) <= Most(algorithm)
<1>1. 0 \in Ages /\ Nothing \in Logs
  BY LimiterQuantities, YoungerNothing DEF Ages
<1>2. /\ New(algorithm) \in States /\ New(algorithm).algorithm = algorithm
      /\ Kept(New(algorithm), Nothing, 0)
  BY <1>1, NewKept
<1>3. Sum(Nothing) <= Most(New(algorithm).algorithm)
  BY <1>1, <1>2, KeptMost
<1> QED BY <1>2, <1>3

------------------------------------------------------------------------------
(***************************************************************************)
(* Types.                                                                  *)
(***************************************************************************)

Handlers == [config : Configs, cell : Cells \cup {None}, touched : 0 .. TTL + 1,
             taken : Logs]

Requests == [stage : {"idle", "routed", "holding", "responding"},
             generation : Generations \cup {None}, cell : Cells \cup {None},
             paused : 0 .. MaxPause]

MainTypes ==
  /\ configFile \in Configs
  /\ sighup \in BOOLEAN
  /\ reloading \in [stage : {"waiting", "reading", "building"}, config : Configs]
  /\ signalled \in 0 .. MaxVersion

LimiterTypes ==
  /\ active \in Generations
  /\ generation \in [Generations -> Handlers]
  /\ heap \in [Cells -> States \cup {None}]
  /\ request \in [Calls -> Requests]

ServerTypes ==
  /\ server \in {"serving", "closing metrics", "closing main"} \cup Ended
  /\ sinceStop \in 0 .. Grace
  /\ scraping \in BOOLEAN
  /\ elapsed \in Ages

\* x is a state of the algorithm that handler g was configured with.
Points(g, x) ==
  /\ x \in Cells
  /\ heap[x] \in States
  /\ heap[x].algorithm = generation[g].config.algorithm

\* Requests and maps point to states of their handler's algorithm.
Pointers ==
  /\ \A c \in Calls :
       request[c].stage # "idle" => request[c].generation \in Generations
  /\ \A c \in Calls :
       request[c].stage = "holding" => Points(request[c].generation, request[c].cell)
  /\ \A g \in Generations : generation[g].cell # None => Points(g, generation[g].cell)

TypeInv ==
  /\ MainTypes
  /\ LimiterTypes
  /\ ServerTypes
  /\ Running => Pointers

LEMMA NoneApart == None \notin Cells /\ None \notin Generations /\ None \notin States
BY ProcessAssumption

LEMMA ConfigTypes ==
  /\ NoConfig \in Configs
  /\ \A config \in Configs :
       /\ Built(config) = [config |-> config, cell |-> None, touched |-> 0,
                           taken |-> Nothing]
       /\ Built(config) \in Handlers
  /\ Unused = Built(NoConfig)
  /\ Idle \in Requests
<1>1. NoConfig \in Configs
  BY ProcessQuantities DEF NoConfig, Configs, Algorithms
<1>2. Unused = [config |-> NoConfig, cell |-> None, touched |-> 0, taken |-> Nothing]
  BY DEF Unused, Nothing
<1>3. ASSUME NEW config \in Configs
      PROVE  /\ Built(config) = [config |-> config, cell |-> None, touched |-> 0,
                                 taken |-> Nothing]
             /\ Built(config) \in Handlers
  <2>1. Built(config) = [config |-> config, cell |-> None, touched |-> 0,
                         taken |-> Nothing]
    BY <1>2 DEF Built
  <2>2. Nothing \in Logs /\ 0 \in 0 .. TTL + 1
    BY YoungerNothing, ProcessQuantities, LimiterQuantities
  <2> QED BY <2>1, <2>2 DEF Handlers
<1>4. Unused = Built(NoConfig)
  BY <1>1, <1>2, <1>3
<1>5. Idle \in Requests
  BY ProcessQuantities DEF Idle, Requests
<1> QED BY <1>1, <1>3, <1>4, <1>5

\* Forgetting keeps what is current or in use.
LEMMA ForgottenTypes ==
  ASSUME NEW gs \in [Generations -> Handlers], NEW requests, NEW current \in Generations
  PROVE  /\ Forgotten(gs, requests, current) \in [Generations -> Handlers]
         /\ \A g \in Generations :
              Forgotten(gs, requests, current)[g] =
                IF g = current \/ InUse(g, requests) THEN gs[g] ELSE Unused
BY ConfigTypes DEF Forgotten

\* Collecting keeps what is pointed to.
LEMMA CollectedTypes ==
  ASSUME NEW objects \in [Cells -> States \cup {None}], NEW gs, NEW requests
  PROVE  /\ Collected(objects, gs, requests) \in [Cells -> States \cup {None}]
         /\ \A x \in Cells, g \in Generations :
              gs[g].cell = x => Collected(objects, gs, requests)[x] = objects[x]
         /\ \A x \in Cells, c \in Calls :
              requests[c].cell = x => Collected(objects, gs, requests)[x] = objects[x]
         /\ \A x \in Cells : Collected(objects, gs, requests)[x] \in {objects[x], None}
BY DEF Collected

------------------------------------------------------------------------------
(***************************************************************************)
(* What each step that touches requests, maps or states does, field by     *)
(* field.                                                                  *)
(***************************************************************************)

\* A request whose stage, state and pauses change.
LEMMA HandlerFields ==
  ASSUME NEW h \in Handlers
  PROVE  /\ h = [config |-> h.config, cell |-> h.cell, touched |-> h.touched,
                 taken |-> h.taken]
         /\ h.config \in Configs /\ h.cell \in Cells \cup {None}
         /\ h.touched \in 0 .. TTL + 1 /\ h.taken \in Logs
         /\ h.config.algorithm \in Algorithms
BY DEF Handlers, Configs

LEMMA RequestFields ==
  ASSUME NEW r \in Requests
  PROVE  /\ r = [stage |-> r.stage, generation |-> r.generation, cell |-> r.cell,
                 paused |-> r.paused]
         /\ r.stage \in {"idle", "routed", "holding", "responding"}
         /\ r.generation \in Generations \cup {None}
         /\ r.cell \in Cells \cup {None} /\ r.paused \in 0 .. MaxPause
BY DEF Requests

LEMMA IdleAt ==
  ASSUME NEW stage, NEW g
  PROVE  [[Idle EXCEPT !.stage = stage] EXCEPT !.generation = g]
           = [stage |-> stage, generation |-> g, cell |-> None, paused |-> 0]
<1> DEFINE p == [Idle EXCEPT !.stage = stage]
<1>1. p = [stage |-> stage, generation |-> None, cell |-> None, paused |-> 0]
  BY DEF Idle
<1> HIDE DEF p
<1>2. [p EXCEPT !.generation = g]
        = [stage |-> stage, generation |-> g, cell |-> None, paused |-> 0]
  BY <1>1
<1> QED BY <1>2 DEF p

LEMMA HandlerAt ==
  ASSUME NEW h \in Handlers, NEW x
  PROVE  [[h EXCEPT !.cell = x] EXCEPT !.touched = 0]
           = [config |-> h.config, cell |-> x, touched |-> 0, taken |-> h.taken]
<1>1. PICK i, j, k, l : h = [config |-> i, cell |-> j, touched |-> k, taken |-> l]
  BY HandlerFields
<1> DEFINE p == [h EXCEPT !.cell = x]
<1>2. p = [config |-> i, cell |-> x, touched |-> k, taken |-> l]
  BY <1>1
<1> HIDE DEF p
<1>3. [p EXCEPT !.touched = 0] = [config |-> i, cell |-> x, touched |-> 0, taken |-> l]
  BY <1>2
<1> QED BY <1>1, <1>3 DEF p

LEMMA RequestAt ==
  ASSUME NEW r \in Requests, NEW stage, NEW x
  PROVE  [[r EXCEPT !.stage = stage] EXCEPT !.cell = x]
           = [stage |-> stage, generation |-> r.generation, cell |-> x,
              paused |-> r.paused]
<1>1. PICK i, j, k, l : r = [stage |-> i, generation |-> j, cell |-> k, paused |-> l]
  BY RequestFields
<1> DEFINE p == [r EXCEPT !.stage = stage]
<1>2. p = [stage |-> stage, generation |-> j, cell |-> k, paused |-> l]
  BY <1>1
<1> HIDE DEF p
<1>3. [p EXCEPT !.cell = x]
        = [stage |-> stage, generation |-> j, cell |-> x, paused |-> l]
  BY <1>2
<1> QED BY <1>1, <1>3 DEF p

LEMMA ArriveEffect ==
  ASSUME LimiterTypes, NEW c \in Calls, Arrive(c)
  PROVE  /\ request' = [request EXCEPT ![c] =
                          [stage |-> "routed", generation |-> active, cell |-> None,
                           paused |-> 0]]
         /\ request' \in [Calls -> Requests]
         /\ UNCHANGED <<active, generation, heap, elapsed, server>>
<1>1. [[Idle EXCEPT !.stage = "routed"] EXCEPT !.generation = active]
        = [stage |-> "routed", generation |-> active, cell |-> None, paused |-> 0]
  BY IdleAt
<1>2. request' = [request EXCEPT ![c] =
                    [stage |-> "routed", generation |-> active, cell |-> None,
                     paused |-> 0]]
  BY <1>1 DEF Arrive
<1>3. [stage |-> "routed", generation |-> active, cell |-> None, paused |-> 0] \in Requests
  BY ProcessQuantities DEF Requests, LimiterTypes
<1> QED BY <1>2, <1>3 DEF LimiterTypes, Arrive, limiting, stopping

LEMMA GetOrInsertEffect ==
  ASSUME LimiterTypes, Pointers, NEW c \in Calls, GetOrInsert(c),
         NEW g, g = request[c].generation
  PROVE  /\ g \in Generations /\ request[c].stage = "routed"
         /\ UNCHANGED <<active, elapsed, server>>
         /\ \E x \in Cells :
              /\ request' = [request EXCEPT ![c] =
                               [stage |-> "holding", generation |-> g, cell |-> x,
                                paused |-> request[c].paused]]
              /\ generation' = [generation EXCEPT ![g] =
                                  [config |-> generation[g].config, cell |-> x,
                                   touched |-> 0, taken |-> generation[g].taken]]
              /\ \/ generation[g].cell = x /\ UNCHANGED heap
                 \/ /\ generation[g].cell = None /\ heap[x] = None
                    /\ heap' = [heap EXCEPT ![x] = New(generation[g].config.algorithm)]
<1>1. /\ request[c].stage = "routed" /\ UNCHANGED <<active, elapsed, server>>
      /\ g \in Generations
  BY DEF GetOrInsert, Pointers, stopping
<1>2. PICK r \in Requests : r = request[c]
  BY DEF LimiterTypes
<1>3. ASSUME NEW x, Holds(c, x)
      PROVE  request' = [request EXCEPT ![c] =
                           [stage |-> "holding", generation |-> g, cell |-> x,
                            paused |-> request[c].paused]]
  <2> DEFINE q == [[r EXCEPT !.stage = "holding"] EXCEPT !.cell = x]
  <2>1. request' = [request EXCEPT ![c] = q]
    BY <1>2, <1>3 DEF Holds, LimiterTypes
  <2>2. q = [stage |-> "holding", generation |-> r.generation, cell |-> x,
             paused |-> r.paused]
    BY RequestAt
  <2> HIDE DEF q
  <2> QED BY <1>2, <2>1, <2>2
<1>4. PICK h \in Handlers : h = generation[g]
  BY <1>1 DEF LimiterTypes
<1>6. CASE /\ generation[g].cell # None
           /\ Holds(c, generation[g].cell)
           /\ generation' = [generation EXCEPT ![g].touched = 0]
           /\ UNCHANGED heap
  <2> DEFINE q == [h EXCEPT !.touched = 0]
  <2>1. generation' = [generation EXCEPT ![g] = q]
    BY <1>4, <1>6
  <2>2. q = [config |-> h.config, cell |-> h.cell, touched |-> 0, taken |-> h.taken]
    <3>1. PICK i, j, k, l : h = [config |-> i, cell |-> j, touched |-> k, taken |-> l]
      BY HandlerFields
    <3> QED BY <3>1
  <2>3. h.cell \in Cells
    BY <1>4, <1>6, HandlerFields
  <2> HIDE DEF q
  <2> QED BY <1>1, <1>3, <1>4, <1>6, <2>1, <2>2, <2>3
<1>7. CASE \E x \in Cells :
             /\ generation[g].cell = None
             /\ heap[x] = None
             /\ heap' = [heap EXCEPT ![x] = New(generation[g].config.algorithm)]
             /\ generation' = [generation EXCEPT ![g].cell = x, ![g].touched = 0]
             /\ Holds(c, x)
  <2>1. PICK x \in Cells :
             /\ generation[g].cell = None
             /\ heap[x] = None
             /\ heap' = [heap EXCEPT ![x] = New(generation[g].config.algorithm)]
             /\ generation' = [generation EXCEPT ![g].cell = x, ![g].touched = 0]
             /\ Holds(c, x)
    BY <1>7
  <2> DEFINE q == [[h EXCEPT !.cell = x] EXCEPT !.touched = 0]
  <2>2. generation' = [generation EXCEPT ![g] = q]
    BY <1>1, <1>4, <2>1 DEF LimiterTypes
  <2>3. q = [config |-> h.config, cell |-> x, touched |-> 0, taken |-> h.taken]
    BY HandlerAt
  <2> HIDE DEF q
  <2> QED BY <1>1, <1>3, <1>4, <2>1, <2>2, <2>3
<1> QED BY <1>6, <1>7 DEF GetOrInsert

LEMMA DecideEffect ==
  ASSUME LimiterTypes, ServerTypes, Pointers, NEW c \in Calls, Decide(c),
         NEW g, g = request[c].generation, NEW x, x = request[c].cell,
         NEW result, result = Allow(heap[x], elapsed)
  PROVE  /\ g \in Generations /\ Points(g, x) /\ request[c].stage = "holding"
         /\ UNCHANGED <<active, elapsed, server>>
         /\ request' = [request EXCEPT ![c] =
                          [stage |-> "responding", generation |-> g, cell |-> None,
                           paused |-> 0]]
         /\ generation' = [generation EXCEPT ![g] =
                             [config |-> generation[g].config,
                              cell |-> generation[g].cell,
                              touched |-> generation[g].touched,
                              taken |-> Charged(generation[g].taken, result.allowed)]]
         /\ heap' = Collected([heap EXCEPT ![x] = result.state], generation, request')
<1>1. /\ request[c].stage = "holding" /\ UNCHANGED <<active, elapsed, server>>
      /\ g \in Generations /\ Points(g, x)
  BY DEF Decide, Pointers, stopping
<1>2. request' = [request EXCEPT ![c] =
                    [stage |-> "responding", generation |-> g, cell |-> None,
                     paused |-> 0]]
  <2>1. [[Idle EXCEPT !.stage = "responding"] EXCEPT !.generation = g]
          = [stage |-> "responding", generation |-> g, cell |-> None, paused |-> 0]
    BY IdleAt
  <2> QED BY <2>1 DEF Decide
<1>3. heap' = Collected([heap EXCEPT ![x] = result.state], generation, request')
  BY DEF Decide
<1>4. PICK h \in Handlers : h = generation[g]
  BY <1>1 DEF LimiterTypes
<1>5. PICK i, j, k, l : h = [config |-> i, cell |-> j, touched |-> k, taken |-> l]
  BY HandlerFields
<1> DEFINE log == Charged(h.taken, result.allowed)
           q == [h EXCEPT !.taken = log]
<1>6. generation' = [generation EXCEPT ![g] = q]
  <2>1. 0 \in Ages /\ h.taken \in Logs
    BY LimiterQuantities, HandlerFields DEF Ages
  <2>2. [h.taken EXCEPT ![0] = IF result.allowed THEN @ + Cost ELSE @] = log
    BY <2>1 DEF Charged, Logs
  <2>3. generation' = [generation EXCEPT ![g].taken[0] =
                         IF result.allowed THEN @ + Cost ELSE @]
    BY DEF Decide
  <2> HIDE DEF log
  <2> QED BY <1>4, <2>2, <2>3
<1>7. q = [config |-> h.config, cell |-> h.cell, touched |-> h.touched, taken |-> log]
  <2> HIDE DEF log
  <2> QED BY <1>5
<1> HIDE DEF q
<1> QED BY <1>1, <1>2, <1>3, <1>4, <1>6, <1>7

LEMMA DoneEffect ==
  ASSUME LimiterTypes, NEW c \in Calls, Done(c)
  PROVE  /\ request' = [request EXCEPT ![c] = Idle]
         /\ request[c].stage = "responding"
         /\ generation' = Forgotten(generation, request', active)
         /\ heap' = Collected(heap, generation', request')
         /\ UNCHANGED <<active, elapsed, server>>
BY DEF Done, stopping

LEMMA SweepEffect ==
  ASSUME LimiterTypes, NEW g \in Generations, Sweep(g)
  PROVE  /\ generation[g].cell # None /\ generation[g].touched > TTL
         /\ generation' = [generation EXCEPT ![g] =
                             [config |-> generation[g].config, cell |-> None,
                              touched |-> 0, taken |-> generation[g].taken]]
         /\ heap' = Collected(heap, generation', request')
         /\ UNCHANGED <<active, request, elapsed, server>>
<1>1. PICK h \in Handlers : h = generation[g]
  BY DEF LimiterTypes
<1> DEFINE q == [[h EXCEPT !.cell = None] EXCEPT !.touched = 0]
<1>3. generation' = [generation EXCEPT ![g] = q]
  BY <1>1 DEF LimiterTypes, Sweep
<1>4. q = [config |-> h.config, cell |-> None, touched |-> 0, taken |-> h.taken]
  BY HandlerAt
<1> HIDE DEF q
<1> QED BY <1>1, <1>3, <1>4 DEF Sweep, stopping

LEMMA SwapEffect ==
  ASSUME LimiterTypes, MainTypes, Swap
  PROVE  /\ \E g \in Generations :
              /\ g # active /\ ~InUse(g, request)
              /\ active' = g
              /\ generation' = Forgotten([generation EXCEPT ![g] = Built(reloading.config)],
                                         request, g)
         /\ reloading.config \in Configs
         /\ heap' = Collected(heap, generation', request')
         /\ UNCHANGED <<request, elapsed, server>>
BY DEF Swap, stopping, MainTypes

LEMMA TickEffect ==
  ASSUME LimiterTypes, Tick
  PROVE  /\ UNCHANGED <<active, server>> /\ elapsed' = (elapsed + 1) % Window
         /\ DOMAIN generation' = Generations /\ DOMAIN request' = Calls
         /\ generation' = [g \in Generations |-> generation'[g]]
         /\ request' = [c \in Calls |-> request'[c]]
         /\ heap' = [x \in Cells |-> heap'[x]]
         /\ \A g \in Generations :
              generation'[g] = [config |-> generation[g].config,
                                cell |-> generation[g].cell,
                                touched |-> IF generation[g].cell = None THEN 0
                                            ELSE Min({TTL + 1, generation[g].touched + 1}),
                                taken |-> Aged(generation[g].taken)]
         /\ \A c \in Calls :
              /\ request[c].stage # "holding" => request'[c] = request[c]
              /\ request[c].stage = "holding" =>
                   /\ request[c].paused < MaxPause
                   /\ request'[c] = [stage |-> "holding",
                                     generation |-> request[c].generation,
                                     cell |-> request[c].cell,
                                     paused |-> request[c].paused + 1]
         /\ \A x \in Cells : heap'[x] = IF heap[x] = None THEN None
                                        ELSE Older(heap[x], elapsed' = 0)
<1>1. ASSUME NEW g \in Generations
      PROVE  generation'[g] = [config |-> generation[g].config,
                               cell |-> generation[g].cell,
                               touched |-> IF generation[g].cell = None THEN 0
                                           ELSE Min({TTL + 1, generation[g].touched + 1}),
                               taken |-> Aged(generation[g].taken)]
  <2>1. PICK h \in Handlers : h = generation[g]
    BY DEF LimiterTypes
  <2> DEFINE log == Aged(h.taken)
             touched == IF h.cell = None THEN 0 ELSE Min({TTL + 1, h.touched + 1})
  <2>2. generation'[g] = [h EXCEPT !.taken = log, !.touched = touched]
    BY <2>1 DEF Tick
  <2> HIDE DEF log, touched
  <2>3. PICK i, j, k, l : h = [config |-> i, cell |-> j, touched |-> k, taken |-> l]
    BY HandlerFields
  <2>4. generation'[g] = [config |-> h.config, cell |-> h.cell, touched |-> touched,
                          taken |-> log]
    BY <2>2, <2>3
  <2> QED BY <2>1, <2>4 DEF log, touched
<1>2. ASSUME NEW c \in Calls
      PROVE  /\ request[c].stage # "holding" => request'[c] = request[c]
             /\ request[c].stage = "holding" =>
                  /\ request[c].paused < MaxPause
                  /\ request'[c] = [stage |-> "holding",
                                    generation |-> request[c].generation,
                                    cell |-> request[c].cell,
                                    paused |-> request[c].paused + 1]
  <2>1. PICK r \in Requests : r = request[c]
    BY DEF LimiterTypes
  <2>2. PICK i, j, k, l : r = [stage |-> i, generation |-> j, cell |-> k, paused |-> l]
    BY RequestFields
  <2>3. CASE r.stage = "holding"
    <3> DEFINE n == r.paused + 1
    <3>1. request'[c] = [r EXCEPT !.paused = n] /\ r.paused < MaxPause
      BY <2>1, <2>3 DEF Tick
    <3> HIDE DEF n
    <3>2. request'[c] = [stage |-> r.stage, generation |-> r.generation, cell |-> r.cell,
                         paused |-> n]
      BY <2>2, <3>1
    <3> QED BY <2>1, <2>3, <3>1, <3>2 DEF n
  <2>4. CASE r.stage # "holding"
    BY <2>1, <2>4 DEF Tick
  <2> QED BY <2>1, <2>3, <2>4
<1>3. \A x \in Cells : heap'[x] = IF heap[x] = None THEN None
                                  ELSE Older(heap[x], elapsed' = 0)
  BY DEF Tick
<1>4. /\ UNCHANGED <<active, server>> /\ elapsed' = (elapsed + 1) % Window
      /\ DOMAIN generation' = Generations /\ DOMAIN request' = Calls
      /\ generation' = [g \in Generations |-> generation'[g]]
      /\ request' = [c \in Calls |-> request'[c]]
      /\ heap' = [x \in Cells |-> heap'[x]]
  BY DEF Tick
<1> QED BY <1>1, <1>2, <1>3, <1>4

------------------------------------------------------------------------------
(***************************************************************************)
(* Every step keeps the types.                                             *)
(***************************************************************************)

\* A step that turns no request to a state, points no map to one, keeps what is
\* pointed to and leaves states in it.
LEMMA PointersKept ==
  ASSUME LimiterTypes, Pointers,
         \A c \in Calls : request'[c].stage # "idle" =>
           request'[c].generation \in Generations,
         \A c \in Calls : request'[c].stage = "holding" =>
           /\ request[c].stage = "holding"
           /\ request'[c].generation = request[c].generation
           /\ request'[c].cell = request[c].cell
           /\ generation'[request[c].generation].config =
                generation[request[c].generation].config,
         \A g \in Generations : generation'[g].cell # None =>
           /\ generation'[g].cell = generation[g].cell
           /\ generation'[g].config = generation[g].config,
         \A x \in Cells :
           /\ \/ \E g \in Generations : generation'[g].cell = x
              \/ \E c \in Calls : request'[c].cell = x
           /\ heap[x] \in States
           => heap'[x] \in States /\ heap'[x].algorithm = heap[x].algorithm
  PROVE  Pointers'
<1>1. ASSUME NEW c \in Calls, request'[c].stage = "holding"
      PROVE  Points(request[c].generation, request[c].cell)'
  <2>1. Points(request[c].generation, request[c].cell)
    BY <1>1 DEF Pointers
  <2> QED BY <1>1, <2>1 DEF Points
<1>2. ASSUME NEW g \in Generations, generation'[g].cell # None
      PROVE  Points(g, generation[g].cell)'
  <2>1. Points(g, generation[g].cell) /\ generation'[g].cell = generation[g].cell
    BY <1>2 DEF Pointers
  <2> QED BY <1>2, <2>1 DEF Points
<1> QED BY <1>1, <1>2 DEF Pointers

LEMMA ArriveTypes ==
  ASSUME LimiterTypes, Pointers, NEW c \in Calls, Arrive(c)
  PROVE  LimiterTypes' /\ Pointers'
<1>1. /\ request' = [request EXCEPT ![c] =
                       [stage |-> "routed", generation |-> active, cell |-> None,
                        paused |-> 0]]
      /\ request' \in [Calls -> Requests]
      /\ UNCHANGED <<active, generation, heap>>
  BY ArriveEffect
<1>2. LimiterTypes'
  BY <1>1 DEF LimiterTypes
<1>3. \A d \in Calls : request'[d] = IF d = c THEN [stage |-> "routed",
                         generation |-> active, cell |-> None, paused |-> 0]
                       ELSE request[d]
  BY <1>1 DEF LimiterTypes
<1>4. ASSUME NEW d \in Calls
      PROVE  /\ request'[d].stage # "idle" => request'[d].generation \in Generations
             /\ request'[d].stage = "holding" => request'[d] = request[d]
  <2>1. CASE d = c
    BY <1>3, <2>1 DEF LimiterTypes
  <2>2. CASE d # c
    BY <1>3, <2>2 DEF Pointers
  <2> QED BY <2>1, <2>2
<1>5. \A x \in Cells : heap'[x] = heap[x]
  BY <1>1
<1> QED BY <1>1, <1>2, <1>4, <1>5, PointersKept

LEMMA GetOrInsertTypes ==
  ASSUME LimiterTypes, Pointers, NEW c \in Calls, GetOrInsert(c)
  PROVE  LimiterTypes' /\ Pointers'
<1>0. PICK g : g = request[c].generation
  OBVIOUS
<1>1. g \in Generations /\ UNCHANGED active
  BY <1>0, GetOrInsertEffect
<1>2. PICK x \in Cells :
        /\ request' = [request EXCEPT ![c] =
                         [stage |-> "holding", generation |-> g, cell |-> x,
                          paused |-> request[c].paused]]
        /\ generation' = [generation EXCEPT ![g] =
                            [config |-> generation[g].config, cell |-> x,
                             touched |-> 0, taken |-> generation[g].taken]]
        /\ \/ generation[g].cell = x /\ UNCHANGED heap
           \/ /\ generation[g].cell = None /\ heap[x] = None
              /\ heap' = [heap EXCEPT ![x] = New(generation[g].config.algorithm)]
  BY <1>0, GetOrInsertEffect
<1> DEFINE r == [stage |-> "holding", generation |-> g, cell |-> x,
                 paused |-> request[c].paused]
           h == [config |-> generation[g].config, cell |-> x,
                 touched |-> 0, taken |-> generation[g].taken]
<1>3. r \in Requests
  <2>1. request[c].paused \in 0 .. MaxPause
    BY RequestFields DEF LimiterTypes
  <2> QED BY <1>1, <2>1 DEF Requests
<1>4. /\ h \in Handlers
      /\ generation[g].config.algorithm \in Algorithms
  <2>1. /\ generation[g].config \in Configs /\ generation[g].taken \in Logs
        /\ generation[g].config.algorithm \in Algorithms
    BY <1>1, HandlerFields DEF LimiterTypes
  <2> QED BY <2>1, ProcessQuantities DEF Handlers
<1> DEFINE new == New(generation[g].config.algorithm)
<1>5. new \in States /\ new.algorithm = generation[g].config.algorithm
  <2>1. 0 \in Ages
    BY LimiterQuantities DEF Ages
  <2> QED BY <1>4, <2>1, NewKept
<1>6. /\ \A d \in Calls : request'[d] = IF d = c THEN r ELSE request[d]
      /\ \A k \in Generations : generation'[k] = IF k = g THEN h ELSE generation[k]
  BY <1>1, <1>2 DEF LimiterTypes
<1>7. \A y \in Cells :
        heap'[y] = IF y = x /\ generation[g].cell = None THEN new ELSE heap[y]
  <2>1. None \notin Cells
    BY NoneApart
  <2> HIDE DEF new
  <2>2. CASE generation[g].cell = x /\ UNCHANGED heap
    BY <2>1, <2>2
  <2>3. CASE /\ generation[g].cell = None /\ heap[x] = None
             /\ heap' = [heap EXCEPT ![x] = new]
    BY <2>3 DEF LimiterTypes
  <2> QED BY <1>2, <2>2, <2>3 DEF new
<1>8. generation[g].cell = None => heap[x] = None
  BY <1>2, NoneApart
<1>9. heap' \in [Cells -> States \cup {None}]
  <2>1. CASE UNCHANGED heap
    BY <2>1 DEF LimiterTypes
  <2>2. CASE heap' = [heap EXCEPT ![x] = new]
    <3> HIDE DEF new
    <3> QED BY <1>5, <2>2 DEF LimiterTypes
  <2> QED BY <1>2, <2>1, <2>2
<1>10. LimiterTypes'
  <2> HIDE DEF r, h
  <2> QED BY <1>1, <1>2, <1>3, <1>4, <1>9 DEF LimiterTypes, r, h
<1>11. ASSUME NEW k \in Generations, NEW y, Points(k, y)
       PROVE  Points(k, y)'
  <2>1. generation'[k].config = generation[k].config
    BY <1>6
  <2>2. y \in Cells /\ heap[y] \in States /\ heap[y] # None
    BY <1>11, NoneApart DEF Points
  <2>3. heap'[y] = heap[y]
    BY <1>7, <1>8, <2>2
  <2> QED BY <1>11, <2>1, <2>2, <2>3 DEF Points
<1>12. Points(g, x)'
  <2>1. generation'[g].config = generation[g].config
    BY <1>1, <1>6
  <2>2. CASE generation[g].cell = None
    BY <1>5, <1>7, <2>1, <2>2 DEF Points
  <2>3. CASE generation[g].cell # None
    BY <1>1, <1>2, <1>11, <2>3 DEF Pointers
  <2> QED BY <2>2, <2>3
<1>13. ASSUME NEW d \in Calls
       PROVE  /\ request'[d].stage # "idle" => request'[d].generation \in Generations
              /\ request'[d].stage = "holding" =>
                   Points(request[d].generation, request[d].cell)'
  <2>1. CASE d = c
    <3>1. request'[d].generation = g /\ request'[d].cell = x
      BY <1>6, <2>1
    <3> QED BY <1>1, <1>12, <3>1 DEF Points
  <2>2. CASE d # c
    <3>1. request'[d] = request[d]
      BY <1>6, <2>2
    <3> QED BY <1>11, <3>1 DEF Pointers, Points
  <2> QED BY <2>1, <2>2
<1>14. ASSUME NEW k \in Generations, generation'[k].cell # None
       PROVE  Points(k, generation[k].cell)'
  <2>1. CASE k = g
    <3>1. generation'[k].cell = x
      BY <1>1, <1>6, <2>1
    <3> QED BY <1>12, <2>1, <3>1 DEF Points
  <2>2. CASE k # g
    <3>1. generation'[k] = generation[k]
      BY <1>6, <2>2
    <3> QED BY <1>11, <1>14, <3>1 DEF Pointers, Points
  <2> QED BY <2>1, <2>2
<1> HIDE DEF r, h, new
<1> QED BY <1>10, <1>13, <1>14 DEF Pointers

LEMMA ChargedLog ==
  ASSUME NEW log \in Logs, NEW allowed
  PROVE  Charged(log, allowed) \in Logs
<1>1. 0 \in Ages /\ log[0] + Cost \in Nat
  BY LimiterQuantities DEF Logs, Ages
<1> QED BY <1>1 DEF Charged, Logs

LEMMA DecideTypes ==
  ASSUME LimiterTypes, ServerTypes, Pointers, NEW c \in Calls, Decide(c)
  PROVE  LimiterTypes' /\ Pointers'
<1>1. PICK g, x, result :
        g = request[c].generation /\ x = request[c].cell /\ result = Allow(heap[x], elapsed)
  OBVIOUS
<1>2. /\ g \in Generations /\ Points(g, x) /\ request[c].stage = "holding"
      /\ UNCHANGED <<active, elapsed, server>>
      /\ request' = [request EXCEPT ![c] =
                       [stage |-> "responding", generation |-> g, cell |-> None,
                        paused |-> 0]]
      /\ generation' = [generation EXCEPT ![g] =
                          [config |-> generation[g].config,
                           cell |-> generation[g].cell,
                           touched |-> generation[g].touched,
                           taken |-> Charged(generation[g].taken, result.allowed)]]
      /\ heap' = Collected([heap EXCEPT ![x] = result.state], generation, request')
  BY <1>1, DecideEffect
<1>3. /\ x \in Cells /\ heap[x] \in States /\ elapsed \in Ages
  BY <1>2 DEF Points, ServerTypes
<1>4. result.state \in States /\ result.state.algorithm = heap[x].algorithm
  BY <1>1, <1>3, AllowKept
<1> DEFINE log == Charged(generation[g].taken, result.allowed)
           r == [stage |-> "responding", generation |-> g, cell |-> None, paused |-> 0]
           h == [config |-> generation[g].config, cell |-> generation[g].cell,
                 touched |-> generation[g].touched, taken |-> log]
           objects == [heap EXCEPT ![x] = result.state]
<1>5. r \in Requests
  BY <1>2, ProcessQuantities DEF Requests
<1>6. h \in Handlers
  <2>1. generation[g] \in Handlers
    BY <1>2 DEF LimiterTypes
  <2>2. /\ generation[g].config \in Configs /\ generation[g].cell \in Cells \cup {None}
        /\ generation[g].touched \in 0 .. TTL + 1 /\ generation[g].taken \in Logs
    BY <2>1, HandlerFields
  <2>3. log \in Logs
    BY <2>2, ChargedLog
  <2> HIDE DEF log
  <2> QED BY <2>2, <2>3 DEF Handlers
<1>7. /\ \A d \in Calls : request'[d] = IF d = c THEN r ELSE request[d]
      /\ \A k \in Generations : generation'[k] = IF k = g THEN h ELSE generation[k]
  <2> HIDE DEF log
  <2> QED BY <1>2 DEF LimiterTypes, log
<1>8. /\ objects \in [Cells -> States \cup {None}]
      /\ objects[x] = result.state
      /\ \A y \in Cells : y # x => objects[y] = heap[y]
  BY <1>3, <1>4 DEF LimiterTypes
<1>9. heap' = Collected(objects, generation, request')
  BY <1>2
<1>10. LimiterTypes'
  <2>1. heap' \in [Cells -> States \cup {None}]
    BY <1>8, <1>9, CollectedTypes
  <2> HIDE DEF r, h
  <2> QED BY <1>2, <1>5, <1>6, <2>1 DEF LimiterTypes, r, h
<1>11. ASSUME NEW y \in Cells,
              \/ \E k \in Generations : generation'[k].cell = y
              \/ \E d \in Calls : request'[d].cell = y,
              heap[y] \in States
       PROVE  heap'[y] \in States /\ heap'[y].algorithm = heap[y].algorithm
  <2>1. \A k \in Generations : generation'[k].cell = generation[k].cell
    BY <1>7
  <2> HIDE DEF objects
  <2>2. heap'[y] = objects[y]
    BY <1>8, <1>9, <1>11, <2>1, CollectedTypes
  <2> QED BY <1>4, <1>8, <1>11, <2>2
<1>12. ASSUME NEW d \in Calls
       PROVE  /\ request'[d].stage # "idle" => request'[d].generation \in Generations
              /\ request'[d].stage = "holding" => request'[d] = request[d]
                                                  /\ request[d].stage = "holding"
  <2>1. CASE d = c
    BY <1>2, <1>7, <2>1
  <2>2. CASE d # c
    BY <1>7, <2>2 DEF Pointers
  <2> QED BY <2>1, <2>2
<1>13. \A k \in Generations : /\ generation'[k].cell = generation[k].cell
                              /\ generation'[k].config = generation[k].config
  BY <1>7
<1>14. \A d \in Calls : request[d].stage = "holding" =>
                          request[d].generation \in Generations
  BY DEF Pointers
<1> HIDE DEF r, h, log, objects
<1> QED BY <1>10, <1>11, <1>12, <1>13, <1>14, PointersKept

\* Handlers stay, or are forgotten or emptied of their map; requests stay, or come to
\* an end.
LEMMA LeavingTypes ==
  ASSUME LimiterTypes, Pointers,
         active' \in Generations, generation' \in [Generations -> Handlers],
         request' \in [Calls -> Requests],
         heap' = Collected(heap, generation', request'),
         \A g \in Generations :
           generation'[g] = generation[g] \/ generation'[g].cell = None,
         \A c \in Calls :
           \/ /\ request'[c] = request[c]
              /\ request[c].stage = "holding" =>
                   generation'[request[c].generation].config =
                     generation[request[c].generation].config
           \/ request'[c].stage = "idle"
  PROVE  LimiterTypes' /\ Pointers'
<1>1. /\ heap' \in [Cells -> States \cup {None}]
      /\ \A x \in Cells :
           \/ \E g \in Generations : generation'[g].cell = x
           \/ \E c \in Calls : request'[c].cell = x
           => heap'[x] = heap[x]
  BY CollectedTypes DEF LimiterTypes
<1>2. LimiterTypes'
  BY <1>1 DEF LimiterTypes
<1>3. \A c \in Calls : request'[c].stage # "idle" =>
        request'[c].generation \in Generations
  BY DEF Pointers
<1>4. \A c \in Calls : request'[c].stage = "holding" =>
           /\ request[c].stage = "holding"
           /\ request'[c].generation = request[c].generation
           /\ request'[c].cell = request[c].cell
           /\ generation'[request[c].generation].config =
                generation[request[c].generation].config
  OBVIOUS
<1> QED BY <1>1, <1>2, <1>3, <1>4, PointersKept

LEMMA DoneTypes ==
  ASSUME LimiterTypes, Pointers, NEW c \in Calls, Done(c)
  PROVE  LimiterTypes' /\ Pointers'
<1>1. /\ request' = [request EXCEPT ![c] = Idle]
      /\ generation' = Forgotten(generation, request', active)
      /\ heap' = Collected(heap, generation', request')
      /\ UNCHANGED active
  BY DoneEffect
<1>2. /\ generation' \in [Generations -> Handlers]
      /\ \A g \in Generations :
           generation'[g] = IF g = active \/ InUse(g, request') THEN generation[g]
                            ELSE Unused
  BY <1>1, ForgottenTypes DEF LimiterTypes
<1>3. /\ request' \in [Calls -> Requests]
      /\ \A d \in Calls : request'[d] = IF d = c THEN Idle ELSE request[d]
  BY <1>1, ConfigTypes DEF LimiterTypes
<1>4. Unused.cell = None /\ Idle.stage = "idle"
  BY DEF Unused, Idle
<1>5. ASSUME NEW d \in Calls
      PROVE  \/ /\ request'[d] = request[d]
                /\ request[d].stage = "holding" =>
                     generation'[request[d].generation].config =
                       generation[request[d].generation].config
             \/ request'[d].stage = "idle"
  <2>1. CASE d = c
    BY <1>3, <1>4, <2>1
  <2>2. CASE d # c
    <3>1. request'[d] = request[d]
      BY <1>3, <2>2
    <3>2. InUse(request[d].generation, request')
      BY <3>1 DEF InUse
    <3> QED BY <1>2, <3>1, <3>2 DEF Pointers
  <2> QED BY <2>1, <2>2
<1>6. \A g \in Generations : generation'[g] = generation[g] \/ generation'[g].cell = None
  BY <1>2, <1>4
<1>7. active' \in Generations
  BY <1>1 DEF LimiterTypes
<1> QED BY <1>1, <1>2, <1>3, <1>5, <1>6, <1>7, LeavingTypes

LEMMA SweepTypes ==
  ASSUME LimiterTypes, Pointers, NEW g \in Generations, Sweep(g)
  PROVE  LimiterTypes' /\ Pointers'
<1> DEFINE h == [config |-> generation[g].config, cell |-> None,
                 touched |-> 0, taken |-> generation[g].taken]
<1>1. /\ generation' = [generation EXCEPT ![g] = h]
      /\ heap' = Collected(heap, generation', request')
      /\ UNCHANGED <<active, request>>
  BY SweepEffect
<1>2. h \in Handlers
  <2>1. generation[g].config \in Configs /\ generation[g].taken \in Logs
    BY HandlerFields DEF LimiterTypes
  <2> QED BY <2>1, ProcessQuantities DEF Handlers
<1>3. h.cell = None /\ h.config = generation[g].config
  OBVIOUS
<1> HIDE DEF h
<1>4. /\ generation' \in [Generations -> Handlers]
      /\ \A k \in Generations : generation'[k] = IF k = g THEN h ELSE generation[k]
  BY <1>1, <1>2 DEF LimiterTypes
<1>5. \A k \in Generations : generation'[k] = generation[k] \/ generation'[k].cell = None
  BY <1>3, <1>4
<1>6. \A d \in Calls : request[d].stage = "holding" =>
        generation'[request[d].generation].config =
          generation[request[d].generation].config
  BY <1>3, <1>4 DEF Pointers
<1>7. active' \in Generations /\ request' \in [Calls -> Requests]
  BY <1>1 DEF LimiterTypes
<1> QED BY <1>1, <1>4, <1>5, <1>6, <1>7, LeavingTypes

LEMMA SwapTypes ==
  ASSUME MainTypes, LimiterTypes, Pointers, Swap
  PROVE  LimiterTypes' /\ Pointers'
<1>1. /\ reloading.config \in Configs
      /\ heap' = Collected(heap, generation', request')
      /\ UNCHANGED request
  BY SwapEffect
<1>2. PICK g \in Generations :
        /\ g # active /\ ~InUse(g, request)
        /\ active' = g
        /\ generation' = Forgotten([generation EXCEPT ![g] = Built(reloading.config)],
                                   request, g)
  BY SwapEffect
<1> DEFINE built == [generation EXCEPT ![g] = Built(reloading.config)]
<1>3. /\ built \in [Generations -> Handlers] /\ built[g].cell = None
      /\ \A k \in Generations : k # g => built[k] = generation[k]
  BY <1>1, ConfigTypes DEF LimiterTypes
<1>4. generation' = Forgotten(built, request, g)
  BY <1>2
<1> HIDE DEF built
<1>5. /\ generation' \in [Generations -> Handlers]
      /\ \A k \in Generations :
           generation'[k] = IF k = g \/ InUse(k, request) THEN built[k] ELSE Unused
  BY <1>3, <1>4, ForgottenTypes
<1>6. Unused.cell = None
  BY DEF Unused
<1>7. \A k \in Generations : generation'[k] = generation[k] \/ generation'[k].cell = None
  BY <1>3, <1>5, <1>6
<1>8. ASSUME NEW d \in Calls, request[d].stage = "holding"
      PROVE  generation'[request[d].generation].config =
               generation[request[d].generation].config
  <2>1. InUse(request[d].generation, request) /\ request[d].generation \in Generations
    BY <1>8 DEF InUse, Pointers
  <2> QED BY <1>2, <1>3, <1>5, <2>1
<1>9. active' \in Generations /\ request' \in [Calls -> Requests]
  BY <1>1, <1>2 DEF LimiterTypes
<1> QED BY <1>1, <1>5, <1>7, <1>8, <1>9, LeavingTypes

LEMMA TickTypes ==
  ASSUME LimiterTypes, ServerTypes, Pointers, Tick
  PROVE  LimiterTypes' /\ Pointers'
<1>1. UNCHANGED active /\ elapsed' = (elapsed + 1) % Window
  BY TickEffect
<1>2. ASSUME NEW g \in Generations
      PROVE  /\ generation'[g] \in Handlers
             /\ generation'[g].cell = generation[g].cell
             /\ generation'[g].config = generation[g].config
  <2> DEFINE touched == IF generation[g].cell = None THEN 0
                        ELSE Min({TTL + 1, generation[g].touched + 1})
             log == Aged(generation[g].taken)
  <2>1. generation'[g] = [config |-> generation[g].config, cell |-> generation[g].cell,
                          touched |-> touched, taken |-> log]
    BY TickEffect
  <2>2. /\ generation[g].config \in Configs /\ generation[g].cell \in Cells \cup {None}
        /\ generation[g].touched \in 0 .. TTL + 1 /\ generation[g].taken \in Logs
    BY HandlerFields DEF LimiterTypes
  <2>3. touched \in 0 .. TTL + 1
    BY <2>2, MinOf, ProcessQuantities
  <2>4. log \in Logs
    BY <2>2, YoungerAged, LimiterQuantities
  <2> HIDE DEF touched, log
  <2> QED BY <2>1, <2>2, <2>3, <2>4 DEF Handlers
<1>3. ASSUME NEW c \in Calls
      PROVE  /\ request'[c] \in Requests
             /\ request'[c].stage = request[c].stage
             /\ request'[c].generation = request[c].generation
             /\ request'[c].cell = request[c].cell
  <2>1. CASE request[c].stage # "holding"
    <3>1. request'[c] = request[c]
      BY <2>1, TickEffect
    <3> QED BY <3>1 DEF LimiterTypes
  <2>2. CASE request[c].stage = "holding"
    <3>1. /\ request[c].paused < MaxPause
          /\ request'[c] = [stage |-> "holding", generation |-> request[c].generation,
                            cell |-> request[c].cell, paused |-> request[c].paused + 1]
      BY <2>2, TickEffect
    <3>2. /\ request[c].generation \in Generations \cup {None}
          /\ request[c].cell \in Cells \cup {None} /\ request[c].paused \in 0 .. MaxPause
      BY RequestFields DEF LimiterTypes
    <3>3. request[c].paused + 1 \in 0 .. MaxPause
      BY <3>1, <3>2, ProcessQuantities
    <3> QED BY <2>2, <3>1, <3>2, <3>3 DEF Requests
  <2> QED BY <2>1, <2>2
<1>4. ASSUME NEW x \in Cells
      PROVE  /\ heap'[x] \in States \cup {None}
             /\ heap[x] \in States =>
                  heap'[x] \in States /\ heap'[x].algorithm = heap[x].algorithm
  <2>1. heap'[x] = IF heap[x] = None THEN None ELSE Older(heap[x], elapsed' = 0)
    BY TickEffect
  <2>2. heap[x] \in States \cup {None} /\ None \notin States
    BY NoneApart DEF LimiterTypes
  <2>3. CASE heap[x] \in States
    <3>1. elapsed \in Ages
      BY DEF ServerTypes
    <3>2. heap'[x] = Older(heap[x], (elapsed + 1) % Window = 0)
      BY <1>1, <2>1, <2>2, <2>3
    <3>3. PICK f, q : f = (elapsed + 1) % Window /\ q = Older(heap[x], f = 0)
      OBVIOUS
    <3>4. q \in States /\ q.algorithm = heap[x].algorithm
      BY <2>3, <3>1, <3>3, OlderKept
    <3> QED BY <3>2, <3>3, <3>4
  <2> QED BY <2>1, <2>2, <2>3
<1>5. LimiterTypes'
  <2>1. /\ generation' = [g \in Generations |-> generation'[g]]
        /\ request' = [c \in Calls |-> request'[c]]
        /\ heap' = [x \in Cells |-> heap'[x]]
    BY TickEffect
  <2>2. generation' \in [Generations -> Handlers]
    BY <1>2, <2>1
  <2>3. request' \in [Calls -> Requests]
    BY <1>3, <2>1
  <2>4. heap' \in [Cells -> States \cup {None}]
    BY <1>4, <2>1
  <2> QED BY <1>1, <2>2, <2>3, <2>4 DEF LimiterTypes
<1>6. \A c \in Calls : request[c].stage # "idle" => request[c].generation \in Generations
  BY DEF Pointers
<1>7. \A c \in Calls : request'[c].stage # "idle" =>
           request'[c].generation \in Generations
  BY <1>3, <1>6
<1>8. \A c \in Calls : request'[c].stage = "holding" =>
           /\ request[c].stage = "holding"
           /\ request'[c].generation = request[c].generation
           /\ request'[c].cell = request[c].cell
           /\ generation'[request[c].generation].config =
                generation[request[c].generation].config
  BY <1>2, <1>3, <1>6
<1> QED BY <1>2, <1>4, <1>5, <1>7, <1>8, PointersKept

\* The steps at which the process runs on.
LimiterSteps ==
  \/ \E c \in Calls : Arrive(c) \/ GetOrInsert(c) \/ Decide(c) \/ Done(c)
  \/ \E g \in Generations : Sweep(g)
  \/ Swap
  \/ Tick

\* The steps that leave requests, handlers and states alone.
OtherSteps ==
  \/ EditConfig \/ Hangup \/ TakeSignal
  \/ reloading.stage = "reading" /\ configFile.valid /\ ReadConfig
  \/ ScrapeEnds \/ Terminate \/ MetricsClosed
  \/ UNCHANGED vars

LEMMA KindsOfSteps ==
  ASSUME [Next]_vars
  PROVE  LimiterSteps \/ OtherSteps \/ \E how \in Ended : Exit(how)
<1>1. ASSUME ReadConfig
      PROVE  OtherSteps \/ Exit("crashed")
  BY <1>1 DEF ReadConfig, OtherSteps
<1>2. ASSUME ListenerFails \/ MainClosed
      PROVE  \E how \in Ended : Exit(how)
  BY <1>2 DEF ListenerFails, MainClosed, Ended
<1>3. "crashed" \in Ended
  BY DEF Ended
<1> QED BY <1>1, <1>2, <1>3 DEF Next, LimiterSteps, OtherSteps

LEMMA OtherUnchanged ==
  ASSUME OtherSteps
  PROVE  UNCHANGED <<active, generation, heap, request, elapsed>> /\ (Running' => Running)
<1> USE DEF limiting, stopping, Running, Ended
<1>1. CASE EditConfig \/ Hangup \/ TakeSignal
  BY <1>1 DEF EditConfig, Hangup, TakeSignal
<1>2. CASE reloading.stage = "reading" /\ configFile.valid /\ ReadConfig
  BY <1>2 DEF ReadConfig
<1>3. CASE ScrapeEnds \/ Terminate \/ MetricsClosed
  BY <1>3 DEF ScrapeEnds, Terminate, MetricsClosed
<1>4. CASE UNCHANGED vars
  BY <1>4 DEF vars
<1> QED BY <1>1, <1>2, <1>3, <1>4 DEF OtherSteps

LEMMA LimiterStepsRun ==
  ASSUME LimiterSteps
  PROVE  Running /\ UNCHANGED <<configFile, sighup, signalled, server, scraping>>
<1>1. CASE \E c \in Calls : Arrive(c)
  BY <1>1 DEF Arrive, Running, Ended, reload, stopping
<1>2. CASE \E c \in Calls : GetOrInsert(c) \/ Decide(c) \/ Done(c)
  BY <1>2 DEF GetOrInsert, Decide, Done, reload, stopping
<1>3. CASE \E g \in Generations : Sweep(g)
  BY <1>3 DEF Sweep, reload, stopping
<1>4. CASE Swap
  BY <1>4 DEF Swap, stopping
<1>5. CASE Tick
  BY <1>5 DEF Tick, reload
<1> QED BY <1>1, <1>2, <1>3, <1>4, <1>5 DEF LimiterSteps

LEMMA MainTypesKept ==
  ASSUME MainTypes, [Next]_vars
  PROVE  MainTypes'
<1>1. NoConfig \in Configs
  BY ConfigTypes
<1>2. configFile.version \in 0 .. MaxVersion /\ configFile.algorithm \in Algorithms
  BY DEF MainTypes, Configs
<1>3. CASE EditConfig
  <2>1. Edited[configFile.algorithm] \in Algorithms
    BY <1>2, ProcessAssumption
  <2>2. configFile.version + 1 \in 0 .. MaxVersion
    BY <1>2, <1>3, ProcessQuantities DEF EditConfig
  <2>3. configFile' \in Configs
    BY <1>3, <2>1, <2>2 DEF EditConfig, Configs
  <2> QED BY <1>3, <2>3 DEF EditConfig, MainTypes
<1>4. CASE Hangup
  BY <1>2, <1>4 DEF Hangup, MainTypes
<1>5. CASE TakeSignal
  <2>1. PICK i, j : reloading = [stage |-> i, config |-> j] /\ j \in Configs
    BY DEF MainTypes
  <2>2. reloading' = [stage |-> "reading", config |-> j]
    BY <1>5, <2>1 DEF TakeSignal
  <2> QED BY <1>5, <2>1, <2>2 DEF TakeSignal, MainTypes
<1>6. ASSUME NEW how, Exit(how)
      PROVE  MainTypes'
  BY <1>1, <1>6 DEF Exit, MainTypes
<1>7. CASE ReadConfig
  BY <1>6, <1>7 DEF ReadConfig, MainTypes
<1>8. CASE Swap
  BY <1>1, <1>8 DEF Swap, MainTypes
<1>9. CASE ListenerFails \/ MainClosed
  BY <1>6, <1>9 DEF ListenerFails, MainClosed
<1>10. CASE UNCHANGED reload
  BY <1>10 DEF reload, MainTypes
<1>11. CASE \E c \in Calls : Arrive(c) \/ GetOrInsert(c) \/ Decide(c) \/ Done(c)
  BY <1>10, <1>11 DEF Arrive, GetOrInsert, Decide, Done
<1>12. CASE \E g \in Generations : Sweep(g)
  BY <1>10, <1>12 DEF Sweep
<1>13. CASE ScrapeEnds \/ Terminate \/ MetricsClosed \/ Tick
  BY <1>10, <1>13 DEF ScrapeEnds, Terminate, MetricsClosed, Tick
<1>14. CASE UNCHANGED vars
  BY <1>10, <1>14 DEF vars
<1> QED
  BY <1>3, <1>4, <1>5, <1>7, <1>8, <1>9, <1>11, <1>12, <1>13, <1>14 DEF Next

LEMMA ServerTypesKept ==
  ASSUME ServerTypes, [Next]_vars
  PROVE  ServerTypes'
<1>1. ASSUME NEW how \in Ended, Exit(how)
      PROVE  ServerTypes'
  <2>1. server' = how /\ elapsed' = 0 /\ scraping' = FALSE /\ sinceStop' = sinceStop
    BY <1>1 DEF Exit
  <2>2. 0 \in Ages
    BY LimiterQuantities DEF Ages
  <2> QED BY <2>1, <2>2 DEF ServerTypes
<1>2. CASE Tick
  <2>1. elapsed' \in Ages
    BY <1>2, ClockStep DEF Tick, ServerTypes
  <2>2. sinceStop' \in 0 .. Grace
    <3>1. sinceStop' = IF server = "serving" THEN 0 ELSE Min({Grace, sinceStop + 1})
      BY <1>2 DEF Tick
    <3>2. sinceStop \in Nat /\ Grace \in Nat
      <4>1. sinceStop \in 0 .. Grace
        BY DEF ServerTypes
      <4> QED BY <4>1, ProcessQuantities
    <3>3. Min({Grace, sinceStop + 1}) =
            IF Grace <= sinceStop + 1 THEN Grace ELSE sinceStop + 1
      BY <3>2, MinOf
    <3> QED BY <3>1, <3>2, <3>3
  <2> QED BY <1>2, <2>1, <2>2 DEF Tick, ServerTypes
<1>3. CASE ScrapeEnds \/ Terminate \/ MetricsClosed
  BY <1>3 DEF ScrapeEnds, Terminate, MetricsClosed, ServerTypes
<1>4. CASE UNCHANGED <<stopping, elapsed>>
  BY <1>4 DEF stopping, ServerTypes
<1>5. CASE EditConfig \/ Hangup \/ TakeSignal \/ Swap
  BY <1>4, <1>5 DEF EditConfig, Hangup, TakeSignal, Swap
<1>6. CASE ReadConfig
  BY <1>1, <1>4, <1>6 DEF ReadConfig, Ended
<1>7. CASE \E c \in Calls : Arrive(c) \/ GetOrInsert(c) \/ Decide(c) \/ Done(c)
  BY <1>4, <1>7 DEF Arrive, GetOrInsert, Decide, Done
<1>8. CASE \E g \in Generations : Sweep(g)
  BY <1>4, <1>8 DEF Sweep
<1>9. CASE ListenerFails \/ MainClosed
  BY <1>1, <1>9 DEF ListenerFails, MainClosed, Ended
<1>10. CASE UNCHANGED vars
  BY <1>4, <1>10 DEF vars
<1> QED
  BY <1>2, <1>3, <1>5, <1>6, <1>7, <1>8, <1>9, <1>10 DEF Next

LEMMA TypeInvInit == Init => TypeInv
<1> SUFFICES ASSUME Init
             PROVE  TypeInv
  OBVIOUS
<1>1. configFile \in Configs
  <2>1. configFile \in [version : {1}, valid : {TRUE}, algorithm : First]
    BY DEF Init
  <2>2. First \subseteq Algorithms /\ 1 \in 0 .. MaxVersion
    BY ProcessAssumption, ProcessQuantities
  <2> QED BY <2>1, <2>2 DEF Configs
<1>2. MainTypes
  <2>1. /\ sighup = FALSE /\ signalled = 1
        /\ reloading = [stage |-> "waiting", config |-> NoConfig]
    BY DEF Init
  <2>2. NoConfig \in Configs /\ 1 \in 0 .. MaxVersion
    BY ConfigTypes, ProcessQuantities
  <2> QED BY <1>1, <2>1, <2>2 DEF MainTypes
<1>3. ServerTypes
  <2>1. server = "serving" /\ sinceStop = 0 /\ scraping = FALSE /\ elapsed = 0
    BY DEF Init
  <2>2. 0 \in Ages /\ 0 \in 0 .. Grace
    BY LimiterQuantities, ProcessQuantities DEF Ages
  <2> QED BY <2>1, <2>2 DEF ServerTypes
<1>4. Unused.cell = None /\ Built(configFile).cell = None /\ Idle.stage = "idle"
  BY <1>1, ConfigTypes DEF Unused, Idle
<1>5. LimiterTypes
  BY <1>1, ConfigTypes DEF Init, LimiterTypes
<1>6. Pointers
  BY <1>4 DEF Init, Pointers
<1> QED BY <1>2, <1>3, <1>5, <1>6 DEF TypeInv

LEMMA TypeInvStep ==
  ASSUME TypeInv, [Next]_vars
  PROVE  TypeInv'
<1>1. MainTypes' /\ ServerTypes'
  BY MainTypesKept, ServerTypesKept DEF TypeInv
<1>2. CASE LimiterSteps
  <2>1. Pointers
    BY <1>2, LimiterStepsRun DEF TypeInv
  <2>2. LimiterTypes' /\ Pointers'
    BY <1>2, <2>1, ArriveTypes, GetOrInsertTypes, DecideTypes, DoneTypes, SweepTypes,
       SwapTypes, TickTypes DEF LimiterSteps, TypeInv
  <2> QED BY <1>1, <2>2 DEF TypeInv
<1>3. CASE OtherSteps
  <2>1. UNCHANGED <<active, generation, heap, request>> /\ (Running' => Running)
    BY <1>3, OtherUnchanged
  <2>2. LimiterTypes'
    BY <2>1 DEF TypeInv, LimiterTypes
  <2>3. Running' => Pointers'
    BY <2>1 DEF TypeInv, Pointers, Points
  <2> QED BY <1>1, <2>2, <2>3 DEF TypeInv
<1>4. CASE \E how \in Ended : Exit(how)
  <2>1. ~Running'
    BY <1>4 DEF Exit, Running
  <2>2. LimiterTypes'
    BY <1>4, ConfigTypes DEF Exit, TypeInv, LimiterTypes
  <2> QED BY <1>1, <2>1, <2>2 DEF TypeInv
<1> QED BY <1>2, <1>3, <1>4, KindsOfSteps

\* Every variable keeps its type, and a request that has got its state holds one of the
\* algorithm that its handler was configured with, whatever is edited, reloaded, swept
\* or stopped meanwhile: for any number of requests and handlers, and any limiter.
THEOREM ProcessTypeCorrect == Spec => []TypeOK
<1>1. ASSUME TypeInv
      PROVE  TypeOK
  <2>1. ASSUME NEW c \in Calls, Running, request[c].stage = "holding"
        PROVE  /\ request[c].cell # None /\ heap[request[c].cell] # None
               /\ heap[request[c].cell].algorithm =
                    generation[request[c].generation].config.algorithm
    BY <1>1, <2>1, NoneApart DEF TypeInv, Pointers, Points
  <2>2. /\ generation \in [Generations -> [config : Configs, cell : Cells \cup {None},
                                          touched : 0 .. TTL + 1, taken : [Ages -> Nat]]]
        /\ request \in [Calls -> [stage : {"idle", "routed", "holding", "responding"},
                                  generation : Generations \cup {None},
                                  cell : Cells \cup {None}, paused : 0 .. MaxPause]]
        /\ active \in Generations /\ heap \in [Cells -> States \cup {None}]
    BY <1>1 DEF TypeInv, LimiterTypes, Handlers, Requests, Logs
  <2> QED BY <1>1, <2>1, <2>2 DEF TypeInv, TypeOK, MainTypes, ServerTypes
<1> QED BY <1>1, TypeInvInit, TypeInvStep, PTL DEF Spec

------------------------------------------------------------------------------
(***************************************************************************)
(* The quota.                                                              *)
(***************************************************************************)

\* A request keeps a state that its handler's map still has, and no longer than
\* MaxPause since it was touched.
Holding(c) ==
  LET g == request[c].generation IN
  IF request[c].stage = "holding"
    THEN /\ request[c].cell = generation[g].cell
         /\ generation[g].touched <= request[c].paused
    ELSE request[c].paused = 0 /\ request[c].cell = None

\* What a handler has admitted is in the state that its map points to; without one it
\* has admitted nothing, and what it admitted it did soon after touching the map.
Accounted(g) ==
  /\ generation[g].cell = None => generation[g].taken = Nothing
  /\ generation[g].cell # None =>
       Kept(heap[generation[g].cell], generation[g].taken, elapsed)
  /\ \A a \in Ages :
       generation[g].taken[a] > 0 => generation[g].touched <= a + MaxPause

Apart(g, h) == generation[g].cell # None => generation[g].cell # generation[h].cell

Use ==
  /\ \A c \in Calls : Holding(c)
  /\ \A g \in Generations : Accounted(g)
  /\ \A g, h \in Generations : g # h => Apart(g, h)

Ready == LimiterTypes /\ Pointers /\ Use /\ elapsed \in Ages

\* Handlers stay, or are emptied having admitted nothing; requests stay, or get rid of
\* their state.
LEMMA LeavingUse ==
  ASSUME Ready,
         elapsed' = elapsed,
         \A g \in Generations :
           \/ generation'[g] = generation[g]
           \/ generation'[g].cell = None /\ generation'[g].taken = Nothing,
         \A c \in Calls :
           \/ /\ request'[c] = request[c]
              /\ request[c].stage = "holding" =>
                   generation'[request[c].generation] = generation[request[c].generation]
           \/ /\ request'[c].stage # "holding"
              /\ request'[c].paused = 0 /\ request'[c].cell = None,
         \A g \in Generations : generation'[g].cell # None =>
           heap'[generation'[g].cell] = heap[generation'[g].cell]
  PROVE  Use'
<1>1. ASSUME NEW c \in Calls
      PROVE  Holding(c)'
  <2>1. Holding(c)
    BY DEF Ready, Use
  <2>2. CASE /\ request'[c] = request[c]
             /\ request[c].stage = "holding" =>
                  generation'[request[c].generation] = generation[request[c].generation]
    BY <2>1, <2>2 DEF Holding
  <2>3. CASE /\ request'[c].stage # "holding"
             /\ request'[c].paused = 0 /\ request'[c].cell = None
    BY <2>3 DEF Holding
  <2> QED BY <2>2, <2>3
<1>2. ASSUME NEW g \in Generations
      PROVE  Accounted(g)'
  <2>1. Accounted(g)
    BY DEF Ready, Use
  <2>2. CASE generation'[g] = generation[g]
    BY <2>1, <2>2 DEF Accounted
  <2>3. CASE generation'[g].cell = None /\ generation'[g].taken = Nothing
    <3>1. \A a \in Ages : ~(Nothing[a] > 0)
      BY DEF Nothing
    <3> QED BY <2>3, <3>1 DEF Accounted
  <2> QED BY <2>2, <2>3
<1>3. ASSUME NEW g \in Generations, NEW h \in Generations, g # h
      PROVE  Apart(g, h)'
  <2>1. Apart(g, h)
    BY <1>3 DEF Ready, Use
  <2> QED BY <2>1 DEF Apart
<1> QED BY <1>1, <1>2, <1>3 DEF Use

LEMMA ArriveUse ==
  ASSUME Ready, NEW c \in Calls, Arrive(c)
  PROVE  Use'
<1>1. /\ request' = [request EXCEPT ![c] =
                       [stage |-> "routed", generation |-> active, cell |-> None,
                        paused |-> 0]]
      /\ UNCHANGED <<active, generation, heap, elapsed>>
  BY ArriveEffect DEF Ready
<1>2. ASSUME NEW d \in Calls
      PROVE  \/ request'[d] = request[d]
             \/ /\ request'[d].stage # "holding"
                /\ request'[d].paused = 0 /\ request'[d].cell = None
  BY <1>1 DEF Ready, LimiterTypes
<1> QED BY <1>1, <1>2, LeavingUse

LEMMA GetOrInsertUse ==
  ASSUME Ready, NEW c \in Calls, GetOrInsert(c)
  PROVE  Use'
<1>1. PICK g : g = request[c].generation
  OBVIOUS
<1>2. /\ g \in Generations /\ request[c].stage = "routed"
      /\ UNCHANGED <<active, elapsed>>
  BY <1>1, GetOrInsertEffect DEF Ready
<1>3. PICK x \in Cells :
        /\ request' = [request EXCEPT ![c] =
                         [stage |-> "holding", generation |-> g, cell |-> x,
                          paused |-> request[c].paused]]
        /\ generation' = [generation EXCEPT ![g] =
                            [config |-> generation[g].config, cell |-> x,
                             touched |-> 0, taken |-> generation[g].taken]]
        /\ \/ generation[g].cell = x /\ UNCHANGED heap
           \/ /\ generation[g].cell = None /\ heap[x] = None
              /\ heap' = [heap EXCEPT ![x] = New(generation[g].config.algorithm)]
  BY <1>1, GetOrInsertEffect DEF Ready
<1> DEFINE r == [stage |-> "holding", generation |-> g, cell |-> x,
                 paused |-> request[c].paused]
           h == [config |-> generation[g].config, cell |-> x,
                 touched |-> 0, taken |-> generation[g].taken]
           new == New(generation[g].config.algorithm)
<1>4. /\ \A d \in Calls : request'[d] = IF d = c THEN r ELSE request[d]
      /\ \A k \in Generations : generation'[k] = IF k = g THEN h ELSE generation[k]
  BY <1>2, <1>3 DEF Ready, LimiterTypes
<1>5. request[c].paused = 0 /\ Accounted(g)
  BY <1>2 DEF Ready, Use, Holding
<1>6. ASSUME NEW k \in Generations, k # g, generation[k].cell # None
      PROVE  generation[k].cell # x /\ heap'[generation[k].cell] = heap[generation[k].cell]
  <2>1. Points(k, generation[k].cell) /\ Apart(k, g)
    BY <1>2, <1>6 DEF Ready, Pointers, Use
  <2>2. /\ generation[k].cell \in Cells /\ heap[generation[k].cell] # None
        /\ generation[k].cell # generation[g].cell
    BY <1>6, <2>1, NoneApart DEF Points, Apart
  <2> HIDE DEF new
  <2>3. CASE generation[g].cell = x /\ UNCHANGED heap
    BY <2>2, <2>3
  <2>4. CASE heap[x] = None /\ heap' = [heap EXCEPT ![x] = new]
    BY <2>2, <2>4 DEF Ready, LimiterTypes
  <2> QED BY <1>3, <2>3, <2>4 DEF new
<1>7. x # None
  BY NoneApart
<1>8. ASSUME NEW d \in Calls
      PROVE  Holding(d)'
  <2>1. CASE d = c
    <3>1. request'[d] = r /\ generation'[g] = h
      BY <1>2, <1>4, <2>1
    <3>2. /\ request'[d].stage = "holding" /\ request'[d].cell = x
          /\ request'[d].generation = g /\ request'[d].paused = 0
          /\ generation'[g].cell = x /\ generation'[g].touched = 0
      BY <1>5, <3>1
    <3> QED BY <3>2 DEF Holding
  <2>2. CASE d # c /\ request[d].stage # "holding"
    BY <1>4, <2>2 DEF Ready, Use, Holding
  <2>3. CASE d # c /\ request[d].stage = "holding" /\ request[d].generation # g
    BY <1>4, <2>3 DEF Ready, Use, Holding, Pointers
  <2>4. CASE d # c /\ request[d].stage = "holding" /\ request[d].generation = g
    <3>1. Holding(d) /\ Points(g, request[d].cell) /\ request[d] \in Requests
      BY <2>4 DEF Ready, Use, Pointers, LimiterTypes
    <3>2. request[d].paused \in Nat
      BY <3>1, RequestFields, ProcessQuantities
    <3>3. generation[g].cell = request[d].cell /\ generation[g].cell # None
      BY <2>4, <3>1, NoneApart DEF Holding, Points
    <3>4. generation[g].cell = x
      BY <1>3, <3>3
    <3>5. request'[d] = request[d] /\ generation'[g] = h
      BY <1>2, <1>4, <2>4
    <3>6. generation'[g].cell = x /\ generation'[g].touched = 0
      BY <3>5
    <3>7. /\ request'[d].stage = "holding" /\ request'[d].generation = g
          /\ request'[d].cell = x /\ 0 <= request'[d].paused
      <4> HIDE DEF h
      <4>1. request'[d].paused = request[d].paused
        BY <3>5
      <4>2. 0 <= request[d].paused
        BY <3>2
      <4> QED BY <2>4, <3>3, <3>4, <3>5, <4>1, <4>2
    <3> HIDE DEF h
    <3> QED BY <3>6, <3>7 DEF Holding
  <2> QED BY <2>1, <2>2, <2>3, <2>4
<1>9. ASSUME NEW k \in Generations
      PROVE  Accounted(k)'
  <2>1. CASE k # g
    <3>1. generation'[k] = generation[k] /\ elapsed' = elapsed /\ Accounted(k)
      BY <1>2, <1>4, <2>1 DEF Ready, Use
    <3> QED BY <1>6, <2>1, <3>1 DEF Accounted
  <2>2. CASE k = g
    <3>1. /\ generation'[g].cell = x /\ generation'[g].touched = 0
          /\ generation'[g].taken = generation[g].taken
      BY <1>2, <1>4
    <3>2. Kept(heap'[x], generation[g].taken, elapsed)
      <4>1. CASE generation[g].cell = x /\ UNCHANGED heap
        BY <1>5, <1>7, <4>1 DEF Accounted
      <4>2. CASE /\ generation[g].cell = None
                 /\ heap' = [heap EXCEPT ![x] = New(generation[g].config.algorithm)]
        <5>1. generation[g].taken = Nothing
          BY <1>5, <4>2 DEF Accounted
        <5>2. generation[g].config.algorithm \in Algorithms
          BY <1>2, HandlerFields DEF Ready, LimiterTypes
        <5>3. Kept(new, Nothing, elapsed)
          BY <5>2, NewKept DEF Ready
        <5>4. heap'[x] = new
          <6> HIDE DEF new
          <6>1. heap' = [heap EXCEPT ![x] = new]
            BY <4>2 DEF new
          <6> QED BY <6>1 DEF Ready, LimiterTypes
        <5> QED BY <5>1, <5>3, <5>4
      <4> QED BY <1>3, <4>1, <4>2
    <3>3. \A a \in Ages : 0 <= a + MaxPause
      BY ProcessQuantities DEF Ages
    <3>4. elapsed' = elapsed
      BY <1>2
    <3> QED BY <1>7, <2>2, <3>1, <3>2, <3>3, <3>4 DEF Accounted
  <2> QED BY <2>1, <2>2
<1>10. ASSUME NEW k \in Generations, NEW m \in Generations, k # m
       PROVE  Apart(k, m)'
  <2>1. Apart(k, m)
    BY <1>10 DEF Ready, Use
  <2>2. generation'[g].cell = x
    BY <1>2, <1>4
  <2>3. CASE k = g
    <3>1. generation'[m] = generation[m]
      BY <1>4, <1>10, <2>3
    <3> QED BY <1>6, <1>7, <1>10, <2>2, <2>3, <3>1 DEF Apart
  <2>4. CASE m = g
    <3>1. generation'[k] = generation[k]
      BY <1>4, <1>10, <2>4
    <3> QED BY <1>6, <1>10, <2>2, <2>4, <3>1 DEF Apart
  <2>5. CASE k # g /\ m # g
    BY <1>4, <2>1, <2>5 DEF Apart
  <2> QED BY <2>3, <2>4, <2>5
<1> QED BY <1>8, <1>9, <1>10 DEF Use

LEMMA DecideUse ==
  ASSUME Ready, ServerTypes, NEW c \in Calls, Decide(c)
  PROVE  Use'
<1>1. PICK g, x, result :
        g = request[c].generation /\ x = request[c].cell /\ result = Allow(heap[x], elapsed)
  OBVIOUS
<1>2. /\ g \in Generations /\ Points(g, x) /\ request[c].stage = "holding"
      /\ UNCHANGED <<active, elapsed, server>>
      /\ request' = [request EXCEPT ![c] =
                       [stage |-> "responding", generation |-> g, cell |-> None,
                        paused |-> 0]]
      /\ generation' = [generation EXCEPT ![g] =
                          [config |-> generation[g].config,
                           cell |-> generation[g].cell,
                           touched |-> generation[g].touched,
                           taken |-> Charged(generation[g].taken, result.allowed)]]
      /\ heap' = Collected([heap EXCEPT ![x] = result.state], generation, request')
  BY <1>1, DecideEffect DEF Ready
<1> DEFINE log == Charged(generation[g].taken, result.allowed)
           r == [stage |-> "responding", generation |-> g, cell |-> None, paused |-> 0]
           h == [config |-> generation[g].config, cell |-> generation[g].cell,
                 touched |-> generation[g].touched, taken |-> log]
           objects == [heap EXCEPT ![x] = result.state]
<1>3. /\ x \in Cells /\ heap[x] \in States /\ x # None
      /\ generation[g].cell = x /\ generation[g].touched <= request[c].paused
  BY <1>1, <1>2, NoneApart DEF Points, Ready, Use, Holding
<1>4. result.state \in States
  BY <1>1, <1>3, AllowKept DEF Ready
<1>5. /\ generation[g].taken \in Logs /\ generation[g].touched \in Nat
      /\ request[c].paused \in Nat /\ request[c].paused <= MaxPause
  BY <1>2, HandlerFields, RequestFields, ProcessQuantities DEF Ready, LimiterTypes
<1>6. /\ \A d \in Calls : request'[d] = IF d = c THEN r ELSE request[d]
      /\ \A k \in Generations : generation'[k] = IF k = g THEN h ELSE generation[k]
  <2> HIDE DEF log
  <2> QED BY <1>2 DEF Ready, LimiterTypes, log
<1>7. \A k \in Generations : /\ generation'[k].cell = generation[k].cell
                             /\ generation'[k].touched = generation[k].touched
  BY <1>6
<1>8. /\ heap'[x] = result.state
      /\ \A k \in Generations : generation[k].cell # None /\ k # g =>
           heap'[generation[k].cell] = heap[generation[k].cell]
  <2>1. /\ objects \in [Cells -> States \cup {None}]
        /\ objects[x] = result.state
        /\ \A y \in Cells : y # x => objects[y] = heap[y]
    BY <1>3, <1>4 DEF Ready, LimiterTypes
  <2>2. heap' = Collected(objects, generation, request')
    BY <1>2
  <2> HIDE DEF objects
  <2>3. \A k \in Generations :
          generation[k].cell \in Cells =>
            heap'[generation[k].cell] = objects[generation[k].cell]
    BY <2>1, <2>2, CollectedTypes
  <2>4. \A k \in Generations : generation[k].cell # None /\ k # g =>
          generation[k].cell \in Cells /\ generation[k].cell # x
    BY <1>2, <1>3 DEF Ready, Pointers, Points, Use, Apart
  <2> QED BY <1>2, <1>3, <2>1, <2>3, <2>4
<1>9. ASSUME NEW d \in Calls
      PROVE  Holding(d)'
  <2>1. CASE d = c
    <3>1. request'[d] = r
      BY <1>6, <2>1
    <3>2. request'[d].stage = "responding" /\ request'[d].cell = None
          /\ request'[d].paused = 0
      BY <3>1
    <3> QED BY <3>2 DEF Holding
  <2>2. CASE d # c
    <3>1. request'[d] = request[d] /\ Holding(d)
      BY <1>6, <2>2 DEF Ready, Use
    <3>2. request[d].stage = "holding" => request[d].generation \in Generations
      BY DEF Ready, Pointers
    <3> QED BY <1>7, <3>1, <3>2 DEF Holding
  <2> QED BY <2>1, <2>2
<1>10. ASSUME NEW k \in Generations
       PROVE  Accounted(k)'
  <2>1. CASE k # g
    <3>1. generation'[k] = generation[k] /\ elapsed' = elapsed /\ Accounted(k)
      BY <1>2, <1>6, <2>1 DEF Ready, Use
    <3> QED BY <1>8, <2>1, <3>1 DEF Accounted
  <2>2. CASE k = g
    <3>1. Accounted(g)
      BY <1>2 DEF Ready, Use
    <3>2. Kept(heap'[x], log, elapsed)
      BY <1>1, <1>3, <1>5, <1>8, <3>1, AllowKept DEF Ready, Accounted
    <3>3. ASSUME NEW a \in Ages, log[a] > 0
          PROVE  generation[g].touched <= a + MaxPause
      <4>1. CASE a = 0
        BY <1>3, <1>5, <4>1, ProcessQuantities
      <4>2. CASE a # 0
        <5>1. log[a] = generation[g].taken[a]
          BY <1>5, <4>2 DEF Charged, Logs
        <5> QED BY <3>1, <3>3, <5>1 DEF Accounted
      <4> QED BY <4>1, <4>2
    <3>4. /\ generation'[g].cell = x /\ generation'[g].taken = log
          /\ generation'[g].touched = generation[g].touched /\ elapsed' = elapsed
      <4> HIDE DEF log
      <4> QED BY <1>2, <1>3, <1>6
    <3> HIDE DEF log
    <3> QED BY <1>3, <2>2, <3>2, <3>3, <3>4 DEF Accounted
  <2> QED BY <2>1, <2>2
<1>11. ASSUME NEW k \in Generations, NEW m \in Generations, k # m
       PROVE  Apart(k, m)'
  BY <1>7, <1>11 DEF Ready, Use, Apart
<1> QED BY <1>9, <1>10, <1>11 DEF Use

\* What a map points to is not collected.
LEMMA MapsCollected ==
  ASSUME LimiterTypes, heap' = Collected(heap, generation', request'),
         \A g \in Generations : generation'[g].cell # None => generation'[g].cell \in Cells
  PROVE  \A g \in Generations : generation'[g].cell # None =>
           heap'[generation'[g].cell] = heap[generation'[g].cell]
<1> SUFFICES ASSUME NEW g \in Generations, NEW x \in Cells, generation'[g].cell = x
             PROVE  heap'[x] = heap[x]
  OBVIOUS
<1>1. Collected(heap, generation', request')[x] = heap[x]
  BY CollectedTypes DEF LimiterTypes
<1> QED BY <1>1

LEMMA DoneUse ==
  ASSUME Ready, NEW c \in Calls, Done(c)
  PROVE  Use'
<1>1. /\ request' = [request EXCEPT ![c] = Idle]
      /\ generation' = Forgotten(generation, request', active)
      /\ heap' = Collected(heap, generation', request')
      /\ UNCHANGED <<active, elapsed>>
  BY DoneEffect DEF Ready
<1>2. /\ generation' \in [Generations -> Handlers]
      /\ \A g \in Generations :
           generation'[g] = IF g = active \/ InUse(g, request') THEN generation[g]
                            ELSE Unused
  BY <1>1, ForgottenTypes DEF Ready, LimiterTypes
<1>3. \A d \in Calls : request'[d] = IF d = c THEN Idle ELSE request[d]
  BY <1>1 DEF Ready, LimiterTypes
<1>4. /\ Unused.cell = None /\ Unused.taken = Nothing
      /\ Idle.stage # "holding" /\ Idle.cell = None /\ Idle.paused = 0
  BY DEF Unused, Idle, Nothing
<1>5. ASSUME NEW d \in Calls
      PROVE  \/ /\ request'[d] = request[d]
                /\ request[d].stage = "holding" =>
                     generation'[request[d].generation] = generation[request[d].generation]
             \/ /\ request'[d].stage # "holding"
                /\ request'[d].paused = 0 /\ request'[d].cell = None
  <2>1. CASE d = c
    BY <1>3, <1>4, <2>1
  <2>2. CASE d # c
    <3>1. request'[d] = request[d]
      BY <1>3, <2>2
    <3>2. InUse(request[d].generation, request')
      BY <3>1 DEF InUse
    <3> QED BY <1>2, <3>1, <3>2 DEF Ready, Pointers
  <2> QED BY <2>1, <2>2
<1>6. \A g \in Generations :
        \/ generation'[g] = generation[g]
        \/ generation'[g].cell = None /\ generation'[g].taken = Nothing
  BY <1>2, <1>4
<1>7. \A g \in Generations : generation'[g].cell # None =>
        heap'[generation'[g].cell] = heap[generation'[g].cell]
  <2>1. \A g \in Generations : generation'[g].cell \in Cells \cup {None}
    BY <1>2, HandlerFields
  <2> QED BY <1>1, <2>1, MapsCollected DEF Ready
<1> QED BY <1>1, <1>5, <1>6, <1>7, LeavingUse

LEMMA SwapUse ==
  ASSUME Ready, MainTypes, Swap
  PROVE  Use'
<1>1. /\ reloading.config \in Configs
      /\ heap' = Collected(heap, generation', request')
      /\ UNCHANGED <<request, elapsed>>
  BY SwapEffect DEF Ready
<1>2. PICK g \in Generations :
        /\ g # active /\ ~InUse(g, request)
        /\ generation' = Forgotten([generation EXCEPT ![g] = Built(reloading.config)],
                                   request, g)
  BY SwapEffect DEF Ready
<1> DEFINE built == [generation EXCEPT ![g] = Built(reloading.config)]
<1>3. /\ built \in [Generations -> Handlers]
      /\ built[g].cell = None /\ built[g].taken = Nothing
      /\ \A k \in Generations : k # g => built[k] = generation[k]
  BY <1>1, ConfigTypes DEF Ready, LimiterTypes
<1>4. generation' = Forgotten(built, request, g)
  BY <1>2
<1> HIDE DEF built
<1>5. /\ generation' \in [Generations -> Handlers]
      /\ \A k \in Generations :
           generation'[k] = IF k = g \/ InUse(k, request) THEN built[k] ELSE Unused
  BY <1>3, <1>4, ForgottenTypes
<1>6. Unused.cell = None /\ Unused.taken = Nothing
  BY DEF Unused, Nothing
<1>7. \A k \in Generations :
        \/ generation'[k] = generation[k]
        \/ generation'[k].cell = None /\ generation'[k].taken = Nothing
  BY <1>3, <1>5, <1>6
<1>8. ASSUME NEW d \in Calls, request[d].stage = "holding"
      PROVE  generation'[request[d].generation] = generation[request[d].generation]
  <2>1. InUse(request[d].generation, request) /\ request[d].generation \in Generations
    BY <1>8 DEF InUse, Ready, Pointers
  <2> QED BY <1>2, <1>3, <1>5, <2>1
<1>9. \A k \in Generations : generation'[k].cell # None =>
        heap'[generation'[k].cell] = heap[generation'[k].cell]
  <2>1. \A k \in Generations : generation'[k].cell \in Cells \cup {None}
    BY <1>5, HandlerFields
  <2> QED BY <1>1, <2>1, MapsCollected DEF Ready
<1> QED BY <1>1, <1>7, <1>8, <1>9, LeavingUse

\* The maps keep an entry for long enough: whatever was admitted through it is out of
\* every window, and no request can still hold it.
Patient == Window + MaxPause <= TTL + 1

LEMMA SweptEntry ==
  ASSUME Ready, Patient, NEW g \in Generations, generation[g].touched > TTL
  PROVE  /\ generation[g].taken = Nothing
         /\ \A c \in Calls :
              request[c].stage = "holding" => request[c].generation # g
<1>1. generation[g].touched \in Nat /\ generation[g].taken \in Logs
  BY HandlerFields, ProcessQuantities DEF Ready, LimiterTypes
<1>2. ASSUME NEW a \in Ages
      PROVE  generation[g].taken[a] = 0
  <2>1. a \in Nat /\ a <= Window - 1
    BY LimiterQuantities DEF Ages
  <2>2. generation[g].taken[a] > 0 => generation[g].touched <= a + MaxPause
    BY DEF Ready, Use, Accounted
  <2>3. generation[g].taken[a] \in Nat
    BY <1>1 DEF Logs
  <2> QED BY <1>1, <2>1, <2>2, <2>3, LimiterQuantities, ProcessQuantities DEF Patient
<1>3. generation[g].taken = Nothing
  <2>1. generation[g].taken = [a \in Ages |-> generation[g].taken[a]]
    BY <1>1 DEF Logs
  <2> QED BY <1>2, <2>1 DEF Nothing
<1>4. ASSUME NEW c \in Calls, request[c].stage = "holding", request[c].generation = g
      PROVE  FALSE
  <2>1. generation[g].touched <= request[c].paused
    BY <1>4 DEF Ready, Use, Holding
  <2>2. request[c].paused \in Nat /\ request[c].paused <= MaxPause
    BY RequestFields, ProcessQuantities DEF Ready, LimiterTypes
  <2> QED BY <1>1, <2>1, <2>2, LimiterQuantities, ProcessQuantities DEF Patient
<1> QED BY <1>3, <1>4

LEMMA SweepUse ==
  ASSUME Ready, Patient, NEW g \in Generations, Sweep(g)
  PROVE  Use'
<1> DEFINE h == [config |-> generation[g].config, cell |-> None,
                 touched |-> 0, taken |-> generation[g].taken]
<1>1. /\ generation' = [generation EXCEPT ![g] = h]
      /\ heap' = Collected(heap, generation', request')
      /\ UNCHANGED <<request, elapsed>>
      /\ generation[g].touched > TTL
  BY SweepEffect DEF Ready
<1>2. /\ generation[g].taken = Nothing
      /\ \A c \in Calls : request[c].stage = "holding" => request[c].generation # g
  BY <1>1, SweptEntry
<1>3. \A k \in Generations : generation'[k] = IF k = g THEN h ELSE generation[k]
  BY <1>1 DEF Ready, LimiterTypes
<1>4. h.cell = None /\ h.taken = Nothing
  BY <1>2
<1> HIDE DEF h
<1>5. \A k \in Generations :
        \/ generation'[k] = generation[k]
        \/ generation'[k].cell = None /\ generation'[k].taken = Nothing
  BY <1>3, <1>4
<1>6. \A d \in Calls : request[d].stage = "holding" =>
        generation'[request[d].generation] = generation[request[d].generation]
  BY <1>2, <1>3 DEF Ready, Pointers
<1>7. \A k \in Generations : generation'[k].cell # None =>
        heap'[generation'[k].cell] = heap[generation'[k].cell]
  <2>1. \A k \in Generations : generation[k].cell \in Cells \cup {None}
    BY HandlerFields DEF Ready, LimiterTypes
  <2>2. \A k \in Generations : generation'[k].cell # None =>
          generation'[k].cell \in Cells
    BY <1>3, <1>4, <2>1
  <2> QED BY <1>1, <2>2, MapsCollected DEF Ready
<1> QED BY <1>1, <1>5, <1>6, <1>7, LeavingUse

LEMMA AgedNothing == Aged(Nothing) = Nothing
BY LimiterQuantities DEF Aged, Nothing, Ages

LEMMA TickUse ==
  ASSUME Ready, Tick
  PROVE  Use'
<1>1. elapsed' = (elapsed + 1) % Window
  BY TickEffect DEF Ready
<1>2. ASSUME NEW g \in Generations
      PROVE  /\ generation'[g].cell = generation[g].cell
             /\ generation'[g].taken = Aged(generation[g].taken)
             /\ generation'[g].touched \in Nat
             /\ generation'[g].touched <= generation[g].touched + 1
             /\ generation[g].touched \in Nat /\ generation[g].taken \in Logs
  <2> DEFINE touched == IF generation[g].cell = None THEN 0
                        ELSE Min({TTL + 1, generation[g].touched + 1})
             log == Aged(generation[g].taken)
  <2>1. generation'[g] = [config |-> generation[g].config, cell |-> generation[g].cell,
                          touched |-> touched, taken |-> log]
    BY TickEffect DEF Ready
  <2>2. generation[g].touched \in Nat /\ generation[g].taken \in Logs
    BY HandlerFields, ProcessQuantities DEF Ready, LimiterTypes
  <2>3. touched \in Nat /\ touched <= generation[g].touched + 1
    BY <2>2, MinOf, ProcessQuantities
  <2> HIDE DEF touched
  <2> QED BY <2>1, <2>2, <2>3
<1>3. ASSUME NEW c \in Calls
      PROVE  Holding(c)'
  <2>1. Holding(c)
    BY DEF Ready, Use
  <2>2. CASE request[c].stage # "holding"
    <3>1. request'[c] = request[c]
      BY <2>2, TickEffect DEF Ready
    <3> QED BY <2>1, <2>2, <3>1 DEF Holding
  <2>3. CASE request[c].stage = "holding"
    <3>1. PICK g \in Generations : g = request[c].generation
      BY <2>3 DEF Ready, Pointers
    <3>2. request'[c] = [stage |-> "holding", generation |-> request[c].generation,
                         cell |-> request[c].cell, paused |-> request[c].paused + 1]
      BY <2>3, TickEffect DEF Ready
    <3>3. /\ request'[c].stage = "holding" /\ request'[c].generation = g
          /\ request'[c].cell = request[c].cell
          /\ request'[c].paused = request[c].paused + 1
      BY <3>1, <3>2
    <3>4. /\ request[c].cell = generation[g].cell
          /\ generation[g].touched <= request[c].paused
      BY <2>1, <2>3, <3>1 DEF Holding
    <3>5. request[c].paused \in Nat
      BY RequestFields, ProcessQuantities DEF Ready, LimiterTypes
    <3>6. generation'[g].touched <= request'[c].paused
      BY <1>2, <3>3, <3>4, <3>5
    <3> QED BY <1>2, <3>3, <3>4, <3>6 DEF Holding
  <2> QED BY <2>2, <2>3
<1>4. ASSUME NEW g \in Generations
      PROVE  Accounted(g)'
  <2>1. Accounted(g)
    BY DEF Ready, Use
  <2>2. generation[g].cell = None => Aged(generation[g].taken) = Nothing
    BY <2>1, AgedNothing DEF Accounted
  <2>3. ASSUME generation[g].cell # None
        PROVE  Kept(heap'[generation[g].cell], Aged(generation[g].taken), elapsed')
    <3>1. PICK x : x = generation[g].cell
      OBVIOUS
    <3>2. x \in Cells /\ heap[x] \in States /\ heap[x] # None
      BY <2>3, <3>1, NoneApart DEF Ready, Pointers, Points
    <3>3. PICK f, q : f = (elapsed + 1) % Window /\ q = Older(heap[x], f = 0)
      OBVIOUS
    <3>4. heap'[x] = q /\ elapsed' = f
      <4>1. heap'[x] = IF heap[x] = None THEN None ELSE Older(heap[x], elapsed' = 0)
        BY <3>2, TickEffect DEF Ready
      <4>2. elapsed' = f
        BY <1>1, <3>3
      <4> QED BY <3>2, <3>3, <4>1, <4>2
    <3>5. Kept(heap[x], generation[g].taken, elapsed)
      BY <2>1, <2>3, <3>1 DEF Accounted
    <3>6. Kept(q, Aged(generation[g].taken), f)
      BY <1>2, <3>2, <3>3, <3>5, OlderKept DEF Ready
    <3> QED BY <3>1, <3>4, <3>6
  <2>4. ASSUME NEW a \in Ages, Aged(generation[g].taken)[a] > 0
        PROVE  generation'[g].touched <= a + MaxPause
    <3>1. a # 0 /\ generation[g].taken[a - 1] > 0
      BY <2>4 DEF Aged
    <3>2. a - 1 \in Ages /\ a \in Nat
      BY <3>1, LimiterQuantities DEF Ages
    <3>3. generation[g].touched <= (a - 1) + MaxPause
      BY <2>1, <3>1, <3>2 DEF Accounted
    <3> QED BY <1>2, <3>2, <3>3, ProcessQuantities
  <2> QED BY <1>2, <2>2, <2>3, <2>4 DEF Accounted
<1>5. ASSUME NEW g \in Generations, NEW h \in Generations, g # h
      PROVE  Apart(g, h)'
  <2>1. Apart(g, h)
    BY <1>5 DEF Ready, Use
  <2> QED BY <1>2, <2>1 DEF Apart
<1> QED BY <1>3, <1>4, <1>5 DEF Use

\* After the end all memory is gone.
QuotaInv ==
  /\ TypeInv
  /\ IF Running THEN Use ELSE generation = [g \in Generations |-> Unused]

LEMMA QuotaInvInit == Init => QuotaInv
<1> SUFFICES ASSUME Init
             PROVE  QuotaInv
  OBVIOUS
<1>1. TypeInv
  BY TypeInvInit
<1>2. Running
  BY DEF Init, Running, Ended
<1>3. \A c \in Calls : Holding(c)
  BY DEF Init, Holding, Idle
<1>4. ASSUME NEW g \in Generations
      PROVE  generation[g].cell = None /\ generation[g].taken = Nothing
  <2>1. Unused.cell = None /\ Unused.taken = Nothing
    BY DEF Unused, Nothing
  <2>2. configFile \in Configs
    BY <1>1 DEF TypeInv, MainTypes
  <2>3. Built(configFile).cell = None /\ Built(configFile).taken = Nothing
    BY <2>2, ConfigTypes
  <2>4. generation[g] \in {Built(configFile), Unused}
    BY DEF Init
  <2> QED BY <2>1, <2>3, <2>4
<1>5. \A a \in Ages : ~(Nothing[a] > 0)
  BY DEF Nothing
<1>6. \A g \in Generations : Accounted(g)
  BY <1>4, <1>5 DEF Accounted
<1>7. \A g, h \in Generations : Apart(g, h)
  BY <1>4 DEF Apart
<1> QED BY <1>1, <1>2, <1>3, <1>6, <1>7 DEF QuotaInv, Use

LEMMA QuotaInvStep ==
  ASSUME QuotaInv, Patient, [Next]_vars
  PROVE  QuotaInv'
<1>1. TypeInv'
  BY TypeInvStep DEF QuotaInv
<1>2. CASE LimiterSteps
  <2>1. Running /\ server' = server
    BY <1>2, LimiterStepsRun
  <2>2. Ready /\ MainTypes /\ ServerTypes
    BY <2>1 DEF QuotaInv, TypeInv, ServerTypes, Ready
  <2>3. Use'
    BY <1>2, <2>2, ArriveUse, GetOrInsertUse, DecideUse, DoneUse, SweepUse, SwapUse,
       TickUse DEF LimiterSteps
  <2> QED BY <1>1, <2>1, <2>3 DEF QuotaInv, Running
<1>3. CASE OtherSteps
  <2>1. UNCHANGED <<generation, heap, request, elapsed>> /\ (Running' => Running)
    BY <1>3, OtherUnchanged
  <2>2. Running => Running'
    BY <1>3 DEF OtherSteps, EditConfig, Hangup, TakeSignal, ReadConfig, ScrapeEnds,
                Terminate, MetricsClosed, vars, stopping, Running, Ended
  <2>3. Use => Use'
    BY <2>1 DEF Use, Holding, Accounted, Apart
  <2> QED BY <1>1, <2>1, <2>2, <2>3 DEF QuotaInv
<1>4. CASE \E how \in Ended : Exit(how)
  <2>1. ~Running' /\ generation' = [g \in Generations |-> Unused]
    BY <1>4 DEF Exit, Running
  <2> QED BY <1>1, <2>1 DEF QuotaInv
<1> QED BY <1>2, <1>3, <1>4, KindsOfSteps

LEMMA QuotaFollows ==
  ASSUME QuotaInv
  PROVE  LocalQuota
<1> SUFFICES ASSUME NEW g \in Generations
             PROVE  Sum(generation[g].taken) <= Most(generation[g].config.algorithm)
  BY DEF LocalQuota
<1>1. generation[g].config.algorithm \in Algorithms /\ generation[g].taken \in Logs
  BY HandlerFields DEF QuotaInv, TypeInv, LimiterTypes
<1>2. CASE generation[g].taken = Nothing
  BY <1>1, <1>2, NothingMost
<1>3. CASE Running /\ generation[g].taken # Nothing
  <2>1. Accounted(g)
    BY <1>3 DEF QuotaInv, Use
  <2>2. /\ generation[g].cell # None
        /\ Kept(heap[generation[g].cell], generation[g].taken, elapsed)
    BY <1>3, <2>1 DEF Accounted
  <2>3. Points(g, generation[g].cell) /\ elapsed \in Ages
    BY <1>3, <2>2 DEF QuotaInv, TypeInv, Pointers, ServerTypes
  <2> QED BY <1>1, <2>2, <2>3, KeptMost DEF Points
<1>4. CASE ~Running
  <2>1. Unused.taken = Nothing
    BY DEF Unused, Nothing
  <2> QED BY <1>2, <1>4, <2>1 DEF QuotaInv
<1> QED BY <1>2, <1>3, <1>4

\* A local limiter keeps its quota through the janitor's deletions, reloads and pauses,
\* for any algorithm, limit, window and cost and any number of requests and handlers,
\* when the TTL of the maps outlasts a window and a pause.
THEOREM LocalQuotaKept ==
  ASSUME Window + MaxPause <= TTL + 1
  PROVE  Spec => []LocalQuota
<1>1. Patient
  BY DEF Patient
<1>2. QuotaInv /\ [Next]_vars => QuotaInv'
  BY <1>1, QuotaInvStep
<1> QED BY <1>2, QuotaInvInit, QuotaFollows, PTL DEF Spec

================================================================================
