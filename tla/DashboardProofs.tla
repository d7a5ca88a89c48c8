---------------------------- MODULE DashboardProofs -----------------------------
(***************************************************************************)
(* Theorems about module Dashboard: what the pages show is right for any   *)
(* number of calls under way, any rates, quotas and keys, and however the  *)
(* reader moves between the pages.                                         *)
(***************************************************************************)
EXTENDS Dashboard, FiniteSetTheorems, SequenceTheorems, TLAPS

------------------------------------------------------------------------------
(***************************************************************************)
(* Sums.                                                                   *)
(***************************************************************************)

LEMMA UnitsAre ==
  ASSUME NEW f, NEW S, NEW u
  PROVE  u \in Units(f, S) <=> \E x \in S : \E i \in 1 .. f[x] : u = <<x, i>>
<1>1. ASSUME NEW x, u \in {x} \X (1 .. f[x])
      PROVE  \E i \in 1 .. f[x] : u = <<x, i>>
  BY <1>1
<1> QED
  BY <1>1 DEF Units

LEMMA UpTo ==
  ASSUME NEW n \in Nat
  PROVE  IsFiniteSet(1 .. n) /\ Cardinality(1 .. n) = n /\ IsFiniteSet(0 .. n)
<1>1. 0 \in Int /\ 1 \in Int /\ n \in Int
  OBVIOUS
<1>2. IsFiniteSet(1 .. n) /\ Cardinality(1 .. n) = IF 1 > n THEN 0 ELSE n - 1 + 1
  BY <1>1, FS_Interval
<1>3. IsFiniteSet(0 .. n)
  BY <1>1, FS_Interval
<1> QED
  BY <1>2, <1>3

LEMMA UnitsFinite ==
  ASSUME NEW S, IsFiniteSet(S), NEW f, \A x \in S : f[x] \in Nat
  PROVE  IsFiniteSet(Units(f, S)) /\ Cardinality(Units(f, S)) \in Nat
<1> DEFINE part == [x \in S |-> {x} \X (1 .. f[x])]
           parts == {{x} \X (1 .. f[x]) : x \in S}
<1>1. part \in Surjection(S, parts)
  BY DEF Surjection
<1>2. IsFiniteSet(parts)
  <2> HIDE DEF part, parts
  <2> QED
    BY <1>1, FS_Surjection
<1>3. ASSUME NEW x \in S
      PROVE  IsFiniteSet({x} \X (1 .. f[x]))
  <2>1. IsFiniteSet({x}) /\ IsFiniteSet(1 .. f[x])
    BY UpTo, FS_Singleton
  <2> QED
    BY <2>1, FS_Product
<1>4. \A p \in parts : IsFiniteSet(p)
  BY <1>3
<1>5. IsFiniteSet(UNION parts)
  <2> HIDE DEF parts
  <2> QED
    BY <1>2, <1>4, FS_UNION
<1> QED
  BY <1>5, FS_CardinalityType DEF Units

LEMMA UnitsSplit ==
  ASSUME NEW S, IsFiniteSet(S), NEW f, \A x \in S : f[x] \in Nat, NEW y \in S
  PROVE  Cardinality(Units(f, S)) = Cardinality(Units(f, S \ {y})) + f[y]
<1> DEFINE rest == Units(f, S \ {y})
           mine == {y} \X (1 .. f[y])
<1>1. IsFiniteSet(rest)
  <2>1. IsFiniteSet(S \ {y})
    BY FS_Difference
  <2> QED
    BY <2>1, UnitsFinite
<1>2. IsFiniteSet(mine) /\ Cardinality(mine) = f[y]
  <2>1. f[y] \in Nat
    OBVIOUS
  <2>2. IsFiniteSet(1 .. f[y]) /\ Cardinality(1 .. f[y]) = f[y]
    BY <2>1, UpTo
  <2>3. IsFiniteSet({y}) /\ Cardinality({y}) = 1
    BY FS_Singleton
  <2>4. IsFiniteSet(mine) /\ Cardinality(mine) = Cardinality({y}) * Cardinality(1 .. f[y])
    BY <2>2, <2>3, FS_Product
  <2> QED
    BY <2>1, <2>2, <2>3, <2>4
<1>3. Units(f, S) = rest \cup mine
  BY DEF Units
<1>4. rest \cap mine = {}
  BY DEF Units
<1>5. Cardinality(rest \cap mine) = 0 /\ Cardinality(rest) \in Nat
  BY <1>1, <1>4, FS_EmptySet, FS_CardinalityType
<1> HIDE DEF rest, mine
<1>6. Cardinality(rest \cup mine) = Cardinality(rest) + Cardinality(mine) - Cardinality(rest \cap mine)
  BY <1>1, <1>2, FS_Union
<1>7. f[y] \in Nat
  OBVIOUS
<1> QED
  BY <1>2, <1>3, <1>5, <1>6, <1>7 DEF rest

\* Functions to numbers, on a finite set.
Amounts(f, S) == DOMAIN f = S /\ IsFiniteSet(S) /\ \A x \in S : f[x] \in Nat

LEMMA SumType ==
  ASSUME NEW f, NEW S, Amounts(f, S)
  PROVE  Sum(f) \in Nat /\ IsFiniteSet(Units(f, S)) /\ Sum(f) = Cardinality(Units(f, S))
BY UnitsFinite DEF Amounts, Sum

LEMMA SumPart ==
  ASSUME NEW f, NEW S, Amounts(f, S), NEW y \in S
  PROVE  f[y] \in Nat /\ f[y] <= Sum(f)
<1>1. /\ IsFiniteSet(S) /\ \A x \in S : f[x] \in Nat
      /\ IsFiniteSet(S \ {y}) /\ \A x \in S \ {y} : f[x] \in Nat
  BY FS_Difference DEF Amounts
<1>2. Sum(f) = Cardinality(Units(f, S \ {y})) + f[y]
  BY <1>1, UnitsSplit, SumType
<1>3. Cardinality(Units(f, S \ {y})) \in Nat
  BY <1>1, UnitsFinite
<1> QED
  BY <1>1, <1>2, <1>3

\* A change of one part.
LEMMA SumExcept ==
  ASSUME NEW f, NEW h, NEW S, Amounts(f, S), Amounts(h, S),
         NEW y \in S, \A x \in S \ {y} : h[x] = f[x]
  PROVE  Sum(h) = Sum(f) - f[y] + h[y]
<1>1. /\ IsFiniteSet(S) /\ \A x \in S : f[x] \in Nat /\ h[x] \in Nat
      /\ IsFiniteSet(S \ {y})
  BY FS_Difference DEF Amounts
<1>2. Units(f, S \ {y}) = Units(h, S \ {y})
  BY DEF Units
<1>3. /\ Sum(f) = Cardinality(Units(f, S \ {y})) + f[y]
      /\ Sum(h) = Cardinality(Units(h, S \ {y})) + h[y]
  BY <1>1, UnitsSplit, SumType
<1>4. Cardinality(Units(f, S \ {y})) \in Nat
  BY <1>1, UnitsFinite
<1> QED
  BY <1>1, <1>2, <1>3, <1>4

LEMMA SumZero ==
  ASSUME NEW f, NEW S, DOMAIN f = S, \A x \in S : f[x] = 0
  PROVE  Sum(f) = 0
<1>1. Units(f, S) = {}
  BY DEF Units
<1> QED
  BY <1>1, FS_EmptySet DEF Sum

LEMMA SumMonotone ==
  ASSUME NEW f, NEW h, NEW S, Amounts(f, S), Amounts(h, S), \A x \in S : f[x] <= h[x]
  PROVE  Sum(f) <= Sum(h)
<1>1. ASSUME NEW x \in S
      PROVE  1 .. f[x] \subseteq 1 .. h[x]
  BY DEF Amounts
<1>2. Units(f, S) \subseteq Units(h, S)
  BY <1>1, UnitsAre
<1>3. Cardinality(Units(f, S)) <= Cardinality(Units(h, S))
  BY <1>2, SumType, FS_Subset
<1> QED
  BY <1>3, SumType

\* What gets one older, up to the age n, does not become more.
LEMMA SumOlder ==
  ASSUME NEW n \in Nat, NEW f \in [0 .. n -> Nat], NEW h \in [0 .. n -> Nat], h[0] = 0,
         \A a \in 1 .. n : h[a] <= f[a - 1] + (IF a = n THEN f[a] ELSE 0)
  PROVE  Sum(h) <= Sum(f)
<1> DEFINE younger == [u \in Units(h, 0 .. n) |->
                         IF u[2] <= f[u[1] - 1] THEN <<u[1] - 1, u[2]>>
                         ELSE <<u[1], u[2] - f[u[1] - 1]>>]
<1>1. Amounts(f, 0 .. n) /\ Amounts(h, 0 .. n)
  BY UpTo DEF Amounts
<1>2. ASSUME NEW u \in Units(h, 0 .. n)
      PROVE  \E a \in 1 .. n : \E i \in 1 .. h[a] : u = <<a, i>>
  <2>1. PICK a \in 0 .. n : \E i \in 1 .. h[a] : u = <<a, i>>
    BY UnitsAre
  <2>2. a # 0
    BY <2>1
  <2> QED
    BY <2>1, <2>2
<1>3. ASSUME NEW a \in 1 .. n, NEW i \in 1 .. h[a]
      PROVE  /\ a - 1 \in 0 .. n /\ f[a - 1] \in Nat /\ f[a] \in Nat
             /\ i <= f[a - 1] => i \in 1 .. f[a - 1]
             /\ i <= f[a - 1] \/ (a = n /\ i - f[a - 1] \in 1 .. f[a])
  <2>1. a - 1 \in 0 .. n /\ a \in 0 .. n /\ h[a] \in Nat
    OBVIOUS
  <2>2. f[a - 1] \in Nat /\ f[a] \in Nat /\ i \in Nat /\ i >= 1 /\ i <= h[a]
    BY <2>1
  <2>3. i <= f[a - 1] + (IF a = n THEN f[a] ELSE 0)
    BY <2>1, <2>2
  <2> QED
    BY <2>1, <2>2, <2>3
<1>4. ASSUME NEW u \in Units(h, 0 .. n)
      PROVE  younger[u] \in Units(f, 0 .. n)
  <2>8. PICK a \in 1 .. n : \E i \in 1 .. h[a] : u = <<a, i>>
    BY <1>2
  <2>1. PICK i \in 1 .. h[a] : u = <<a, i>>
    BY <2>8
  <2>2. CASE i <= f[a - 1]
    <3>1. younger[u] = <<a - 1, i>>
      BY <2>1, <2>2
    <3> QED
      BY <3>1, <2>2, <1>3, UnitsAre
  <2>3. CASE ~(i <= f[a - 1])
    <3>1. younger[u] = <<a, i - f[a - 1]>>
      BY <2>1, <2>3
    <3>2. a \in 0 .. n /\ i - f[a - 1] \in 1 .. f[a]
      BY <2>3, <1>3
    <3> QED
      BY <3>1, <3>2, UnitsAre
  <2> QED
    BY <2>2, <2>3
<1>5. ASSUME NEW u \in Units(h, 0 .. n), NEW v \in Units(h, 0 .. n), younger[u] = younger[v]
      PROVE  u = v
  <2>8. PICK a \in 1 .. n : \E i \in 1 .. h[a] : u = <<a, i>>
    BY <1>2
  <2>1. PICK i \in 1 .. h[a] : u = <<a, i>>
    BY <2>8
  <2>9. PICK b \in 1 .. n : \E j \in 1 .. h[b] : v = <<b, j>>
    BY <1>2
  <2>2. PICK j \in 1 .. h[b] : v = <<b, j>>
    BY <2>9
  <2>3. /\ younger[u] = IF i <= f[a - 1] THEN <<a - 1, i>> ELSE <<a, i - f[a - 1]>>
        /\ younger[v] = IF j <= f[b - 1] THEN <<b - 1, j>> ELSE <<b, j - f[b - 1]>>
    BY <2>1, <2>2
  <2>4. /\ f[a - 1] \in Nat /\ f[b - 1] \in Nat
        /\ i <= f[a - 1] \/ a = n
        /\ j <= f[b - 1] \/ b = n
    <3>1. f[a - 1] \in Nat /\ (i <= f[a - 1] \/ a = n)
      BY <1>3
    <3>2. f[b - 1] \in Nat /\ (j <= f[b - 1] \/ b = n)
      BY <1>3
    <3> QED
      BY <3>1, <3>2
  <2>5. i \in Nat /\ j \in Nat /\ a \in Nat /\ b \in Nat
    OBVIOUS
  <2> DEFINE p == younger[u]
             q == younger[v]
  <2>6. p = q /\ p = (IF i <= f[a - 1] THEN <<a - 1, i>> ELSE <<a, i - f[a - 1]>>)
           /\ q = (IF j <= f[b - 1] THEN <<b - 1, j>> ELSE <<b, j - f[b - 1]>>)
    BY <1>5, <2>3
  <2>7. a = b /\ i = j
    <3> HIDE DEF younger, p, q
    <3>1. CASE i <= f[a - 1] /\ j <= f[b - 1]
      <4>1. <<a - 1, i>> = <<b - 1, j>>
        BY <2>6, <3>1
      <4>2. a - 1 = b - 1 /\ i = j
        BY <4>1
      <4> QED
        BY <4>2, <2>5
    <3>2. CASE i <= f[a - 1] /\ ~(j <= f[b - 1])
      <4>1. <<a - 1, i>> = <<b, j - f[b - 1]>>
        BY <2>6, <3>2
      <4>2. b = n
        BY <2>4, <3>2
      <4>3. a - 1 = n
        BY <4>1, <4>2
      <4> QED
        BY <4>3, <2>5
    <3>3. CASE ~(i <= f[a - 1]) /\ j <= f[b - 1]
      <4>1. <<a, i - f[a - 1]>> = <<b - 1, j>>
        BY <2>6, <3>3
      <4>2. a = n
        BY <2>4, <3>3
      <4>3. n = b - 1
        BY <4>1, <4>2
      <4> QED
        BY <4>3, <2>5
    <3>4. CASE ~(i <= f[a - 1]) /\ ~(j <= f[b - 1])
      <4>1. <<a, i - f[a - 1]>> = <<b, j - f[b - 1]>>
        BY <2>6, <3>4
      <4>2. a = b /\ i - f[a - 1] = j - f[b - 1]
        BY <4>1
      <4> QED
        BY <4>2, <2>4, <2>5
    <3> QED
      BY <3>1, <3>2, <3>3, <3>4
  <2> QED
    BY <2>1, <2>2, <2>7
<1>6. younger \in Injection(Units(h, 0 .. n), Units(f, 0 .. n))
  <2>1. younger \in [Units(h, 0 .. n) -> Units(f, 0 .. n)]
    BY <1>4
  <2> HIDE DEF younger
  <2> QED
    BY <1>5, <2>1 DEF Injection, IsInjective
<1>7. Cardinality(Units(h, 0 .. n)) <= Cardinality(Units(f, 0 .. n))
  <2> HIDE DEF younger
  <2> QED
    BY <1>1, <1>6, SumType, FS_Injection
<1> QED
  BY <1>1, <1>7, SumType

------------------------------------------------------------------------------
(***************************************************************************)
(* The parts: a step of the dashboard is a step of some and leaves the     *)
(* others alone.                                                           *)
(***************************************************************************)

LEMMA PartsStep ==
  ASSUME [Next]_vars
  PROVE  /\ VisualizerNext \/ LeaveVisualizer \/ UNCHANGED visualizer
         /\ DocsNext \/ LeaveDocs \/ UNCHANGED docs
         /\ \/ ReadSaved \/ toggleTheme \/ ToggleThrows \/ OtherTab \/ ReloadTheme
            \/ UNCHANGED themes
         /\ pathname \in Pages => pathname' \in Pages
<1>1. ASSUME NEW p \in Pages, Show(p)
      PROVE  LeaveVisualizer /\ LeaveDocs /\ UNCHANGED themes /\ pathname' \in Pages
  BY <1>1 DEF Show
<1>2. CASE Launch
  <2>1. PICK p \in {"/visualizer", "/docs"} : Show(p)
    BY <1>2 DEF Launch
  <2>2. p \in Pages
    BY DEF Pages
  <2> QED
    BY <1>1, <2>1, <2>2
<1>3. CASE UNCHANGED vars
  BY <1>3 DEF vars
<1>4. CASE LoadTheme \/ SwitchTheme \/ Reload
  BY <1>4 DEF LoadTheme, SwitchTheme, Reload
<1>5. CASE UseVisualizer \/ ReadDocs
  BY <1>5 DEF UseVisualizer, ReadDocs
<1>6. CASE Navigate
  BY <1>1, <1>6 DEF Navigate
<1> QED
  BY <1>2, <1>3, <1>4, <1>5, <1>6 DEF Next

------------------------------------------------------------------------------
(***************************************************************************)
(* The theme.                                                              *)
(***************************************************************************)

ThemeInv == ThemeTypeOK /\ ThemeShown

LEMMA ThemeStart == ThemeInit => ThemeInv
BY DEF ThemeInit, Loaded, ThemeInv, ThemeTypeOK, ThemeShown, Themes

LEMMA ThemeStep ==
  ASSUME ThemeInv,
         \/ ReadSaved \/ toggleTheme \/ ToggleThrows \/ OtherTab \/ ReloadTheme
         \/ UNCHANGED themes
  PROVE  ThemeInv'
<1> USE ThemeAssumption DEF ThemeInv, ThemeTypeOK, ThemeShown, Themes, NextTheme
<1>1. CASE ReadSaved
  BY <1>1 DEF ReadSaved, ShowClass
<1>2. CASE toggleTheme
  BY <1>2 DEF toggleTheme, ShowClass
<1>3. CASE OtherTab \/ ReloadTheme
  BY <1>3 DEF OtherTab, ReloadTheme
<1>4. CASE ToggleThrows
  BY <1>4 DEF ToggleThrows
<1>5. CASE UNCHANGED themes
  BY <1>5 DEF themes
<1> QED
  BY <1>1, <1>2, <1>3, <1>4, <1>5

\* ThemeContext.tsx: the document shows the theme that the provider says, and the
\* storage holds the theme of the tab switched last, whatever other tabs, reloads
\* and pages come in between, unless the last theme could not be stored.
THEOREM ThemeKept == Spec => []ThemeShown
<1>1. Init => ThemeInv
  BY ThemeStart DEF Init
<1>2. ThemeInv /\ [Next]_vars => ThemeInv'
  BY PartsStep, ThemeStep
<1>3. ThemeInv => ThemeShown
  BY DEF ThemeInv
<1> QED
  BY <1>1, <1>2, <1>3, PTL DEF Spec

------------------------------------------------------------------------------
(***************************************************************************)
(* The documentation.                                                      *)
(***************************************************************************)

\* The request the tester waits for is the last one, and what is on display else
\* is its answer.
Waiting ==
  IF isTesting THEN lastKey \in Keys /\ inFlight = {lastKey}
  ELSE inFlight = {} /\ (testResult # None => testResult.key = lastKey)

\* The reader's place, and the tester's request.
Reading ==
  /\ activeSection \in Sections /\ searchQuery \in Queries
  /\ copiedId \in Snippets \cup {None}
  /\ testKey \in Keys /\ isTesting \in BOOLEAN
  /\ testResult = None \/ testResult \in [key : Keys, status : {"200", "429", "503"},
                                          simulated : BOOLEAN]
  /\ lastKey \in Keys \cup {None}
  /\ Waiting

\* The timers of copyCode.
Timers ==
  /\ timers \in [0 .. CopyTime -> Nat]
  /\ Sum(timers) <= MaxTimers

DocsInv == Reading /\ Timers

LEMMA DocsNumbers == CopyTime \in Nat /\ MaxTimers \in Nat
BY DocsAssumption

LEMMA TimersAmounts ==
  ASSUME NEW f \in [0 .. CopyTime -> Nat]
  PROVE  Amounts(f, 0 .. CopyTime) /\ Sum(f) \in Nat
<1>1. Amounts(f, 0 .. CopyTime)
  BY DocsNumbers, UpTo DEF Amounts
<1> QED
  BY <1>1, SumType

LEMMA NoTimers ==
  ASSUME timers' = [a \in 0 .. CopyTime |-> 0]
  PROVE  Timers'
<1> DEFINE f == [a \in 0 .. CopyTime |-> 0]
<1>1. DOMAIN f = 0 .. CopyTime /\ (\A a \in 0 .. CopyTime : f[a] = 0) /\ f \in [0 .. CopyTime -> Nat]
  OBVIOUS
<1>2. Sum(f) = 0
  <2> HIDE DEF f
  <2> QED
    BY <1>1, SumZero
<1> HIDE DEF f
<1>3. timers' = f
  BY DEF f
<1> QED
  BY <1>1, <1>2, <1>3, DocsNumbers DEF Timers

\* The marks and the tester at the start.
LEMMA DocsLoaded ==
  ASSUME LeaveDocs
  PROVE  DocsInv'
<1>1. Timers'
  BY NoTimers DEF LeaveDocs
<1>2. Reading'
  BY DocsAssumption DEF LeaveDocs, Reading, Waiting
<1> QED
  BY <1>1, <1>2 DEF DocsInv

LEMMA DocsStart == DocsInit => DocsInv
<1> SUFFICES ASSUME DocsInit PROVE DocsInv
  OBVIOUS
<1> DEFINE f == [a \in 0 .. CopyTime |-> 0]
<1>1. DOMAIN f = 0 .. CopyTime /\ (\A a \in 0 .. CopyTime : f[a] = 0) /\ f \in [0 .. CopyTime -> Nat]
  OBVIOUS
<1>2. timers = f
  BY DEF DocsInit
<1> HIDE DEF f
<1>3. Timers
  BY <1>1, <1>2, SumZero, DocsNumbers DEF Timers
<1>4. Reading
  BY DocsAssumption DEF DocsInit, Reading, Waiting
<1> QED
  BY <1>3, <1>4 DEF DocsInv

LEMMA CopyStep ==
  ASSUME DocsInv, CopyContract \/ CopyTokenLua
  PROVE  DocsInv'
<1>1. PICK id \in Snippets : \E section \in Sections : CopyIn(section, id)
  BY DocsAssumption DEF CopyContract, CopyTokenLua, Snippets
<1>2. /\ Sum(timers) < MaxTimers /\ copiedId' = id
      /\ timers' = [timers EXCEPT ![0] = timers[0] + 1]
      /\ UNCHANGED <<activeSection, searchQuery, testing>>
  BY <1>1 DEF CopyIn, copyCode
<1>3. timers \in [0 .. CopyTime -> Nat] /\ 0 \in 0 .. CopyTime
  BY DocsNumbers DEF DocsInv, Timers
<1>4. /\ timers' \in [0 .. CopyTime -> Nat] /\ timers'[0] = timers[0] + 1
      /\ timers[0] \in Nat
      /\ \A a \in (0 .. CopyTime) \ {0} : timers'[a] = timers[a]
  BY <1>2, <1>3
<1>5. Sum(timers') = Sum(timers) - timers[0] + timers'[0]
  BY <1>3, <1>4, SumExcept, TimersAmounts
<1>6. Sum(timers') = Sum(timers) + 1 /\ Sum(timers) \in Nat /\ MaxTimers \in Nat
  BY <1>3, <1>4, <1>5, TimersAmounts, DocsNumbers
<1>7. Timers'
  BY <1>2, <1>4, <1>6 DEF Timers
<1>8. Reading'
  BY <1>2 DEF DocsInv, Reading, Waiting, testing
<1> QED
  BY <1>7, <1>8 DEF DocsInv

LEMMA TimerFiresStep ==
  ASSUME DocsInv, TimerFires
  PROVE  DocsInv'
<1>1. /\ timers[CopyTime] > 0 /\ copiedId' = None
      /\ timers' = [timers EXCEPT ![CopyTime] = timers[CopyTime] - 1]
      /\ UNCHANGED <<activeSection, searchQuery, testing>>
  BY DEF TimerFires
<1>2. timers \in [0 .. CopyTime -> Nat] /\ CopyTime \in 0 .. CopyTime
  BY DocsNumbers DEF DocsInv, Timers
<1>3. /\ timers' \in [0 .. CopyTime -> Nat]
      /\ \A a \in 0 .. CopyTime : timers'[a] <= timers[a]
  BY <1>1, <1>2
<1>4. Sum(timers') <= Sum(timers) /\ Sum(timers) \in Nat /\ Sum(timers') \in Nat
  BY <1>2, <1>3, SumMonotone, TimersAmounts
<1>5. Timers'
  BY <1>3, <1>4, DocsNumbers DEF DocsInv, Timers
<1>6. Reading'
  BY <1>1 DEF DocsInv, Reading, Waiting, testing
<1> QED
  BY <1>5, <1>6 DEF DocsInv

LEMMA DocsTickStep ==
  ASSUME DocsInv, DocsTick
  PROVE  DocsInv'
<1>1. /\ timers' = [a \in 0 .. CopyTime |->
                      IF a = 0 THEN 0
                      ELSE timers[a - 1] + (IF a = CopyTime THEN timers[a] ELSE 0)]
      /\ UNCHANGED <<activeSection, searchQuery, copiedId, testing>>
  BY DEF DocsTick
<1>2. timers \in [0 .. CopyTime -> Nat] /\ CopyTime \in Nat /\ 0 \in 0 .. CopyTime
  BY DocsNumbers DEF DocsInv, Timers
<1>3. timers'[0] = 0
  BY <1>1, <1>2
<1>4. ASSUME NEW a \in 1 .. CopyTime
      PROVE  timers'[a] \in Nat
             /\ timers'[a] <= timers[a - 1] + (IF a = CopyTime THEN timers[a] ELSE 0)
  <2>1. a \in 0 .. CopyTime /\ a - 1 \in 0 .. CopyTime /\ a # 0
    BY <1>2
  <2>2. timers'[a] = timers[a - 1] + (IF a = CopyTime THEN timers[a] ELSE 0)
    BY <1>1, <2>1
  <2>3. timers[a - 1] \in Nat /\ timers[a] \in Nat
    BY <1>2, <2>1
  <2> QED
    BY <2>2, <2>3
<1>5. timers' \in [0 .. CopyTime -> Nat]
  <2>1. ASSUME NEW a \in 0 .. CopyTime
        PROVE  timers'[a] \in Nat
    <3>1. a = 0 \/ a \in 1 .. CopyTime
      BY <1>2
    <3> QED
      BY <1>3, <1>4, <3>1
  <2> QED
    BY <1>1, <2>1
<1>6. Sum(timers') <= Sum(timers) /\ Sum(timers) \in Nat /\ Sum(timers') \in Nat
  BY <1>2, <1>3, <1>4, <1>5, SumOlder, TimersAmounts
<1>7. Timers'
  BY <1>5, <1>6, DocsNumbers DEF DocsInv, Timers
<1>8. Reading'
  BY <1>1 DEF DocsInv, Reading, Waiting, testing
<1> QED
  BY <1>7, <1>8 DEF DocsInv

LEMMA TesterStep ==
  ASSUME DocsInv, SelectTestKey \/ SendTest \/ TestAnswered \/ TestFails
  PROVE  DocsInv'
<1>1. Timers /\ Reading
  BY DEF DocsInv
<1>2. CASE SelectTestKey
  BY <1>1, <1>2 DEF SelectTestKey, copying, DocsInv, Timers, Reading, Waiting
<1>3. CASE SendTest
  BY <1>1, <1>3 DEF SendTest, copying, DocsInv, Timers, Reading, Waiting
<1>4. CASE TestAnswered \/ TestFails
  <2>1. PICK key \in Keys, status \in {"200", "429", "503"}, simulated \in BOOLEAN :
          EndTest(key, status, simulated)
    BY <1>4 DEF TestAnswered, TestFails
  <2>2. /\ key \in inFlight /\ inFlight' = inFlight \ {key} /\ isTesting' = FALSE
        /\ testResult' = [key |-> key, status |-> status, simulated |-> simulated]
        /\ UNCHANGED <<activeSection, searchQuery, copying, testKey, lastKey>>
    BY <2>1 DEF EndTest
  <2>3. key = lastKey /\ inFlight' = {}
    BY <1>1, <2>2 DEF Reading, Waiting
  <2>4. testResult'.key = lastKey
        /\ testResult' \in [key : Keys, status : {"200", "429", "503"}, simulated : BOOLEAN]
    BY <2>2, <2>3
  <2>5. Reading'
    BY <1>1, <2>2, <2>3, <2>4 DEF Reading, Waiting, copying
  <2> QED
    BY <1>1, <2>2, <2>5 DEF DocsInv, Timers, copying
<1> QED
  BY <1>2, <1>3, <1>4

LEMMA DocsStep ==
  ASSUME DocsInv, DocsNext \/ LeaveDocs \/ UNCHANGED docs
  PROVE  DocsInv'
<1>1. CASE Search \/ OpenFromMenu \/ OpenFromContents
  <2>1. /\ activeSection' \in Sections /\ searchQuery' \in Queries
        /\ UNCHANGED <<copying, testing>>
    <3>1. FilteredSections \subseteq Sections
      BY DocsAssumption DEF DocsInv, Reading, FilteredSections
    <3> QED
      BY <1>1, <3>1 DEF Search, OpenFromMenu, OpenFromContents, DocsInv, Reading
  <2> QED
    BY <2>1 DEF copying, testing, DocsInv, Timers, Reading, Waiting
<1>2. CASE UNCHANGED docs
  BY <1>2 DEF docs, copying, testing, DocsInv, Timers, Reading, Waiting
<1> QED
  BY <1>1, <1>2, DocsLoaded, CopyStep, TimerFiresStep, DocsTickStep, TesterStep DEF DocsNext

LEMMA DocsInvGives == DocsInv => DocsTypeOK /\ TesterInStep
<1> SUFFICES ASSUME DocsInv PROVE DocsTypeOK /\ TesterInStep
  OBVIOUS
<1>1. ASSUME NEW a \in 0 .. CopyTime
      PROVE  timers[a] \in 0 .. MaxTimers
  <2>1. timers[a] \in Nat /\ timers[a] <= Sum(timers)
    BY TimersAmounts, SumPart DEF DocsInv, Timers
  <2>2. Sum(timers) \in Nat /\ Sum(timers) <= MaxTimers /\ MaxTimers \in Nat
    BY TimersAmounts, DocsNumbers DEF DocsInv, Timers
  <2> QED
    BY <2>1, <2>2
<1>2. timers \in [0 .. CopyTime -> 0 .. MaxTimers]
  BY <1>1 DEF DocsInv, Timers
<1>3. DocsTypeOK
  BY <1>2 DEF DocsTypeOK, DocsInv, Reading, Waiting
<1>4. Cardinality(inFlight) <= 1
  <2>1. CASE isTesting
    <3>1. Cardinality(inFlight) = 1
      BY <2>1, FS_Singleton DEF DocsInv, Reading, Waiting
    <3> QED
      BY <3>1
  <2>2. CASE ~isTesting
    <3>1. Cardinality(inFlight) = 0
      BY <2>2, FS_EmptySet DEF DocsInv, Reading, Waiting
    <3> QED
      BY <3>1
  <2> QED
    BY <2>1, <2>2
<1> QED
  BY <1>3, <1>4 DEF TesterInStep, DocsInv, Reading, Waiting

\* DocsSection.tsx, handleTestAPI: the tester waits for one request at a time, and
\* what it displays is the answer to the last one, for any keys and answers.
THEOREM TesterKept == Spec => []TesterInStep
<1>1. Init => DocsInv
  BY DocsStart DEF Init
<1>2. DocsInv /\ [Next]_vars => DocsInv'
  BY PartsStep, DocsStep
<1>3. DocsInv => TesterInStep
  BY DocsInvGives
<1> QED
  BY <1>1, <1>2, <1>3, PTL DEF Spec

------------------------------------------------------------------------------
(***************************************************************************)
(* The particles.                                                          *)
(***************************************************************************)

LEMMA VisualizerNumbers ==
  /\ ChunkSize \in Nat /\ ChunkSize >= 1
  /\ Second \in Nat /\ Second >= 1
  /\ KeepOld \in Nat /\ KeepNew \in Nat
  /\ IsFiniteSet(Batches)
  /\ FirstTier \in Tiers /\ FirstRate \in Rates
  /\ \A t \in Tiers : Quota[t] \in Nat
<1>1. {ChunkSize, Second} \subseteq Nat \ {0} /\ {KeepOld, KeepNew} \subseteq Nat
  BY VisualizerAssumption
<1>2. /\ IsFiniteSet(Batches) /\ FirstTier \in Tiers /\ FirstRate \in Rates
      /\ \A t \in Tiers : Quota[t] \in Nat
  BY VisualizerAssumption
<1>3. ChunkSize \in Nat \ {0} /\ Second \in Nat \ {0} /\ KeepOld \in Nat /\ KeepNew \in Nat
  BY <1>1
<1> QED
  BY <1>2, <1>3

LEMMA MinOf ==
  ASSUME NEW a \in Int, NEW b \in Int
  PROVE  Min({a, b}) = IF a <= b THEN a ELSE b
BY DEF Min

LEMMA MaxOf ==
  ASSUME NEW a \in Int, NEW b \in Int
  PROVE  Max({a, b}) = IF a >= b THEN a ELSE b
BY DEF Max

\* The places of s that hold v.
Places(s, v) == {i \in 1 .. Len(s) : s[i] = v}
CountOf(s, v) == Cardinality(Places(s, v))

LEMMA PlacesFinite ==
  ASSUME NEW s, Len(s) \in Nat, NEW v
  PROVE  IsFiniteSet(Places(s, v)) /\ CountOf(s, v) \in Nat
<1>1. Places(s, v) \in SUBSET (1 .. Len(s))
  BY DEF Places
<1>2. IsFiniteSet(1 .. Len(s))
  BY UpTo
<1>3. IsFiniteSet(Places(s, v))
  BY <1>1, <1>2, FS_Subset
<1> QED
  BY <1>3, FS_CardinalityType DEF CountOf

\* If t is s from place k on, or more of s, v is in no more places of t.
LEMMA CountShifted ==
  ASSUME NEW s, NEW t, NEW v, NEW k \in Int, Len(s) \in Nat, Len(t) \in Nat,
         \A i \in 1 .. Len(t) : i + k \in 1 .. Len(s) /\ t[i] = s[i + k]
  PROVE  CountOf(t, v) <= CountOf(s, v)
<1> DEFINE shift == [i \in Places(t, v) |-> i + k]
<1>1. shift \in [Places(t, v) -> Places(s, v)]
  BY DEF Places
<1>2. ASSUME NEW i \in Places(t, v), NEW j \in Places(t, v), shift[i] = shift[j]
      PROVE  i = j
  BY <1>2 DEF Places
<1> HIDE DEF shift
<1>3. shift \in Injection(Places(t, v), Places(s, v))
  BY <1>1, <1>2 DEF Injection, IsInjective
<1> QED
  BY <1>3, PlacesFinite, FS_Injection DEF CountOf

LEMMA CountConcat ==
  ASSUME NEW s \in Seq(Statuses), NEW t \in Seq(Statuses), NEW v
  PROVE  CountOf(s \o t, v) <= CountOf(s, v) + CountOf(t, v)
<1> DEFINE u == s \o t
           old == {i \in Places(u, v) : i <= Len(s)}
           new == {i \in Places(u, v) : i > Len(s)}
           shift == [i \in new |-> i - Len(s)]
<1>1. /\ Len(s) \in Nat /\ Len(t) \in Nat /\ Len(u) = Len(s) + Len(t)
      /\ \A i \in 1 .. Len(u) : u[i] = IF i <= Len(s) THEN s[i] ELSE t[i - Len(s)]
  BY LenProperties, ConcatProperties
<1> HIDE DEF u
<1>2. old \subseteq Places(s, v)
  BY <1>1 DEF Places
<1>3. shift \in [new -> Places(t, v)]
  BY <1>1 DEF Places
<1>4. ASSUME NEW i \in new, NEW j \in new, shift[i] = shift[j]
      PROVE  i = j
  BY <1>1, <1>4 DEF Places
<1>5. Places(u, v) = old \cup new
  BY <1>1 DEF Places
<1> HIDE DEF old, new, shift
<1>6. shift \in Injection(new, Places(t, v))
  BY <1>3, <1>4 DEF Injection, IsInjective
<1>7. /\ IsFiniteSet(old) /\ Cardinality(old) <= CountOf(s, v)
      /\ IsFiniteSet(new) /\ Cardinality(new) <= CountOf(t, v)
  BY <1>1, <1>2, <1>6, PlacesFinite, FS_Subset, FS_Injection DEF CountOf
<1>8. Cardinality(old \cup new) = Cardinality(old) + Cardinality(new) - Cardinality(old \cap new)
  BY <1>7, FS_Union
<1>9. /\ Cardinality(old \cap new) \in Nat /\ Cardinality(old) \in Nat
      /\ Cardinality(new) \in Nat /\ CountOf(s, v) \in Nat /\ CountOf(t, v) \in Nat
  <2>1. IsFiniteSet(old \cap new)
    BY <1>7, FS_Intersection
  <2> QED
    BY <1>1, <1>7, <2>1, FS_CardinalityType, PlacesFinite
<1>10. CountOf(u, v) = Cardinality(old) + Cardinality(new) - Cardinality(old \cap new)
  BY <1>5, <1>8 DEF CountOf
<1> QED
  BY <1>7, <1>9, <1>10 DEF u

\* The last n of s.
LEMMA LastOfProperties ==
  ASSUME NEW s \in Seq(Statuses), NEW n \in Nat, NEW v
  PROVE  /\ LastOf(s, n) \in Seq(Statuses)
         /\ Len(LastOf(s, n)) <= n
         /\ CountOf(LastOf(s, n), v) <= CountOf(s, v)
<1>1. Len(s) \in Nat /\ \A i \in 1 .. Len(s) : s[i] \in Statuses
  BY LenProperties, ElementOfSeq
<1> DEFINE m == IF 1 >= Len(s) - n + 1 THEN 1 ELSE Len(s) - n + 1
           t == SubSeq(s, m, Len(s))
<1>2. LastOf(s, n) = t
  <2>1. 1 \in Int /\ Len(s) - n + 1 \in Int
    BY <1>1
  <2>2. Max({1, Len(s) - n + 1}) = m
    BY <2>1, MaxOf
  <2> QED
    BY <2>2 DEF LastOf
<1>3. m \in Int /\ m >= 1 /\ Len(s) - m + 1 <= n
  BY <1>1
<1> HIDE DEF m
<1>4. \A i \in m .. Len(s) : s[i] \in Statuses
  BY <1>1, <1>3
<1>5. /\ t \in Seq(Statuses)
      /\ Len(t) = IF m <= Len(s) THEN Len(s) - m + 1 ELSE 0
      /\ \A i \in 1 .. Len(s) - m + 1 : t[i] = s[m + i - 1]
  BY <1>1, <1>3, <1>4, SubSeqProperties
<1> HIDE DEF t
<1>6. Len(t) \in Nat /\ Len(t) <= n
  BY <1>1, <1>3, <1>5
<1> DEFINE k == m - 1
<1>7. k \in Int /\ \A i \in 1 .. Len(t) : i + k \in 1 .. Len(s) /\ t[i] = s[i + k]
  <2>4. k \in Int
    BY <1>3
  <2> SUFFICES ASSUME NEW i \in 1 .. Len(t)
               PROVE  i + (m - 1) \in 1 .. Len(s) /\ t[i] = s[i + (m - 1)]
    BY <2>4
  <2>1. m <= Len(s) /\ Len(t) = Len(s) - m + 1
    BY <1>5
  <2>2. t[i] = s[m + i - 1] /\ m + i - 1 = i + (m - 1)
    BY <1>1, <1>3, <1>5, <2>1
  <2>3. i + (m - 1) \in 1 .. Len(s)
    BY <1>1, <1>3, <2>1
  <2> QED
    BY <2>2, <2>3
<1> HIDE DEF k
<1>8. CountOf(t, v) <= CountOf(s, v)
  BY <1>1, <1>6, <1>7, CountShifted
<1> QED
  BY <1>2, <1>5, <1>6, <1>8

LEMMA TailProperties ==
  ASSUME NEW s \in Seq(Statuses), s # <<>>, NEW v
  PROVE  /\ Tail(s) \in Seq(Statuses) /\ Len(Tail(s)) <= Len(s)
         /\ CountOf(Tail(s), v) <= CountOf(s, v)
<1>1. Len(s) \in Nat /\ Len(Tail(s)) \in Nat /\ Tail(s) \in Seq(Statuses)
  BY LenProperties, HeadTailProperties
<1>2. /\ Len(Tail(s)) = Len(s) - 1
      /\ \A i \in 1 .. Len(Tail(s)) : Tail(s)[i] = s[i + 1]
  BY HeadTailProperties
<1> DEFINE k == 1
           t == Tail(s)
<1>3. k \in Int /\ \A i \in 1 .. Len(t) : i + k \in 1 .. Len(s) /\ t[i] = s[i + k]
  BY <1>1, <1>2
<1>5. Len(t) \in Nat
  BY <1>1
<1> HIDE DEF k, t
<1>4. CountOf(t, v) <= CountOf(s, v)
  BY <1>1, <1>3, <1>5, CountShifted
<1> QED
  BY <1>1, <1>2, <1>4 DEF t

\* n statuses of which p are passes: the others are refusals.
LEMMA OutcomesCount ==
  ASSUME NEW p \in Nat, NEW d \in Nat, NEW s \in [1 .. p + d -> Statuses],
         Cardinality({i \in DOMAIN s : s[i] = "passed"}) = p
  PROVE  /\ s \in Seq(Statuses)
         /\ CountOf(s, "passed") = p /\ CountOf(s, "denied") = d
<1> DEFINE n == p + d
<1>1. n \in Nat /\ s \in [1 .. n -> Statuses]
  OBVIOUS
<1>2. s \in Seq(Statuses) /\ Len(s) = n /\ DOMAIN s = 1 .. n
  BY <1>1
<1>3. CountOf(s, "passed") = p
  BY <1>2 DEF CountOf, Places
<1> DEFINE P == Places(s, "passed")
           D == Places(s, "denied")
<1>4. P \cup D = 1 .. n /\ P \cap D = {}
  BY <1>1, <1>2 DEF Places, Statuses
<1>5. /\ IsFiniteSet(P) /\ IsFiniteSet(D) /\ Cardinality(P) = p /\ Cardinality(D) \in Nat
  BY <1>1, <1>2, <1>3, PlacesFinite DEF CountOf
<1> HIDE DEF P, D, n
<1>6. Cardinality(P \cup D) = Cardinality(P) + Cardinality(D) - Cardinality(P \cap D)
  BY <1>5, FS_Union
<1>7. Cardinality(P \cap D) = 0 /\ Cardinality(P \cup D) = n
  BY <1>1, <1>4, UpTo, FS_EmptySet
<1>8. Cardinality(D) = d
  BY <1>5, <1>6, <1>7 DEF n
<1> QED
  BY <1>2, <1>3, <1>8 DEF D, CountOf

\* The statuses on display.
Shown ==
  /\ particles \in Seq(Statuses) /\ Len(particles) <= KeepOld + KeepNew
  /\ CountOf(particles, "passed") <= passed
  /\ CountOf(particles, "denied") <= denied

LEMMA NothingShown ==
  ASSUME NEW v
  PROVE  <<>> \in Seq(Statuses) /\ Len(<<>>) = 0 /\ CountOf(<<>>, v) = 0
<1>1. Len(<<>>) = 0 /\ <<>> \in Seq(Statuses)
  BY EmptySeq
<1>2. Places(<<>>, v) = {}
  BY <1>1 DEF Places
<1> QED
  BY <1>1, <1>2, FS_EmptySet DEF CountOf

\* What a call of processRequests adds is counted.
LEMMA CountedShown ==
  ASSUME Shown, passed \in Nat, denied \in Nat,
         NEW n, NEW p \in Nat, NEW d \in Nat, NEW outcomes \in Outcomes(p, d),
         Counted(n, p, d, outcomes)
  PROVE  Shown'
<1>1. /\ outcomes \in Seq(Statuses)
      /\ CountOf(outcomes, "passed") = p /\ CountOf(outcomes, "denied") = d
  BY OutcomesCount DEF Outcomes
<1> DEFINE old == LastOf(particles, KeepOld)
           new == LastOf(outcomes, KeepNew)
<1>2. particles' = old \o new /\ passed' = passed + p /\ denied' = denied + d
  BY DEF Counted
<1>3. /\ particles \in Seq(Statuses) /\ KeepOld \in Nat /\ KeepNew \in Nat
      /\ CountOf(particles, "passed") <= passed /\ CountOf(particles, "denied") <= denied
  BY VisualizerNumbers DEF Shown
<1>4. /\ old \in Seq(Statuses) /\ Len(old) <= KeepOld
      /\ new \in Seq(Statuses) /\ Len(new) <= KeepNew
      /\ CountOf(old, "passed") <= CountOf(particles, "passed")
      /\ CountOf(old, "denied") <= CountOf(particles, "denied")
      /\ CountOf(new, "passed") <= p /\ CountOf(new, "denied") <= d
  BY <1>1, <1>3, LastOfProperties
<1> HIDE DEF old, new
<1>5. ASSUME NEW v
      PROVE  /\ CountOf(old \o new, v) <= CountOf(old, v) + CountOf(new, v)
             /\ CountOf(old \o new, v) \in Nat /\ CountOf(old, v) \in Nat
             /\ CountOf(new, v) \in Nat /\ CountOf(particles, v) \in Nat
  <2>1. old \o new \in Seq(Statuses)
    BY <1>4, ConcatProperties
  <2> QED
    BY <1>3, <1>4, <2>1, CountConcat, LenProperties, PlacesFinite
<1>6. old \o new \in Seq(Statuses) /\ Len(old \o new) <= KeepOld + KeepNew
  <2>1. /\ old \o new \in Seq(Statuses) /\ Len(old \o new) = Len(old) + Len(new)
        /\ Len(old) \in Nat /\ Len(new) \in Nat
    BY <1>4, ConcatProperties, LenProperties
  <2> QED
    BY <1>3, <1>4, <2>1
<1>7. ASSUME NEW v, NEW a \in Nat, NEW b \in Nat,
             CountOf(old, v) <= a, CountOf(new, v) <= b
      PROVE  CountOf(old \o new, v) <= a + b
  BY <1>5, <1>7
<1>8. ASSUME NEW v, NEW a \in Nat, CountOf(old, v) <= CountOf(particles, v),
             CountOf(particles, v) <= a
      PROVE  CountOf(old, v) <= a
  BY <1>5, <1>8
<1>9. CountOf(old, "passed") <= passed /\ CountOf(old, "denied") <= denied
  BY <1>3, <1>4, <1>8
<1>10. /\ CountOf(old \o new, "passed") <= passed + p
       /\ CountOf(old \o new, "denied") <= denied + d
  BY <1>4, <1>7, <1>9
<1> QED
  BY <1>2, <1>6, <1>10 DEF Shown

------------------------------------------------------------------------------
(***************************************************************************)
(* Calls of processRequests.                                               *)
(***************************************************************************)

Call == [count : Nat, left : Nat, waiting : Nat, passed : Nat, denied : Nat, failed : Nat]

CallOf(n, l, w, p, d, e) ==
  [count |-> n, left |-> l, waiting |-> w, passed |-> p, denied |-> d, failed |-> e]

\* A call that is not over awaits something, and every request of it is still to be
\* sent, awaited, or has its response.
Proper(c) ==
  /\ c.waiting <= ChunkSize
  /\ c.waiting = 0 => c = Idle
  /\ c.count = c.left + c.waiting + c.passed + c.denied
  /\ c.failed <= c.denied

Calls ==
  /\ batch \in [Batches -> Call]
  /\ \A b \in Batches : Proper(batch[b])

LEMMA CallFields ==
  ASSUME NEW c \in Call
  PROVE  \E n, l, w, p, d, e \in Nat : c = CallOf(n, l, w, p, d, e)
<1>1. c = CallOf(c.count, c.left, c.waiting, c.passed, c.denied, c.failed)
  BY DEF Call, CallOf
<1>2. /\ c.count \in Nat /\ c.left \in Nat /\ c.waiting \in Nat
      /\ c.passed \in Nat /\ c.denied \in Nat /\ c.failed \in Nat
  BY DEF Call
<1> QED
  BY <1>1, <1>2

LEMMA IdleProper == Idle \in Call /\ Proper(Idle)
BY VisualizerNumbers DEF Idle, Call, Proper

\* The next chunk of a call that awaits nothing.
LEMMA SendChunkOf ==
  ASSUME NEW n \in Nat, NEW l \in Nat, NEW p \in Nat, NEW d \in Nat,
         NEW e \in Nat, l > 0, n = l + p + d, e <= d, NEW c, c = CallOf(n, l, 0, p, d, e)
  PROVE  /\ SendChunk(c) \in Call /\ Proper(SendChunk(c))
         /\ SendChunk(c).count = n /\ SendChunk(c).denied = d
<1> DEFINE k == IF ChunkSize <= l THEN ChunkSize ELSE l
<1>1. Min({ChunkSize, l}) = k
  BY VisualizerNumbers, MinOf
<1>2. k \in Nat /\ k >= 1 /\ k <= ChunkSize /\ k <= l /\ l - k \in Nat
  BY VisualizerNumbers
<1> HIDE DEF k
<1>3. c.left = l
  BY DEF CallOf
<1>4. SendChunk(c) = [[c EXCEPT !.left = l - k] EXCEPT !.waiting = k]
  BY <1>1, <1>3 DEF SendChunk
<1> DEFINE c1 == [c EXCEPT !.left = l - k]
<1>5. c1 = CallOf(n, l - k, 0, p, d, e)
  BY DEF CallOf
<1> HIDE DEF c1
<1>6. [c1 EXCEPT !.waiting = k] = CallOf(n, l - k, k, p, d, e)
  BY <1>5 DEF CallOf
<1>7. SendChunk(c) = CallOf(n, l - k, k, p, d, e)
  BY <1>4, <1>6 DEF c1
<1> QED
  BY <1>2, <1>7, VisualizerNumbers DEF CallOf, Call, Proper

\* One more response; e counts a server's errors.
LEMMA WithResponseOf ==
  ASSUME NEW b, NEW res, NEW n, NEW l, NEW w, NEW p, NEW d, NEW e,
         batch[b] = CallOf(n, l, w, p, d, e)
  PROVE  WithResponse(b, res) =
           IF IsAllowed(res) THEN CallOf(n, l, w - 1, p + 1, d, e)
           ELSE CallOf(n, l, w - 1, p, d + 1, IF res = "5xx" THEN e + 1 ELSE e)
<1> DEFINE c == batch[b]
           c1 == [c EXCEPT !.waiting = w - 1]
           c2 == [c1 EXCEPT !.denied = d + 1]
           e1 == IF res = "5xx" THEN e + 1 ELSE e
<1>1. c.waiting = w /\ c.passed = p /\ c.denied = d /\ c.failed = e
  BY DEF CallOf
<1>2. c1 = CallOf(n, l, w - 1, p, d, e)
  BY DEF CallOf
<1>3. c2 = CallOf(n, l, w - 1, p, d + 1, e)
  <2> HIDE DEF c1
  <2> QED
    BY <1>2 DEF CallOf
<1>4. WithResponse(b, res) = IF IsAllowed(res) THEN [c1 EXCEPT !.passed = p + 1]
                                               ELSE [c2 EXCEPT !.failed = e1]
  BY <1>1, <1>2, <1>3 DEF WithResponse, CallOf
<1> HIDE DEF c1, c2, e1
<1>5. /\ [c1 EXCEPT !.passed = p + 1] = CallOf(n, l, w - 1, p + 1, d, e)
      /\ [c2 EXCEPT !.failed = e1] = CallOf(n, l, w - 1, p, d + 1, e1)
  BY <1>2, <1>3 DEF CallOf
<1> QED
  BY <1>4, <1>5 DEF e1

------------------------------------------------------------------------------
(***************************************************************************)
(* What is under way.                                                      *)
(***************************************************************************)

Counts(calls) == [b \in Batches |-> calls[b].count]
Denials(calls) == [b \in Batches |-> calls[b].denied]
Failures(calls) == [b \in Batches |-> calls[b].failed]

LEMMA CallAmounts ==
  ASSUME NEW calls \in [Batches -> Call]
  PROVE  /\ Amounts(Counts(calls), Batches) /\ Amounts(Denials(calls), Batches)
         /\ Sum(Counts(calls)) \in Nat /\ Sum(Denials(calls)) \in Nat
<1>1. \A b \in Batches : calls[b].count \in Nat /\ calls[b].denied \in Nat
  BY DEF Call
<1>2. Amounts(Counts(calls), Batches) /\ Amounts(Denials(calls), Batches)
  BY <1>1, VisualizerNumbers DEF Amounts, Counts, Denials
<1> QED
  BY <1>2, SumType

LEMMA InFlightIs ==
  /\ InFlight("count") = Sum(Counts(batch))
  /\ InFlight("denied") = Sum(Denials(batch))
  /\ InFlight("failed") = Sum(Failures(batch))
BY DEF InFlight, Counts, Denials, Failures

\* A server's errors are among the denials.
LEMMA FewerFailures ==
  ASSUME NEW calls \in [Batches -> Call], \A b \in Batches : Proper(calls[b])
  PROVE  Sum(Failures(calls)) \in Nat /\ Sum(Failures(calls)) <= Sum(Denials(calls))
<1>1. \A b \in Batches : calls[b].failed \in Nat /\ calls[b].failed <= calls[b].denied
  BY DEF Call, Proper
<1> DEFINE f == Failures(calls)
           d == Denials(calls)
<1>2. /\ Amounts(f, Batches) /\ Amounts(d, Batches)
      /\ \A b \in Batches : f[b] <= d[b]
  BY <1>1, CallAmounts, VisualizerNumbers DEF Amounts, Failures, Denials
<1> HIDE DEF f, d
<1>3. Sum(f) \in Nat /\ Sum(f) <= Sum(d)
  BY <1>2, SumMonotone, SumType
<1> QED
  BY <1>3 DEF f, d

\* Only the call in slot b changes.
LEMMA CallChanged ==
  ASSUME NEW calls \in [Batches -> Call], NEW b \in Batches, NEW c \in Call, NEW after,
         after = [calls EXCEPT ![b] = c]
  PROVE  /\ after \in [Batches -> Call]
         /\ Sum(Counts(after)) = Sum(Counts(calls)) - calls[b].count + c.count
         /\ Sum(Denials(after)) = Sum(Denials(calls)) - calls[b].denied + c.denied
<1>1. after \in [Batches -> Call]
  OBVIOUS
<1>2. after[b] = c /\ \A x \in Batches \ {b} : after[x] = calls[x]
  OBVIOUS
<1>3. /\ Counts(after)[b] = c.count /\ Counts(calls)[b] = calls[b].count
      /\ Denials(after)[b] = c.denied /\ Denials(calls)[b] = calls[b].denied
      /\ \A x \in Batches \ {b} : Counts(after)[x] = Counts(calls)[x]
      /\ \A x \in Batches \ {b} : Denials(after)[x] = Denials(calls)[x]
  BY <1>2 DEF Counts, Denials
<1>4. /\ Amounts(Counts(calls), Batches) /\ Amounts(Counts(after), Batches)
      /\ Amounts(Denials(calls), Batches) /\ Amounts(Denials(after), Batches)
  BY <1>1, CallAmounts
<1> DEFINE n0 == Counts(calls)
           n1 == Counts(after)
           d0 == Denials(calls)
           d1 == Denials(after)
<1>5. /\ Amounts(n0, Batches) /\ Amounts(n1, Batches) /\ \A x \in Batches \ {b} : n1[x] = n0[x]
      /\ Amounts(d0, Batches) /\ Amounts(d1, Batches) /\ \A x \in Batches \ {b} : d1[x] = d0[x]
  BY <1>3, <1>4
<1> HIDE DEF n0, n1, d0, d1
<1>6. Sum(n1) = Sum(n0) - n0[b] + n1[b]
  BY <1>5, SumExcept
<1>7. Sum(d1) = Sum(d0) - d0[b] + d1[b]
  BY <1>5, SumExcept
<1> QED
  BY <1>1, <1>3, <1>6, <1>7 DEF n0, n1, d0, d1

\* A call is part of what is under way.
LEMMA CallPart ==
  ASSUME NEW calls \in [Batches -> Call], NEW b \in Batches
  PROVE  /\ calls[b].count \in Nat /\ calls[b].count <= Sum(Counts(calls))
         /\ calls[b].denied \in Nat /\ calls[b].denied <= Sum(Denials(calls))
<1>1. Amounts(Counts(calls), Batches) /\ Amounts(Denials(calls), Batches)
  BY CallAmounts
<1>2. Counts(calls)[b] = calls[b].count /\ Denials(calls)[b] = calls[b].denied
  BY DEF Counts, Denials
<1> QED
  BY <1>1, <1>2, SumPart

LEMMA NoCalls ==
  ASSUME NEW calls, calls = [b \in Batches |-> Idle]
  PROVE  /\ calls \in [Batches -> Call] /\ \A b \in Batches : Proper(calls[b])
         /\ Sum(Counts(calls)) = 0 /\ Sum(Denials(calls)) = 0
<1>1. calls \in [Batches -> Call] /\ \A b \in Batches : Proper(calls[b])
  BY IdleProper
<1>2. /\ DOMAIN Counts(calls) = Batches /\ \A b \in Batches : Counts(calls)[b] = 0
      /\ DOMAIN Denials(calls) = Batches /\ \A b \in Batches : Denials(calls)[b] = 0
  BY DEF Counts, Denials, Idle
<1> QED
  BY <1>1, <1>2, SumZero

------------------------------------------------------------------------------
(***************************************************************************)
(* The invariant of the visualizer.                                        *)
(***************************************************************************)

Settings ==
  /\ tier \in Tiers /\ rps \in Rates
  /\ isStreaming \in BOOLEAN /\ isChaosActive \in BOOLEAN /\ isLiveMode \in BOOLEAN
  /\ selectedNode = NoNode \/ selectedNode.node \in Nodes

Tallies == [requests : Nat, limited : Nat, failed : Nat]

\* The requests of the tally t that were turned away, for whatever reason.
Refused(t) == t.limited + t.failed

LEMMA TallyNumbers ==
  ASSUME NEW t \in Tallies
  PROVE  t.requests \in Nat /\ t.limited \in Nat /\ t.failed \in Nat /\ Refused(t) \in Nat
BY DEF Tallies, Refused

\* The counters and the history agree, whatever is under way.
Balanced ==
  /\ total \in Nat /\ passed \in Nat /\ denied \in Nat
  /\ tally \in Tallies
  /\ total = passed + denied
  /\ total + Sum(Counts(batch)) = tally.requests
  /\ denied + Sum(Denials(batch)) = Refused(tally)

\* What passed within the quota is in the log of the simulation.
Logged ==
  /\ history \in [0 .. Second - 1 -> Nat] /\ withinQuota \in [0 .. Second - 1 -> Nat]
  /\ \A a \in 0 .. Second - 1 : withinQuota[a] <= history[a]

VisualizerInv == Settings /\ Calls /\ Balanced /\ Shown /\ Logged

\* Steps that leave the calls, the counters and the log alone.
LEMMA SettingsStep ==
  ASSUME VisualizerInv, Settings', UNCHANGED <<counters, simulation, batch, tally, particles>>
  PROVE  VisualizerInv'
<1>1. Calls' /\ Balanced'
  BY DEF VisualizerInv, Calls, Balanced, counters
<1>2. Shown'
  BY DEF VisualizerInv, Shown, counters
<1>3. Logged'
  BY DEF VisualizerInv, Logged, simulation
<1> QED
  BY <1>1, <1>2, <1>3 DEF VisualizerInv

------------------------------------------------------------------------------
(***************************************************************************)
(* Live mode.                                                              *)
(***************************************************************************)

\* A call sends n requests.
LEMMA SendBatchStep ==
  ASSUME VisualizerInv, NEW b \in Batches, NEW n \in Nat, n > 0, SendBatch(b, n)
  PROVE  VisualizerInv'
<1> DEFINE c0 == [Idle EXCEPT !.count = n, !.left = n]
           c == SendChunk(c0)
<1>1. /\ batch[b] = Idle /\ batch' = [batch EXCEPT ![b] = c]
      /\ tally' = [tally EXCEPT !.requests = tally.requests + n]
      /\ UNCHANGED <<settings, counters, particles, simulation, selectedNode>>
  BY DEF SendBatch
<1>2. c0 = CallOf(n, n, 0, 0, 0, 0)
  <2> DEFINE i1 == [Idle EXCEPT !.count = n]
  <2>1. i1 = CallOf(n, 0, 0, 0, 0, 0)
    BY DEF Idle, CallOf
  <2>2. c0 = [i1 EXCEPT !.left = n]
    BY <2>1 DEF Idle, CallOf
  <2> HIDE DEF i1
  <2> QED
    BY <2>1, <2>2 DEF CallOf
<1> HIDE DEF c0
<1>3. c \in Call /\ Proper(c) /\ c.count = n /\ c.denied = 0
  BY <1>2, SendChunkOf
<1> HIDE DEF c
<1>4. batch \in [Batches -> Call] /\ \A x \in Batches : Proper(batch[x])
  BY DEF VisualizerInv, Calls
<1>5. batch[b].count = 0 /\ batch[b].denied = 0
  BY <1>1 DEF Idle
<1>6. /\ batch' \in [Batches -> Call]
      /\ Sum(Counts(batch')) = Sum(Counts(batch)) - batch[b].count + c.count
      /\ Sum(Denials(batch')) = Sum(Denials(batch)) - batch[b].denied + c.denied
  BY <1>1, <1>3, <1>4, CallChanged
<1>7. Calls'
  BY <1>1, <1>3, <1>4, <1>6 DEF Calls
<1>8. Balanced'
  <2>1. PICK r, f, e \in Nat : tally = [requests |-> r, limited |-> f, failed |-> e]
    BY DEF VisualizerInv, Balanced, Tallies
  <2>2. tally' = [requests |-> r + n, limited |-> f, failed |-> e]
    BY <1>1, <2>1
  <2>3. /\ tally.requests = r /\ Refused(tally) = f + e /\ tally'.requests = r + n
        /\ Refused(tally') = f + e /\ tally' \in Tallies
    BY <2>1, <2>2 DEF Tallies, Refused
  <2>4. Sum(Counts(batch)) \in Nat /\ Sum(Denials(batch)) \in Nat
    BY <1>4, CallAmounts
  <2>5. UNCHANGED <<total, passed, denied>>
    BY <1>1 DEF counters
  <2>6. /\ total \in Nat /\ passed \in Nat /\ denied \in Nat /\ total = passed + denied
        /\ total + Sum(Counts(batch)) = r /\ denied + Sum(Denials(batch)) = f + e
    BY <2>3 DEF VisualizerInv, Balanced
  <2>7. total' + Sum(Counts(batch')) = r + n /\ denied' + Sum(Denials(batch')) = f + e
    BY <1>3, <1>5, <1>6, <2>4, <2>5, <2>6
  <2> QED
    BY <2>3, <2>5, <2>6, <2>7 DEF Balanced
<1>9. Settings' /\ Shown' /\ Logged'
  BY <1>1 DEF VisualizerInv, Settings, Shown, Logged, settings,
              counters, simulation
<1> QED
  BY <1>7, <1>8, <1>9 DEF VisualizerInv

\* The call in slot b has one more response, and is c then.
LEMMA ResponseFacts ==
  ASSUME VisualizerInv, NEW b \in Batches, NEW res \in Responses, Respond(b, res)
  PROVE  /\ WithResponse(b, res) \in Call
         /\ WithResponse(b, res).waiting < ChunkSize
         /\ WithResponse(b, res).count = batch[b].count
         /\ WithResponse(b, res).count = WithResponse(b, res).left
              + WithResponse(b, res).waiting + WithResponse(b, res).passed
              + WithResponse(b, res).denied
         /\ WithResponse(b, res).failed <= WithResponse(b, res).denied
         /\ tally' \in Tallies
         /\ tally'.requests = tally.requests
         /\ Refused(tally') - Refused(tally) = WithResponse(b, res).denied - batch[b].denied
<1>1. batch[b] \in Call /\ Proper(batch[b])
  BY DEF VisualizerInv, Calls
<1>2. PICK n, l, w, p, d, e \in Nat : batch[b] = CallOf(n, l, w, p, d, e)
  BY <1>1, CallFields
<1>3. /\ w > 0 /\ w <= ChunkSize /\ n = l + w + p + d /\ e <= d
      /\ batch[b].count = n /\ batch[b].denied = d
  BY <1>1, <1>2 DEF CallOf, Proper, Respond
<1> DEFINE ok == IsAllowed(res)
           c == WithResponse(b, res)
           e1 == IF res = "5xx" THEN e + 1 ELSE e
<1>4. c = IF ok THEN CallOf(n, l, w - 1, p + 1, d, e) ELSE CallOf(n, l, w - 1, p, d + 1, e1)
  BY <1>2, WithResponseOf
<1>5. PICK r, f, g \in Nat : tally = [requests |-> r, limited |-> f, failed |-> g]
  BY DEF VisualizerInv, Balanced, Tallies
<1>6. \/ ok /\ tally' = [requests |-> r, limited |-> f, failed |-> g]
      \/ ~ok /\ tally' = [requests |-> r, limited |-> f + 1, failed |-> g]
      \/ ~ok /\ tally' = [requests |-> r, limited |-> f, failed |-> g + 1]
  <2>1. res \in {"200", "429", "5xx", "failed"}
    BY DEF Responses, ProxyGateway
  <2>2. CASE res \in {"200", "failed"}
    BY <1>5, <2>2 DEF Respond, IsAllowed
  <2>3. CASE res = "429"
    BY <1>5, <2>3 DEF Respond, IsAllowed
  <2>4. CASE res = "5xx"
    BY <1>5, <2>4 DEF Respond, IsAllowed
  <2> QED
    BY <2>1, <2>2, <2>3, <2>4
<1>7. e1 \in Nat /\ e1 <= d + 1
  BY <1>3
<1> HIDE DEF ok, c, e1
<1>8. w - 1 \in Nat /\ p + 1 \in Nat /\ d + 1 \in Nat /\ ChunkSize \in Nat
  BY <1>3, VisualizerNumbers
<1>9. /\ c \in Call /\ c.waiting = w - 1 /\ c.count = n /\ c.left = l
      /\ c.passed = (IF ok THEN p + 1 ELSE p) /\ c.denied = (IF ok THEN d ELSE d + 1)
      /\ c.failed <= c.denied
  BY <1>3, <1>4, <1>7, <1>8 DEF CallOf, Call
<1>10. /\ tally' \in Tallies
       /\ tally'.requests = r /\ tally.requests = r /\ Refused(tally) = f + g
       /\ Refused(tally') = IF ok THEN f + g ELSE f + g + 1
  BY <1>5, <1>6 DEF Tallies, Refused
<1>11. /\ c.waiting < ChunkSize /\ c.count = c.left + c.waiting + c.passed + c.denied
       /\ Refused(tally') - Refused(tally) = c.denied - d
  BY <1>3, <1>8, <1>9, <1>10
<1> QED
  BY <1>3, <1>9, <1>10, <1>11 DEF c

\* A response that leaves the call under way, as c.
LEMMA OnTheWay ==
  ASSUME VisualizerInv, NEW b \in Batches, NEW c \in Call, Proper(c),
         c.count = batch[b].count,
         tally' \in Tallies,
         tally'.requests = tally.requests,
         Refused(tally') - Refused(tally) = c.denied - batch[b].denied,
         batch' = [batch EXCEPT ![b] = c],
         UNCHANGED <<settings, counters, particles, simulation, selectedNode>>
  PROVE  VisualizerInv'
<1>1. batch \in [Batches -> Call] /\ \A x \in Batches : Proper(batch[x])
  BY DEF VisualizerInv, Calls
<1>2. /\ batch' \in [Batches -> Call]
      /\ Sum(Counts(batch')) = Sum(Counts(batch)) - batch[b].count + c.count
      /\ Sum(Denials(batch')) = Sum(Denials(batch)) - batch[b].denied + c.denied
  BY <1>1, CallChanged
<1>3. Calls'
  BY <1>1, <1>2 DEF Calls
<1>4. Balanced'
  <2>1. /\ Sum(Counts(batch)) \in Nat /\ Sum(Denials(batch)) \in Nat
        /\ batch[b].count \in Nat /\ batch[b].denied \in Nat
        /\ c.count \in Nat /\ c.denied \in Nat
    BY <1>1, CallAmounts, CallPart DEF Call
  <2>2. UNCHANGED <<total, passed, denied>>
    BY DEF counters
  <2>3. /\ total \in Nat /\ passed \in Nat /\ denied \in Nat /\ total = passed + denied
        /\ tally.requests \in Nat /\ Refused(tally) \in Nat
        /\ tally'.requests \in Nat /\ Refused(tally') \in Nat
        /\ total + Sum(Counts(batch)) = tally.requests
        /\ denied + Sum(Denials(batch)) = Refused(tally)
    BY TallyNumbers DEF VisualizerInv, Balanced
  <2>4. total + Sum(Counts(batch')) = tally'.requests
    BY <1>2, <2>1, <2>3
  <2>5. denied + Sum(Denials(batch')) = Refused(tally')
    BY <1>2, <2>1, <2>3
  <2> QED
    BY <2>2, <2>3, <2>4, <2>5 DEF Balanced
<1>5. Settings' /\ Shown' /\ Logged'
  BY DEF VisualizerInv, Settings, Shown, Logged, settings,
         counters, simulation
<1> QED
  BY <1>3, <1>4, <1>5 DEF VisualizerInv

\* The chunk waits for more, or the next one is sent.
LEMMA ChunkStep ==
  ASSUME VisualizerInv, NEW b \in Batches, AwaitMore(b) \/ NextChunk(b)
  PROVE  VisualizerInv'
<1>1. PICK res \in Responses :
        /\ Respond(b, res)
        /\ UNCHANGED <<counters, particles>>
        /\ \/ WithResponse(b, res).waiting > 0 /\ batch' = [batch EXCEPT ![b] = WithResponse(b, res)]
           \/ /\ WithResponse(b, res).waiting = 0 /\ WithResponse(b, res).left > 0
              /\ batch' = [batch EXCEPT ![b] = SendChunk(WithResponse(b, res))]
  BY DEF AwaitMore, NextChunk
<1>2. UNCHANGED <<settings, simulation, selectedNode>>
  BY <1>1 DEF Respond
<1> DEFINE c == WithResponse(b, res)
<1>3. /\ c \in Call /\ c.waiting < ChunkSize /\ c.count = batch[b].count
      /\ c.count = c.left + c.waiting + c.passed + c.denied /\ c.failed <= c.denied
      /\ tally' \in Tallies
      /\ tally'.requests = tally.requests
      /\ Refused(tally') - Refused(tally) = c.denied - batch[b].denied
  BY <1>1, ResponseFacts
<1>4. \/ c.waiting > 0 /\ batch' = [batch EXCEPT ![b] = c]
      \/ c.waiting = 0 /\ c.left > 0 /\ batch' = [batch EXCEPT ![b] = SendChunk(c)]
  BY <1>1
<1> HIDE DEF c
<1>5. CASE c.waiting > 0 /\ batch' = [batch EXCEPT ![b] = c]
  <2>1. Proper(c)
    BY <1>3, <1>5, VisualizerNumbers DEF Proper, Call
  <2> QED
    BY <1>1, <1>2, <1>3, <1>5, <2>1, OnTheWay
<1>6. CASE c.waiting = 0 /\ c.left > 0 /\ batch' = [batch EXCEPT ![b] = SendChunk(c)]
  <2>1. PICK n, l, w, p, d, e \in Nat : c = CallOf(n, l, w, p, d, e)
    BY <1>3, CallFields
  <2>2. w = 0 /\ l > 0 /\ n = l + p + d /\ e <= d /\ c.count = n /\ c.denied = d
    BY <1>3, <1>6, <2>1 DEF CallOf
  <2>3. /\ SendChunk(c) \in Call /\ Proper(SendChunk(c))
        /\ SendChunk(c).count = c.count /\ SendChunk(c).denied = c.denied
    BY <2>1, <2>2, SendChunkOf
  <2> QED
    BY <1>1, <1>2, <1>3, <1>6, <2>3, OnTheWay
<1> QED
  BY <1>4, <1>5, <1>6

\* The call ends and is counted.
LEMMA FinishStep ==
  ASSUME VisualizerInv, NEW b \in Batches, Finish(b)
  PROVE  VisualizerInv'
<1>1. PICK res \in Responses :
        /\ Respond(b, res)
        /\ WithResponse(b, res).waiting = 0 /\ WithResponse(b, res).left = 0
        /\ batch' = [batch EXCEPT ![b] = Idle]
        /\ \E outcomes \in Outcomes(WithResponse(b, res).passed, WithResponse(b, res).denied) :
             Counted(WithResponse(b, res).count, WithResponse(b, res).passed,
                     WithResponse(b, res).denied, outcomes)
  BY DEF Finish
<1>2. UNCHANGED <<settings, simulation, selectedNode>>
  BY <1>1 DEF Respond
<1> DEFINE c == WithResponse(b, res)
<1>3. /\ c \in Call /\ c.count = batch[b].count
      /\ c.count = c.left + c.waiting + c.passed + c.denied /\ c.failed <= c.denied
      /\ tally' \in Tallies
      /\ tally'.requests = tally.requests
      /\ Refused(tally') - Refused(tally) = c.denied - batch[b].denied
  BY <1>1, ResponseFacts
<1>4. PICK outcomes \in Outcomes(c.passed, c.denied) :
        Counted(c.count, c.passed, c.denied, outcomes)
  BY <1>1
<1>5. c.waiting = 0 /\ c.left = 0
  BY <1>1
<1> HIDE DEF c
<1>6. c.count \in Nat /\ c.passed \in Nat /\ c.denied \in Nat /\ c.count = c.passed + c.denied
  BY <1>3, <1>5 DEF Call
<1>7. batch \in [Batches -> Call] /\ \A x \in Batches : Proper(batch[x])
  BY DEF VisualizerInv, Calls
<1>8. /\ batch' \in [Batches -> Call]
      /\ Sum(Counts(batch')) = Sum(Counts(batch)) - batch[b].count + 0
      /\ Sum(Denials(batch')) = Sum(Denials(batch)) - batch[b].denied + 0
  <2> DEFINE i == Idle
  <2>1. i \in Call /\ i.count = 0 /\ i.denied = 0 /\ batch' = [batch EXCEPT ![b] = i]
    BY <1>1, IdleProper DEF Idle
  <2> HIDE DEF i
  <2>2. /\ batch' \in [Batches -> Call]
        /\ Sum(Counts(batch')) = Sum(Counts(batch)) - batch[b].count + i.count
        /\ Sum(Denials(batch')) = Sum(Denials(batch)) - batch[b].denied + i.denied
    BY <1>7, <2>1, CallChanged
  <2> QED
    BY <2>1, <2>2
<1>9. Calls'
  BY <1>1, <1>7, <1>8, IdleProper DEF Calls
<1>10. total' = total + c.count /\ passed' = passed + c.passed /\ denied' = denied + c.denied
  BY <1>4 DEF Counted
<1>11. Balanced'
  <2>1. /\ Sum(Counts(batch)) \in Nat /\ Sum(Denials(batch)) \in Nat
        /\ batch[b].count \in Nat /\ batch[b].denied \in Nat
    BY <1>7, CallAmounts, CallPart
  <2>2. /\ total \in Nat /\ passed \in Nat /\ denied \in Nat /\ total = passed + denied
        /\ tally.requests \in Nat /\ Refused(tally) \in Nat
        /\ tally'.requests \in Nat /\ Refused(tally') \in Nat
        /\ total + Sum(Counts(batch)) = tally.requests
        /\ denied + Sum(Denials(batch)) = Refused(tally)
    BY <1>3, TallyNumbers DEF VisualizerInv, Balanced
  <2> DEFINE d == c.denied
  <2>6. d \in Nat /\ denied' = denied + d /\ Refused(tally') - Refused(tally) = d - batch[b].denied
    BY <1>3, <1>6, <1>10
  <2> HIDE DEF d
  <2>3. total' + Sum(Counts(batch')) = tally'.requests
    <3>1. total' = total + batch[b].count /\ tally'.requests = tally.requests
      BY <1>3, <1>10
    <3> QED
      BY <3>1, <1>8, <2>1, <2>2
  <2>4. denied' + Sum(Denials(batch')) = Refused(tally')
    BY <2>6, <1>8, <2>1, <2>2
  <2>5. total' \in Nat /\ passed' \in Nat /\ denied' \in Nat /\ total' = passed' + denied'
    BY <1>6, <1>10, <2>2
  <2> QED
    BY <1>3, <2>3, <2>4, <2>5 DEF Balanced
<1>12. Shown'
  <2>1. Shown /\ passed \in Nat /\ denied \in Nat
    BY DEF VisualizerInv, Balanced
  <2> QED
    BY <1>4, <1>6, <2>1, CountedShown
<1>13. Settings' /\ Logged'
  BY <1>2 DEF VisualizerInv, Settings, Logged, settings, simulation
<1> QED
  BY <1>9, <1>11, <1>12, <1>13 DEF VisualizerInv

------------------------------------------------------------------------------
(***************************************************************************)
(* The simulation.                                                         *)
(***************************************************************************)

LogAges == 0 .. Second - 1

LEMMA LogAmounts ==
  ASSUME NEW f \in [LogAges -> Nat]
  PROVE  Amounts(f, LogAges) /\ Sum(f) \in Nat /\ 0 \in LogAges
<1>1. Second - 1 \in Nat
  BY VisualizerNumbers
<1>2. IsFiniteSet(LogAges) /\ 0 \in LogAges
  BY <1>1, UpTo DEF LogAges
<1>3. Amounts(f, LogAges)
  BY <1>2 DEF Amounts
<1> QED
  BY <1>2, <1>3, SumType

LEMMA QuotaNat ==
  ASSUME NEW t \in Tiers
  PROVE  PerSecond(t) \in Nat
BY VisualizerNumbers DEF PerSecond

\* How many of n requests the simulation lets pass.
LEMMA SimulatedOf ==
  ASSUME NEW n \in Nat, NEW recent \in Nat, tier \in Tiers
  PROVE  /\ Simulated(n, recent) \in Nat /\ Simulated(n, recent) <= n
         /\ \/ isChaosActive
            \/ Simulated(n, recent) = 0
            \/ recent + Simulated(n, recent) <= PerSecond(tier)
<1> DEFINE q == PerSecond(tier)
           room == IF 0 >= q - recent THEN 0 ELSE q - recent
<1>1. q \in Nat
  BY QuotaNat
<1> HIDE DEF q
<1>2. Max({0, q - recent}) = room /\ room \in Nat
  BY <1>1, MaxOf
<1>3. Min({n, room}) = IF n <= room THEN n ELSE room
  BY <1>2, MinOf
<1>4. Simulated(n, recent) = IF isChaosActive THEN n ELSE IF n <= room THEN n ELSE room
  BY <1>2, <1>3 DEF Simulated, q
<1> QED
  BY <1>1, <1>2, <1>4 DEF q

\* The log of the simulation without entries.
LEMMA NoLog ==
  ASSUME NEW f, f = Never
  PROVE  f \in [LogAges -> Nat] /\ (\A a \in LogAges : f[a] = 0) /\ Sum(f) = 0
<1>1. f \in [LogAges -> Nat] /\ DOMAIN f = LogAges /\ \A a \in LogAges : f[a] = 0
  BY DEF Never, LogAges
<1> QED
  BY <1>1, SumZero

\* A step that lets more pass ends within the quota of the tier.
WithinTier == Sum(withinQuota') > Sum(withinQuota) => Sum(withinQuota') <= PerSecond(tier)

LEMMA LoggedAdd ==
  ASSUME Logged, tier \in Tiers, NEW k \in Nat,
         history' = [history EXCEPT ![0] = history[0] + k],
         \/ withinQuota' = withinQuota
         \/ /\ withinQuota' = [withinQuota EXCEPT ![0] = withinQuota[0] + k]
            /\ k = 0 \/ Sum(history) + k <= PerSecond(tier)
  PROVE  Logged' /\ WithinTier
<1>1. /\ history \in [LogAges -> Nat] /\ withinQuota \in [LogAges -> Nat] /\ 0 \in LogAges
      /\ \A a \in LogAges : withinQuota[a] <= history[a]
  BY LogAmounts DEF Logged, LogAges
<1>2. /\ history' \in [LogAges -> Nat] /\ history'[0] = history[0] + k
      /\ \A a \in LogAges \ {0} : history'[a] = history[a]
      /\ history[0] \in Nat /\ withinQuota[0] \in Nat
  BY <1>1
<1>3. CASE withinQuota' = withinQuota
  <2>1. \A a \in LogAges : withinQuota'[a] <= history'[a]
    BY <1>1, <1>2, <1>3
  <2>2. WithinTier
    BY <1>1, <1>3, LogAmounts DEF WithinTier
  <2> QED
    BY <1>1, <1>2, <1>3, <2>1, <2>2 DEF Logged, LogAges
<1>4. CASE /\ withinQuota' = [withinQuota EXCEPT ![0] = withinQuota[0] + k]
           /\ k = 0 \/ Sum(history) + k <= PerSecond(tier)
  <2>1. /\ withinQuota' \in [LogAges -> Nat]
        /\ \A a \in LogAges : withinQuota'[a] <= history'[a]
    BY <1>1, <1>2, <1>4
  <2>2. CASE k = 0
    <3>1. withinQuota' = withinQuota
      BY <1>1, <1>4, <2>2
    <3> QED
      BY <1>3, <3>1
  <2>3. CASE Sum(history) + k <= PerSecond(tier)
    <3>1. Sum(history') = Sum(history) - history[0] + history'[0]
      <4> DEFINE f == history
                 h == history'
                 zero == 0
      <4>1. /\ Amounts(f, LogAges) /\ Amounts(h, LogAges) /\ zero \in LogAges
            /\ \A a \in LogAges \ {zero} : h[a] = f[a]
        BY <1>1, <1>2, LogAmounts
      <4> HIDE DEF f, h, zero
      <4>2. Sum(h) = Sum(f) - f[zero] + h[zero]
        BY <4>1, SumExcept
      <4> QED
        BY <4>2 DEF f, h, zero
    <3>2. Sum(history') = Sum(history) + k /\ Sum(history) \in Nat
      BY <1>1, <1>2, <3>1, LogAmounts
    <3>3. Sum(withinQuota') <= Sum(history') /\ Sum(withinQuota') \in Nat
      BY <1>2, <2>1, SumMonotone, LogAmounts
    <3>4. Sum(withinQuota') <= PerSecond(tier)
      BY <2>3, <3>2, <3>3, QuotaNat
    <3> QED
      BY <1>2, <2>1, <3>4 DEF Logged, LogAges, WithinTier
  <2> QED
    BY <1>4, <2>2, <2>3
<1> QED
  BY <1>3, <1>4

\* The first k of n requests pass.
LEMMA FirstPass ==
  ASSUME NEW n \in Nat, NEW k \in Nat, k <= n
  PROVE  [i \in 1 .. n |-> IF i <= k THEN "passed" ELSE "denied"] \in Outcomes(k, n - k)
<1> DEFINE s == [i \in 1 .. n |-> IF i <= k THEN "passed" ELSE "denied"]
<1>1. k + (n - k) = n
  OBVIOUS
<1>2. s \in [1 .. n -> Statuses]
  BY DEF Statuses
<1>3. {i \in DOMAIN s : s[i] = "passed"} = 1 .. k
  OBVIOUS
<1>4. Cardinality({i \in DOMAIN s : s[i] = "passed"}) = k
  BY <1>3, UpTo
<1> HIDE DEF s
<1>5. s \in Outcomes(k, n - k)
  BY <1>1, <1>2, <1>4 DEF Outcomes
<1> QED
  BY <1>5 DEF s

LEMMA SimulateStep ==
  ASSUME VisualizerInv, NEW n \in Nat, Simulate(n)
  PROVE  VisualizerInv' /\ WithinTier
<1> DEFINE k == Simulated(n, Sum(history))
           outcomes == [i \in 1 .. n |-> IF i <= k THEN "passed" ELSE "denied"]
<1>1. /\ history' = [history EXCEPT ![0] = history[0] + k]
      /\ withinQuota' = IF isChaosActive THEN withinQuota
                        ELSE [withinQuota EXCEPT ![0] = withinQuota[0] + k]
      /\ tally' = [[tally EXCEPT !.requests = tally.requests + n]
                    EXCEPT !.limited = tally.limited + n - k]
      /\ Counted(n, k, n - k, outcomes)
      /\ UNCHANGED <<settings, batch, selectedNode>>
  BY DEF Simulate
<1>2. tier \in Tiers /\ Logged /\ history \in [LogAges -> Nat] /\ isChaosActive \in BOOLEAN
  BY DEF VisualizerInv, Settings, Logged, LogAges
<1>3. Sum(history) \in Nat
  BY <1>2, LogAmounts
<1>4. /\ k \in Nat /\ k <= n
      /\ isChaosActive \/ k = 0 \/ Sum(history) + k <= PerSecond(tier)
  BY <1>2, <1>3, SimulatedOf
<1>5. outcomes \in Outcomes(k, n - k)
  BY <1>4, FirstPass
<1> HIDE DEF k, outcomes
<1>6. Logged' /\ WithinTier
  BY <1>1, <1>2, <1>4, LoggedAdd
<1>7. n - k \in Nat
  BY <1>4
<1>8. Shown'
  <2>1. Shown /\ passed \in Nat /\ denied \in Nat
    BY DEF VisualizerInv, Balanced
  <2> QED
    BY <1>1, <1>4, <1>5, <1>7, <2>1, CountedShown
<1>9. Balanced'
  <2>1. total' = total + n /\ passed' = passed + k /\ denied' = denied + (n - k)
    BY <1>1 DEF Counted
  <2>2. UNCHANGED batch
    BY <1>1
  <2>3. /\ total \in Nat /\ passed \in Nat /\ denied \in Nat /\ total = passed + denied
        /\ tally.requests \in Nat /\ Refused(tally) \in Nat
        /\ total + Sum(Counts(batch)) = tally.requests
        /\ denied + Sum(Denials(batch)) = Refused(tally)
    BY TallyNumbers DEF VisualizerInv, Balanced
  <2>4. Sum(Counts(batch)) \in Nat /\ Sum(Denials(batch)) \in Nat
    BY CallAmounts DEF VisualizerInv, Calls
  <2>5. /\ tally.requests + n \in Nat /\ Refused(tally) + n - k \in Nat
        /\ total + n + Sum(Counts(batch)) = tally.requests + n
        /\ denied + (n - k) + Sum(Denials(batch)) = Refused(tally) + n - k
    BY <1>4, <1>7, <2>3, <2>4
  <2>6. total' \in Nat /\ passed' \in Nat /\ denied' \in Nat /\ total' = passed' + denied'
    BY <1>4, <1>7, <2>1, <2>3
  <2>8. PICK q, f, e \in Nat : tally = [requests |-> q, limited |-> f, failed |-> e]
    BY DEF VisualizerInv, Balanced, Tallies
  <2> DEFINE t1 == [tally EXCEPT !.requests = q + n]
  <2>9. t1 = [requests |-> q + n, limited |-> f, failed |-> e]
    BY <2>8
  <2>10. tally' = [t1 EXCEPT !.limited = f + n - k]
    BY <1>1, <2>8
  <2> HIDE DEF t1
  <2>11. tally' = [requests |-> q + n, limited |-> f + n - k, failed |-> e]
    BY <2>9, <2>10
  <2>12. f + n - k \in Nat /\ q + n \in Nat /\ f + n - k + e = f + e + n - k
    BY <1>4, <1>7
  <2>7. /\ tally' \in Tallies
        /\ tally'.requests = tally.requests + n /\ Refused(tally') = Refused(tally) + n - k
    BY <2>8, <2>11, <2>12 DEF Tallies, Refused
  <2> QED
    BY <2>1, <2>2, <2>5, <2>6, <2>7 DEF Balanced
<1>10. Settings' /\ Calls'
  BY <1>1 DEF VisualizerInv, Settings, Calls, settings
<1> QED
  BY <1>6, <1>8, <1>9, <1>10 DEF VisualizerInv

LEMMA AgedLog ==
  ASSUME NEW f \in [LogAges -> Nat]
  PROVE  /\ Aged(f) \in [LogAges -> Nat] /\ Sum(Aged(f)) <= Sum(f)
         /\ Sum(Aged(f)) \in Nat /\ Sum(f) \in Nat
         /\ \A a \in LogAges : Aged(f)[a] = IF a = 0 THEN 0 ELSE f[a - 1]
<1> DEFINE n == Second - 1
           h == Aged(f)
<1>1. n \in Nat /\ LogAges = 0 .. n
  BY VisualizerNumbers DEF LogAges
<1> HIDE DEF n
<1>2. /\ f \in [0 .. n -> Nat] /\ DOMAIN f = 0 .. n
      /\ h = [a \in 0 .. n |-> IF a = 0 THEN 0 ELSE f[a - 1]]
  BY <1>1 DEF Aged
<1> HIDE DEF h
<1>3. ASSUME NEW a \in 0 .. n
      PROVE  h[a] \in Nat /\ h[a] = IF a = 0 THEN 0 ELSE f[a - 1]
  <2>1. a = 0 \/ a - 1 \in 0 .. n
    BY <1>1
  <2> QED
    BY <1>2, <2>1
<1>4. h \in [0 .. n -> Nat]
  BY <1>2, <1>3
<1>5. h[0] = 0
  BY <1>1, <1>3
<1>6. ASSUME NEW a \in 1 .. n
      PROVE  h[a] <= f[a - 1] + (IF a = n THEN f[a] ELSE 0)
  <2>1. a \in 0 .. n /\ a - 1 \in 0 .. n /\ a # 0
    BY <1>1
  <2>2. h[a] = f[a - 1] /\ f[a - 1] \in Nat /\ f[a] \in Nat
    BY <1>2, <1>3, <2>1
  <2> QED
    BY <2>2
<1>7. Sum(h) <= Sum(f)
  BY <1>1, <1>2, <1>4, <1>5, <1>6, SumOlder
<1>8. Sum(h) \in Nat /\ Sum(f) \in Nat
  BY <1>1, <1>4, LogAmounts
<1> QED
  BY <1>1, <1>3, <1>4, <1>7, <1>8 DEF h

LEMMA VisualizerTickStep ==
  ASSUME VisualizerInv, VisualizerTick
  PROVE  VisualizerInv' /\ WithinTier
<1>1. /\ history' = Aged(history) /\ withinQuota' = Aged(withinQuota)
      /\ UNCHANGED <<settings, counters, particles, batch, selectedNode, tally>>
  BY DEF VisualizerTick
<1>2. /\ history \in [LogAges -> Nat] /\ withinQuota \in [LogAges -> Nat]
      /\ \A a \in LogAges : withinQuota[a] <= history[a]
  BY DEF VisualizerInv, Logged, LogAges
<1>3. ASSUME NEW a \in LogAges
      PROVE  withinQuota'[a] <= history'[a]
  <2>1. a = 0 \/ a - 1 \in LogAges
    BY VisualizerNumbers DEF LogAges
  <2>2. /\ history'[a] = (IF a = 0 THEN 0 ELSE history[a - 1])
        /\ withinQuota'[a] = (IF a = 0 THEN 0 ELSE withinQuota[a - 1])
    BY <1>1, <1>2, AgedLog
  <2> QED
    BY <1>2, <2>1, <2>2
<1>4. WithinTier
  <2>1. /\ Sum(withinQuota') <= Sum(withinQuota)
        /\ Sum(withinQuota') \in Nat /\ Sum(withinQuota) \in Nat
    BY <1>1, <1>2, AgedLog
  <2> QED
    BY <2>1 DEF WithinTier
<1>5. Logged'
  <2>1. history' \in [LogAges -> Nat] /\ withinQuota' \in [LogAges -> Nat]
    BY <1>1, <1>2, AgedLog
  <2> QED
    BY <1>3, <2>1 DEF Logged, LogAges
<1>6. Settings' /\ Calls' /\ Balanced' /\ Shown'
  BY <1>1 DEF VisualizerInv, Settings, Calls, Balanced, Shown, settings, counters
<1> QED
  BY <1>4, <1>5, <1>6 DEF VisualizerInv

------------------------------------------------------------------------------
(***************************************************************************)
(* Every step of the visualizer.                                           *)
(***************************************************************************)

\* Steps that leave the log of the simulation alone.
LEMMA SameLog ==
  ASSUME VisualizerInv, UNCHANGED withinQuota
  PROVE  WithinTier
<1>1. withinQuota \in [LogAges -> Nat]
  BY DEF VisualizerInv, Logged, LogAges
<1>2. Sum(withinQuota') = Sum(withinQuota) /\ Sum(withinQuota) \in Nat
  BY <1>1, LogAmounts
<1> QED
  BY <1>2 DEF WithinTier

\* A tick of the streamer sends at least one request.
LEMMA BatchPerTickPositive ==
  ASSUME rps \in Rates
  PROVE  BatchPerTick \in Nat /\ BatchPerTick > 0
<1>1. rps \in 1 .. 5000
  BY VisualizerAssumption
<1>2. TickRateMs \in {50, 100, 200}
  BY DEF TickRateMs
<1>3. rps * TickRateMs \in Nat
  BY <1>1, <1>2
<1> DEFINE q == (rps * TickRateMs + 500) \div 1000
<1>4. q \in Nat
  BY <1>3
<1> HIDE DEF q
<1>5. Max({1, q}) = IF 1 >= q THEN 1 ELSE q
  BY <1>4, MaxOf
<1> QED
  BY <1>4, <1>5 DEF BatchPerTick, q

LEMMA ProcessRequestsStep ==
  ASSUME VisualizerInv, NEW n \in Nat, n > 0, processRequests(n)
  PROVE  VisualizerInv' /\ WithinTier
<1>1. ASSUME NEW b \in Batches, SendBatch(b, n)
      PROVE  VisualizerInv' /\ WithinTier
  BY <1>1, SendBatchStep, SameLog DEF SendBatch, simulation
<1> QED
  BY <1>1, SimulateStep DEF processRequests

LEMMA StartStep ==
  ASSUME VisualizerInv, StreamTick \/ FireBurst
  PROVE  VisualizerInv' /\ WithinTier
<1>1. CASE StreamTick
  <2>1. rps \in Rates
    BY DEF VisualizerInv, Settings
  <2> QED
    BY <1>1, <2>1, BatchPerTickPositive, ProcessRequestsStep DEF StreamTick
<1>2. CASE FireBurst
  <2>1. PICK n \in BurstSizes : processRequests(n)
    BY <1>2 DEF FireBurst
  <2>2. BurstSizes \subseteq Nat \ {0}
    BY VisualizerAssumption
  <2>3. n \in Nat /\ n > 0
    BY <2>1, <2>2
  <2> QED
    BY <2>1, <2>3, ProcessRequestsStep
<1> QED
  BY <1>1, <1>2

\* The controls, but the reset.
LEMMA ControlStep ==
  ASSUME VisualizerInv,
         SetTier \/ SetRps \/ ToggleStream \/ ToggleChaos \/ SetMode
           \/ HandleNodeClick \/ OnClose
  PROVE  VisualizerInv'
<1>1. /\ UNCHANGED <<counters, simulation, batch, tally, particles>>
      /\ tier' \in Tiers /\ rps' \in Rates
      /\ isStreaming' \in BOOLEAN /\ isChaosActive' \in BOOLEAN /\ isLiveMode' \in BOOLEAN
  BY DEF SetTier, SetRps, ToggleStream, ToggleChaos, SetMode, HandleNodeClick, OnClose,
         VisualizerInv, Settings, settings, notSettings
<1>2. (selectedNode = NoNode \/ selectedNode.node \in Nodes)'
  <2>1. CASE HandleNodeClick
    <3>1. PICK node \in Nodes : selectedNode' = Details(node)
      BY <2>1 DEF HandleNodeClick
    <3>2. Details(node).node = node
      BY DEF Details
    <3> QED
      BY <3>1, <3>2
  <2>2. CASE OnClose
    BY <2>2 DEF OnClose
  <2>3. CASE UNCHANGED selectedNode
    BY <2>3 DEF VisualizerInv, Settings
  <2> QED
    BY <2>1, <2>2, <2>3 DEF SetTier, SetRps, ToggleStream, ToggleChaos, SetMode, notSettings
<1> QED
  BY <1>1, <1>2, SettingsStep DEF Settings

LEMMA NeverLogged ==
  ASSUME history' = Never, withinQuota' = Never
  PROVE  Logged'
<1>1. /\ history' \in [LogAges -> Nat] /\ withinQuota' \in [LogAges -> Nat]
      /\ \A a \in LogAges : history'[a] = 0 /\ withinQuota'[a] = 0
  BY NoLog
<1>4. \A a \in LogAges : withinQuota'[a] <= history'[a]
  BY <1>1
<1> QED
  BY <1>1, <1>4 DEF Logged, LogAges

\* Nothing passes when the log is emptied.
LEMMA NeverWithin ==
  ASSUME VisualizerInv, withinQuota' = Never
  PROVE  WithinTier
<1>1. withinQuota \in [LogAges -> Nat]
  BY DEF VisualizerInv, Logged, LogAges
<1>2. Sum(withinQuota') = 0 /\ Sum(withinQuota) \in Nat
  BY <1>1, NoLog, LogAmounts
<1> QED
  BY <1>2 DEF WithinTier

LEMMA NoneShown ==
  ASSUME particles' = <<>>, passed' = 0, denied' = 0
  PROVE  Shown'
<1>1. /\ particles' \in Seq(Statuses) /\ Len(particles') = 0
      /\ CountOf(particles', "passed") = 0 /\ CountOf(particles', "denied") = 0
  BY NothingShown
<1> QED
  BY <1>1, VisualizerNumbers DEF Shown

LEMMA ResetStep ==
  ASSUME VisualizerInv, ResetStats
  PROVE  VisualizerInv'
<1>1. /\ total' = 0 /\ passed' = 0 /\ denied' = 0 /\ particles' = <<>>
      /\ history' = Never /\ withinQuota' = Never
      /\ tally' = UnderWay
      /\ UNCHANGED <<settings, batch, selectedNode>>
  BY DEF ResetStats
<1>2. Logged' /\ Shown'
  BY <1>1, NeverLogged, NoneShown
<1>3. Settings' /\ Calls'
  BY <1>1 DEF VisualizerInv, Settings, Calls, settings
<1>4. Balanced'
  <2>1. Sum(Counts(batch)) \in Nat /\ Sum(Denials(batch)) \in Nat
    BY CallAmounts DEF VisualizerInv, Calls
  <2>2. /\ tally' \in Tallies /\ batch' = batch
        /\ tally'.requests = Sum(Counts(batch)) /\ Refused(tally') = Sum(Denials(batch))
    <3> DEFINE n == Sum(Counts(batch))
               d == Sum(Denials(batch))
               e == Sum(Failures(batch))
    <3>1. tally' = [requests |-> n, limited |-> d - e, failed |-> e] /\ batch' = batch
      BY <1>1, InFlightIs DEF UnderWay
    <3>2. n \in Nat /\ d \in Nat /\ e \in Nat /\ e <= d
      BY <2>1, FewerFailures DEF VisualizerInv, Calls
    <3> HIDE DEF n, d, e
    <3>3. d - e \in Nat /\ d - e + e = d
      BY <3>2
    <3>4. tally' \in Tallies /\ tally'.requests = n /\ Refused(tally') = d
      BY <3>1, <3>2, <3>3 DEF Tallies, Refused
    <3> QED
      BY <3>1, <3>4 DEF n, d
  <2>3. 0 + Sum(Counts(batch)) = Sum(Counts(batch)) /\ 0 + Sum(Denials(batch)) = Sum(Denials(batch))
    BY <2>1
  <2> QED
    BY <1>1, <2>2, <2>3 DEF Balanced
<1> QED
  BY <1>2, <1>3, <1>4 DEF VisualizerInv

LEMMA DropStep ==
  ASSUME VisualizerInv, DropParticle
  PROVE  VisualizerInv'
<1>1. /\ particles # <<>> /\ particles' = Tail(particles)
      /\ UNCHANGED <<settings, counters, simulation, batch, selectedNode, tally>>
  BY DEF DropParticle
<1>2. Settings' /\ Calls' /\ Balanced' /\ Logged'
  BY <1>1 DEF VisualizerInv, Settings, Calls, Balanced, Logged,
              settings, counters, simulation
<1>3. Shown'
  <2>1. /\ particles \in Seq(Statuses) /\ Len(particles) <= KeepOld + KeepNew
        /\ CountOf(particles, "passed") <= passed /\ CountOf(particles, "denied") <= denied
        /\ passed \in Nat /\ denied \in Nat /\ passed' = passed /\ denied' = denied
    BY <1>1 DEF VisualizerInv, Shown, Balanced, counters
  <2>2. particles' \in Seq(Statuses) /\ Len(particles') <= Len(particles)
    BY <1>1, <2>1, TailProperties
  <2>3. Len(particles) \in Nat /\ Len(particles') \in Nat
    BY <2>1, <2>2, LenProperties
  <2>4. ASSUME NEW v, NEW n \in Nat, CountOf(particles, v) <= n
        PROVE  CountOf(particles', v) <= n
    <3>1. CountOf(particles', v) <= CountOf(particles, v)
      BY <1>1, <2>1, TailProperties
    <3>2. CountOf(particles', v) \in Nat /\ CountOf(particles, v) \in Nat
      BY <2>3, PlacesFinite
    <3> QED
      BY <2>4, <3>1, <3>2
  <2>5. CountOf(particles', "passed") <= passed' /\ CountOf(particles', "denied") <= denied'
    BY <2>1, <2>4
  <2> QED
    BY <2>1, <2>2, <2>3, <2>5, VisualizerNumbers DEF Shown
<1> QED
  BY <1>2, <1>3 DEF VisualizerInv

LEMMA NewVisualizer ==
  ASSUME LeaveVisualizer
  PROVE  VisualizerInv'
<1>1. Logged' /\ Shown'
  BY NeverLogged, NoneShown DEF LeaveVisualizer
<1>2. Settings'
  BY VisualizerNumbers DEF LeaveVisualizer, Settings
<1>3. /\ batch' \in [Batches -> Call] /\ \A b \in Batches : Proper(batch'[b])
      /\ Sum(Counts(batch')) = 0 /\ Sum(Denials(batch')) = 0
  BY NoCalls DEF LeaveVisualizer
<1>4. Calls'
  BY <1>3 DEF Calls
<1>5. Balanced'
  BY <1>3 DEF LeaveVisualizer, Balanced, Tallies, Refused
<1> QED
  BY <1>1, <1>2, <1>4, <1>5 DEF VisualizerInv

LEMMA VisualizerStart == VisualizerInit => VisualizerInv
<1> SUFFICES ASSUME VisualizerInit PROVE VisualizerInv
  OBVIOUS
<1>1. Settings
  BY VisualizerNumbers DEF VisualizerInit, Settings
<1>2. /\ batch \in [Batches -> Call] /\ \A b \in Batches : Proper(batch[b])
      /\ Sum(Counts(batch)) = 0 /\ Sum(Denials(batch)) = 0
  BY NoCalls DEF VisualizerInit
<1>3. Calls /\ Balanced
  BY <1>2 DEF VisualizerInit, Calls, Balanced, Tallies, Refused
<1>4. Shown
  <2>1. /\ particles \in Seq(Statuses) /\ Len(particles) = 0
        /\ CountOf(particles, "passed") = 0 /\ CountOf(particles, "denied") = 0
    BY NothingShown DEF VisualizerInit
  <2> QED
    BY <2>1, VisualizerNumbers DEF VisualizerInit, Shown
<1>5. Logged
  <2>1. /\ history \in [LogAges -> Nat] /\ withinQuota \in [LogAges -> Nat]
        /\ \A a \in LogAges : history[a] = 0 /\ withinQuota[a] = 0
    BY NoLog DEF VisualizerInit
  <2>3. \A a \in LogAges : withinQuota[a] <= history[a]
    BY <2>1
  <2> QED
    BY <2>1, <2>3 DEF Logged, LogAges
<1> QED
  BY <1>1, <1>3, <1>4, <1>5 DEF VisualizerInv

LEMMA VisualizerStep ==
  ASSUME VisualizerInv, VisualizerNext \/ LeaveVisualizer \/ UNCHANGED visualizer
  PROVE  VisualizerInv' /\ WithinTier
<1>1. CASE VisualizerNext
  <2>1. CASE \E b \in Batches : AwaitMore(b) \/ NextChunk(b)
    BY <2>1, ChunkStep, SameLog DEF AwaitMore, NextChunk, Respond, simulation
  <2>2. CASE \E b \in Batches : Finish(b)
    BY <2>2, FinishStep, SameLog DEF Finish, Respond, simulation
  <2>3. CASE StreamTick \/ FireBurst
    BY <2>3, StartStep
  <2>4. CASE SetTier \/ SetRps \/ ToggleStream \/ ToggleChaos \/ SetMode
               \/ HandleNodeClick \/ OnClose
    <3>1. UNCHANGED withinQuota
      BY <2>4 DEF SetTier, SetRps, ToggleStream, ToggleChaos, SetMode, HandleNodeClick,
                  OnClose, notSettings, simulation
    <3> QED
      BY <2>4, <3>1, ControlStep, SameLog
  <2>5. CASE ResetStats
    BY <2>5, ResetStep, NeverWithin DEF ResetStats
  <2>6. CASE DropParticle
    BY <2>6, DropStep, SameLog DEF DropParticle, simulation
  <2>7. CASE VisualizerTick
    BY <2>7, VisualizerTickStep
  <2> QED
    BY <1>1, <2>1, <2>2, <2>3, <2>4, <2>5, <2>6, <2>7 DEF VisualizerNext
<1>2. CASE LeaveVisualizer
  BY <1>2, NewVisualizer, NeverWithin DEF LeaveVisualizer
<1>3. CASE UNCHANGED visualizer
  <2>1. Settings' /\ UNCHANGED <<counters, simulation, batch, tally, particles>>
    BY <1>3 DEF visualizer, settings, notSettings, VisualizerInv, Settings
  <2> QED
    BY <2>1, SettingsStep, SameLog DEF simulation
<1> QED
  BY <1>1, <1>2, <1>3

------------------------------------------------------------------------------
(***************************************************************************)
(* What the page says.                                                     *)
(***************************************************************************)

LEMMA VisualizerInvGives ==
  ASSUME VisualizerInv
  PROVE  VisualizerTypeOK /\ StatsAgree /\ CountedOnce
<1>2. CountedOnce
  BY InFlightIs DEF VisualizerInv, Balanced, CountedOnce, Refused
<1>3. StatsAgree
  <2>1. particles \in Seq(Statuses) /\ DOMAIN particles = 1 .. Len(particles)
    BY LenProperties DEF VisualizerInv, Shown
  <2>2. /\ Cardinality({i \in DOMAIN particles : particles[i] = "passed"}) <= passed
        /\ Cardinality({i \in DOMAIN particles : particles[i] = "denied"}) <= denied
    BY <2>1 DEF VisualizerInv, Shown, CountOf, Places
  <2>3. total = passed + denied
    BY DEF VisualizerInv, Balanced
  <2> QED
    BY <2>2, <2>3 DEF StatsAgree
<1>4. batch \in [Batches -> [count : Nat, left : Nat, waiting : 0 .. ChunkSize,
                              passed : Nat, denied : Nat, failed : Nat]]
  <2>1. ASSUME NEW b \in Batches
        PROVE  batch[b] \in [count : Nat, left : Nat, waiting : 0 .. ChunkSize,
                             passed : Nat, denied : Nat, failed : Nat]
    <3>1. batch[b] \in Call /\ Proper(batch[b])
      BY DEF VisualizerInv, Calls
    <3>2. PICK n, l, w, p, d, e \in Nat : batch[b] = CallOf(n, l, w, p, d, e)
      BY <3>1, CallFields
    <3>3. w \in 0 .. ChunkSize
      BY <3>1, <3>2, VisualizerNumbers DEF CallOf, Proper
    <3> QED
      BY <3>2, <3>3 DEF CallOf
  <2>2. batch \in [Batches -> Call]
    BY DEF VisualizerInv, Calls
  <2> QED
    BY <2>1, <2>2
<1>5. \A b \in Batches : batch[b].waiting = 0 => batch[b] = Idle
  BY DEF VisualizerInv, Calls, Proper
<1>6. /\ tier \in Tiers /\ rps \in Rates
      /\ {isStreaming, isChaosActive, isLiveMode} \subseteq BOOLEAN
      /\ selectedNode = NoNode \/ selectedNode.node \in Nodes
  BY DEF VisualizerInv, Settings
<1>7. /\ {total, passed, denied} \subseteq Nat
      /\ tally \in [requests : Nat, limited : Nat, failed : Nat]
  BY DEF VisualizerInv, Balanced, Tallies
<1>8. particles \in Seq(Statuses) /\ Len(particles) <= KeepOld + KeepNew
  BY DEF VisualizerInv, Shown
<1>9. {history, withinQuota} \subseteq [0 .. Second - 1 -> Nat]
  BY DEF VisualizerInv, Logged
<1> QED
  BY <1>2, <1>3, <1>4, <1>5, <1>6, <1>7, <1>8, <1>9 DEF VisualizerTypeOK

LEMMA VisualizerInvariant == Spec => []VisualizerInv
<1>1. Init => VisualizerInv
  BY VisualizerStart DEF Init
<1>2. VisualizerInv /\ [Next]_vars => VisualizerInv'
  BY PartsStep, VisualizerStep
<1> QED
  BY <1>1, <1>2, PTL DEF Spec

\* processRequests, StatsGrid.tsx: the numbers on the page agree, and the particles
\* are requests that were counted, for any number of overlapping calls of any size.
THEOREM StatsAlwaysAgree == Spec => []StatsAgree
<1>1. VisualizerInv => StatsAgree
  BY VisualizerInvGives
<1> QED
  BY <1>1, VisualizerInvariant, PTL

\* processRequests: each request is counted exactly once, and as denied exactly those
\* that met a limit or a server's error, whatever is reset and however calls overlap.
THEOREM EachCountedOnce == Spec => []CountedOnce
<1>1. VisualizerInv => CountedOnce
  BY VisualizerInvGives
<1> QED
  BY <1>1, VisualizerInvariant, PTL

\* processRequests in offline mode: a request that passes leaves the passes of the
\* last second within the quota of the tier selected, for any quotas, batches and
\* changes of the controls.
THEOREM SimulationKeepsQuota == Spec => SimulatedQuotaKept
<1>1. VisualizerInv /\ [Next]_vars =>
        [Sum(withinQuota') > Sum(withinQuota) => Sum(withinQuota') <= PerSecond(tier)]_visualizer
  BY PartsStep, VisualizerStep DEF WithinTier
<1> QED
  BY <1>1, VisualizerInvariant, PTL DEF Spec, SimulatedQuotaKept

\* The values of the variables, for any controls, sections, keys and bounds.
THEOREM DashboardTypeCorrect == Spec => []TypeOK
<1> DEFINE Inv == VisualizerInv /\ DocsInv /\ ThemeInv /\ pathname \in Pages
<1>1. Init => Inv
  BY VisualizerStart, DocsStart, ThemeStart DEF Init
<1>2. Inv /\ [Next]_vars => Inv'
  BY PartsStep, VisualizerStep, DocsStep, ThemeStep
<1>3. Inv => TypeOK
  BY VisualizerInvGives, DocsInvGives DEF TypeOK, ThemeInv
<1> HIDE DEF Inv
<1> QED
  BY <1>1, <1>2, <1>3, PTL DEF Spec

==============================================================================
