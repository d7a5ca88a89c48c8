----------------------------- MODULE LocalLimiters -----------------------------
(***************************************************************************)
(* The four algorithms of internal/limiter/local on the state they keep    *)
(* for one key: what Allow does between taking and releasing the state's   *)
(* mutex.                                                                  *)
(*                                                                         *)
(* The clock is read under the mutex, so readings of one state never go    *)
(* back.  A reading is kept as its age, up to an age from which on nothing *)
(* changes.  Tokens and water are integers in units of 1/Window of a       *)
(* request, of which Limit are earned or leak in a tick.                   *)
(***************************************************************************)
EXTENDS Sums, FiniteSetsExt

CONSTANTS
  Limit, Window, Capacity,  \* limiter.Spec: Capacity() is Burst, or Limit without
  Cost                      \* of every request

ASSUME LocalAssumption == {Limit, Window, Capacity, Cost} \subseteq Nat \ {0}

Algorithms == {"token_bucket", "leaky_bucket", "sliding_window_log",
               "sliding_window_counter"}

Full == Capacity * Window
Charge == Cost * Window

\* log[a] is a number of things of age a.
Ages == 0 .. Window - 1

\* What GetOrInsert's factory makes; the types of the states are told apart by
\* their algorithm.
New(algorithm) ==
  CASE algorithm = "token_bucket" ->
         [algorithm |-> algorithm, tokens |-> Full, age |-> 0]
    [] algorithm = "leaky_bucket" ->
         [algorithm |-> algorithm, water |-> 0, age |-> 0]
    [] algorithm = "sliding_window_log" ->
         [algorithm |-> algorithm, timestamps |-> [a \in Ages |-> 0]]
    [] algorithm = "sliding_window_counter" ->
         [algorithm |-> algorithm, currentCount |-> 0, prevCount |-> 0, behind |-> 0]

TokenStates == [algorithm : {"token_bucket"}, tokens : 0 .. Full, age : 0 .. Full]
WaterStates == [algorithm : {"leaky_bucket"}, water : 0 .. Full, age : 0 .. Full]
LogStates == [algorithm : {"sliding_window_log"}, timestamps : [Ages -> Nat]]
CounterStates == [algorithm : {"sliding_window_counter"}, currentCount : Nat,
                  prevCount : Nat, behind : 0 .. 2]
States == TokenStates \cup WaterStates \cup LogStates \cup CounterStates

\* What is returned of a call, and the state it leaves.
Result(allowed, s) == [allowed |-> allowed, state |-> s]

TokenBucketAllow(s) ==
  LET tokens == Min({Full, s.tokens + s.age * Limit})
  IN  IF tokens >= Charge
        THEN Result(TRUE, [s EXCEPT !.tokens = tokens - Charge, !.age = 0])
        ELSE Result(FALSE, [s EXCEPT !.tokens = tokens, !.age = 0])

LeakyBucketAllow(s) ==
  LET water == Max({0, s.water - s.age * Limit})
  IN  IF water + Charge <= Full
        THEN Result(TRUE, [s EXCEPT !.water = water + Charge, !.age = 0])
        ELSE Result(FALSE, [s EXCEPT !.water = water, !.age = 0])

\* timestamps[a] is the number of entries of age a; older ones are cut off before
\* they are counted.
SlidingWindowLogAllow(s) ==
  IF Sum(s.timestamps) + Cost <= Limit
    THEN Result(TRUE, [s EXCEPT !.timestamps[0] = @ + Cost])
    ELSE Result(FALSE, s)

\* The counts move on to the window of the reading; behind says by how many windows.
Shifted(s) ==
  IF s.behind = 0 THEN s
  ELSE [s EXCEPT !.prevCount = IF s.behind = 1 THEN s.currentCount ELSE 0,
                 !.currentCount = 0, !.behind = 0]

\* elapsed: ticks since the current window began.
SlidingWindowCounterAllow(s, elapsed) ==
  LET c == Shifted(s)
      weighted == c.prevCount * (Window - elapsed) + c.currentCount * Window
  IN  IF weighted + Charge <= Limit * Window
        THEN Result(TRUE, [c EXCEPT !.currentCount = @ + Cost])
        ELSE Result(FALSE, c)

Allow(s, elapsed) ==
  CASE s.algorithm = "token_bucket" -> TokenBucketAllow(s)
    [] s.algorithm = "leaky_bucket" -> LeakyBucketAllow(s)
    [] s.algorithm = "sliding_window_log" -> SlidingWindowLogAllow(s)
    [] s.algorithm = "sliding_window_counter" -> SlidingWindowCounterAllow(s, elapsed)

\* A tick later; newWindow: a window of the clock begins.
Aged(log) == [a \in Ages |-> IF a = 0 THEN 0 ELSE log[a - 1]]

Older(s, newWindow) ==
  CASE s.algorithm \in {"token_bucket", "leaky_bucket"} ->
         [s EXCEPT !.age = Min({Full, @ + 1})]
    [] s.algorithm = "sliding_window_log" -> [s EXCEPT !.timestamps = Aged(@)]
    [] s.algorithm = "sliding_window_counter" ->
         [s EXCEPT !.behind = IF newWindow THEN Min({2, @ + 1}) ELSE @]

\* The most that is admitted in any Window ticks: a full bucket and what it earns
\* meanwhile, the limit, or the limit of each of two windows.
Most(algorithm) ==
  CASE algorithm \in {"token_bucket", "leaky_bucket"} ->
         (Full + (Window - 1) * Limit) \div Window
    [] algorithm = "sliding_window_log" -> Limit
    [] algorithm = "sliding_window_counter" -> 2 * Limit

==============================================================================
