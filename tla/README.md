# A verification of the distributed rate limiter

TLA+ specifications of the gateway (Go and Lua under `src/backend`) and of the
dashboard that drives and shows it (TypeScript under `src/frontend`), configurations that let TLC check them on small instances, and
proofs that TLAPS checks for every value of the parameters.

1. The system
2. The modules, and how they correspond to the code
3. What the runs check
4. What is proved
5. Where the code and its documentation disagree
6. What is not modelled
7. Plan

## 1. The system

A client's request reaches one of several **gateway replicas** behind nginx. The
replica works out who is calling (API key, JWT subject or IP address), the tier
and the limit that go with it, and asks the **limiter** of the route for that
tier whether the key of the caller may spend the route's cost. If so the request
is forwarded to the upstream; if not it is answered with 429. Replicas share
nothing but **one Redis**, which keeps no data on disk.

| part | state | operations | talks to |
|---|---|---|---|
| circuit breaker (`breaker.go`) | state, total, failures, successes, openedAt under one mutex | `Do` | runs the call to Redis between its two critical sections |
| distributed token bucket, leaky bucket, sliding window log, sliding window counter (`limiter/distributed`) | one or two Redis keys with a TTL for each limiter key | `Allow`: read the clock, run a Lua script | Redis, atomically per script |
| local versions of the four (`limiter/local`) | a state with a mutex for each key, in a sharded map with a janitor | `Allow` | - |
| registry (`registry.go`) | - | `New`: cache around breaker around limiter; `breakerWrapper.Allow` sets the deadline | breaker, limiter |
| L1 cache (`cache/l1.go`) | `sync.Map` of allow decisions with an expiry | `Get`, `Set`, `Allow` | breaker wrapper |
| middleware (`ratelimit.go`) | - | one pass for each request | identity, tier, limiter, upstream |
| identity, key, tier (`identity`, `tier`) | static tables; `CachedResolver` (unused) a `sync.Map` | `Extract`, `Resolve` | middleware |
| configuration (`config`) | - | load, validate | start and reload |
| process (`cmd/gateway`, `server`) | the active handler; two HTTP servers | reload on SIGHUP, shutdown | all of the above |
| dashboard: visualizer (`visualizer/page.tsx` and the components on it) | settings, counters, particles, a log of simulated passes, batches awaiting responses | every control, the streamer's timer, `processRequests` | `/api/proxy-gateway`, which calls the gateway |
| dashboard: documentation (`DocsSection.tsx`) | section, search, copy mark and timers, tester | menu, copy, test | `/api/proxy-gateway` |
| dashboard: theme and navigation (`ThemeContext.tsx`, `Navbar.tsx`, `layout.tsx`) | theme, classes of the document, local storage, the page on display | toggle, navigate, reload | other tabs, through the local storage |
| metrics, proxy, logging | - | - | - |

What makes it hard, and what each part has to get right:

* **Breaker.** `Do` decides under the mutex, calls Redis without it and records
  the result under it again, so results come back to a breaker that may have
  changed state any number of times. It must open when its counts say so, let
  nothing through while it is open, close only on successful probes of the
  current period, and be able to recover although no timer drives it.
* **Distributed limiters.** The script is atomic, but the time it uses was read
  by a replica before the request left. Requests overtake each other, clocks of
  replicas differ, requests and answers are lost, go-redis sends requests again,
  callers give up while their request is under way, keys expire, Redis restarts
  empty. Still there must be *one* limit for all replicas, a `Retry-After` that
  is enough, and no denial because of other denials.
* **Gateway.** The cache, the breaker and the fallback policy come between a
  request and Redis. Nothing may be forwarded without a reason, a denial must be
  Redis's own, an outage must look like an outage, and no goroutine may hang.
* **Local limiters, process.** The janitor may delete state that is in use or
  still matters; a reload replaces limiters with requests inside; signals and edits
  come during a reload; one deadline serves two shutdowns. Limits must hold all the
  same, and no reload may be lost.
* **Dashboard.** A call of `processRequests` awaits responses while every control can
  be used and the timer starts more calls. Results are added to counters that may
  have been reset, in a mode that may have changed; every request must be counted once, whatever fails;
  the tester must show the answer to what was asked last.

`PROJECT.json` lists the components and the hazards line by line, each with the
properties that cover it.

## 2. The modules

| module | models | abstract specification |
|---|---|---|
| `Breaker` | `breaker.go` | `BreakerFSM`, the machine drawn in `ARCHITECTURE.md`, section 5 |
| `RedisCalls` | the way of a call to Redis and back: `runScript`, go-redis, the network | - |
| `TokenBucket` | `tokenbucket.go`, `token_bucket.lua` | - |
| `LeakyBucket` | `leakybucket.go`, `leaky_bucket.lua` | `TokenBucket` |
| `SlidingLog` | `slidingwindowlog.go`, `sliding_window_log.lua` | - |
| `SlidingCounter` | `slidingwindowcounter.go`, `sliding_window_counter.lua` | - |
| `Gateway`, extends `Breaker` | `ratelimit.go`, `l1.go`, `registry.go` | `Breaker` for the part it plays |
| `Sums` | numbers of things, and how many these are together | - |
| `LocalLimiters`, extends `Sums` | the four `Allow`s of `limiter/local` on the state of one key | - |
| `Process`, extends `LocalLimiters` | `main.go`, `server.go`, `shardedmap.go` | - |
| `Visualizer`, extends `Sums` | `visualizer/page.tsx`, its components, `proxy-gateway/route.ts` | - |
| `DocsSection`, extends `Sums` | `DocsSection.tsx` | - |
| `ThemeContext` | `ThemeContext.tsx` | - |
| `Dashboard`, extends these three | one tab: `layout.tsx`, `Navbar.tsx`, the pages | - |
| `MC*` | instances for TLC: symmetry, refinement mappings | |
| `*Proofs` | the theorems of the module they are named after; those of `Breaker` are in `GatewayProofs` | |

The four algorithms extend `RedisCalls`. In every module, an operator whose name
has the form `Definition_Mistake` stands right before `Definition` and is the
same definition with a plausible bug. Nothing uses these operators; putting one
in the place of its original must make TLC find a named property violated, which
is how the properties were tested.

**Breaker.** `Admit`, `Probe` and `Reject` are the outcomes of the first
critical section; `Finish` is the second, with one operator for each `case` of its
`switch` (`RecordClosed`, `RecordHalfOpenSuccess`, `RecordHalfOpenFailure`,
`RecordOpen`). Instead of `openedAt` the module keeps the time since
(`sinceOpened`), which need not count beyond `OpenDuration + 1`; `age[c]` is how
long a call has been out. `RedisSwitches` switches whether calls may fail, for
whatever reason (`Do` records a cancelled request of a client like an outage).
`probes` and `probeOks` are history variables: they tell calls admitted in the
current half-open period from older ones, which the code cannot.

**RedisCalls.** A slot of `Calls` is an `Allow` in progress on any replica.
`Depart` reads a clock (up to `MaxSkew` ahead of the slowest one), `Arrive` is
the moment the script runs and the answer gets back or not, `LoseRequest`,
`SendAgain` and `ReturnUnavailable` are what happens on the way. A request that
is not lost arrives within `MaxDelay`; in the code that is roughly the command
timeout. A caller who got `ErrUnavailable` leaves its requests behind, so a slot
is free only when nothing is left of the call.

**TokenBucket, LeakyBucket.** One key; `exists`, `tokens`/`level` and
`ts`/`lastDrain` are the hash, `expiresAt` its TTL. Amounts are integers in
units of 1/`Window` of a request, so that a tick earns or drains exactly `Limit`
units and no rounding is hidden. `RunScript` is the whole script, its reply and
the Go code's use of it. `hint` remembers when the last denied caller was told to
come back. `allowance` and `rewound` are an observer: from any decision on
(`BeginMeasure`) `allowance` is what a bucket of this size and rate may still
hand out, and `rewound` how far the stored time was moved back.
In both scripts the stored time is the reading of the *last* script, not the
latest one. The leaky bucket is the token bucket upside down; `Tokens == Full -
level` is the refinement mapping.

**SlidingLog.** `log` is the sorted set with one entry for each call (the script
stores `cost` members with one score). `Member` is the name an entry gets, a
fresh identifier for each call and the same when a request is sent again.
`admitted` is a history variable of all calls admitted since Redis started.

**SlidingCounter.** `used[w]` and `dies[w]` are the counter of window `w` and its
expiry. The weight of the previous window is a fraction of `Window`, so the
estimate is exact in units of 1/`Window`. `charged` is what was charged to each
window, expired or not; an observer counts in `taken` what is charged to readings
in the `Window` ticks from `from`, a moment that `Init` chooses.

**Gateway.** Requests for one key of one route. The module adds their variables to
those of `Breaker` and its steps contain that module's. `Ask` is the
beginning of `l1Wrapper.Allow`, which reads the clock; `Hit`, `FindExpired` and `Miss`
are `L1Cache.Get`, up to `MaxPause` later, with an entry that may have been stored
since; between finding an expired entry and deleting it (`DeleteEntry`) other requests
may store a fresh one. `Call`, `FailFast`, `Fail` and `Return` are
`breakerWrapper.Allow` and contain the steps of `Breaker`; `Decide` is the script,
whose decision is arbitrary here; `Respond` is `L1Cache.Set` and the end of the
middleware. Readings of the clock are kept as ages, as in `Breaker`, up to
`L1TTL + MaxPause + 1`. What module `Gateway` needs to know of `Remaining` is whether it is
above the cache's threshold.

**Sums.** `f[x]` things of kind `x` are the pairs `<<x, 1>>` to `<<x, f[x]>>`, and `Sum(f)`
is how many pairs there are. A sum that is a cardinality can be proved about with the
library's theorems on finite sets; one that is a fold would need induction.

**LocalLimiters, Process.** `LocalLimiters` is what each `Allow` does between taking
and releasing the mutex of a state, as operators on a record; a clock reading is
kept as its age. In `Process`, `heap` holds the state objects, and a *generation* is a
handler with the limiter it was built with: its configuration, its map (one key, so
one `cell`) and the time since the entry was touched. `Built` is `buildHandler`.
A request is `routed` (it has loaded the handler), then `holding` (it has a state from
`GetOrInsert` and not its mutex), then `responding`. `Swap` starts a generation;
the old one lives on with its requests.
`Forgotten` and `Collected` reuse the slots of what no request can reach any more, which
keeps the state space finite; they stand for no code (section 6). `EditConfig`
is the operator, `Hangup` and `TakeSignal` are the two ends of the channel, whose
buffer holds one signal. `Terminate`, `MetricsClosed`, `MainClosed` follow `server.Run`;
while the metrics server shuts down the main server still accepts. `Exit` keeps
`request`, so that the properties see who was being served. `taken` (admissions of a
generation by age) and `signalled` (the file's version at the last SIGHUP) are history
variables.

**Visualizer.** A step is what runs between two awaits. `SendBatch`, `NextChunk` and
`Finish` are the pieces of `processRequests` in live mode, `AwaitMore` a response that
is not the last of its chunk, `Simulate` the whole call in offline mode. React applies
state updates in order, and those of `processRequests` are functions of the previous
state, so `Counted` adds to what the counters are when the call ends. The responses are
arbitrary; `ProxyGateway` turns an unreachable gateway into status 200, as the
route does. A timer may go off at any time. `tally` and `withinQuota` are history
variables: what was sent since the last reset, and how much of it met a limit or a server's
error, and the simulation's passes. A click on a node opens the drawer with a copy of
the numbers (`Details`).
**DocsSection** has the timers of `copyCode` by age and the tester's requests; **ThemeContext**
the theme in its three places, another tab, and a storage that
refuses the theme (`ToggleThrows`: the state is set, the document not). **Dashboard** puts them together: a
page exists while it is on display (`LeaveVisualizer` and `LeaveDocs` empty it), the
theme as long as the document, and `Reload` begins again with what the local storage
holds (`ReloadTheme`).

## 3. What the runs check

Passing runs (TLC explores every reachable state):

| run | instance | properties beyond types | what it shows |
|---|---|---|---|
| `breaker` | 3 callers, `MinRequests` 2, ratio 1/3, 2 probes, calls up to 2 ticks | `NoMissedTrip`, `NoCallStartedWhileOpen`, `OnlyProbesCounted`, `ClosesOnProbes`, `OpenPeriodNotExtended`, `ImplementsFSM`, `OpenEnds`, `Recovers` | the breaker in every order of callers, outages and results |
| `token_bucket` | 2 calls, `Limit` 3 in 2 ticks, burst 2, cost 2, delay 1, one resend, one restart | `AdmissionBound`, `EarnedTwiceBounded`, `RetryAfterSuffices` | one global limit whatever happens on the way |
| `leaky_bucket` | the same without resends, clocks 1 apart | `AdmissionBound`, `RetryAfterSuffices`, `ImplementsTokenBucket` | the two buckets are the same limiter |
| `sliding_log` | 2 calls, 4 identifiers, `Limit` 2 in 3 ticks, delay 1, one resend, one restart | `WindowBound`, `RetryAfterSuffices`, `DenialsDoNotProlong` | exactness up to the delay; a request sent twice counts once |
| `sliding_counter` | 2 calls, `Limit` 2 in 3 ticks, delay 2, three windows, one restart | `WindowBound`, `ExpiryLossBounded`, `DenialJustified` | at most twice the limit in any window; what late scripts overlook is bounded |
| `gateway` | 2 requests, fail-open, cache TTL 1, calls and pauses before a lookup up to a tick | `BackendProtected`, `DenialIsReal`, `Answered`, `FallbackEnds` | every answer has its reason; nothing hangs; outages end |
| `process` | 2 requests, 2 handlers at once, 2 states, `Limit` 1 in 2 ticks, all four algorithms, janitor's TTL 2, pauses up to 1, deadline 1, one edit | `LocalQuota`, `ReloadNotLost` | local limits and reloads in every order, also while the process stops |
| `dashboard` | 2 batches at once, 3 requests between resets, chunks of 2, tiers of 1 and 2 a second, 2 keys, 2 timers, clicks on one node | `StatsAgree`, `CountedOnce`, `SimulatedQuotaKept`, `TesterInStep`, `ThemeShown` | what the dashboard shows is what happened |

The other four runs are counterexamples to what the documentation says: section 5.

**Bounds and why they are enough.** *Callers:* two calls are enough for one to be
overtaken, and for a resend to run after another call; the breaker has three, so
that a late result can meet two probes. *Time:* `MaxTime` covers at least two
windows and every key's TTL with a tick to spare, so that keys expire (for the
counter nearly three windows, a counter's whole life). *Limits* are such that the cost does not divide the
rate (rounding) and that calls are both admitted and denied. *`MaxTotal`* stops
admissions into a closed breaker after 4 recorded calls, which is beyond
`MinRequests` and lets the ratio cross its threshold by a success and by a
failure; since a bound in a guard can hide a behaviour, the proofs of section 4
do not depend on its value. *`MaxRewound`* stops sending after the bucket's time
moved back by more than that. The distributed limiters' runs do not check for
deadlock because the clock stops at `MaxTime`; the breaker, the gateway and the
dashboard have no final state, and deadlock is checked. *The process* ends, so its run
does not check deadlock. Two requests are enough for one to pause with a state in hand
while the other uses it and the janitor looks at it, and for one to be in the old handler
while the other is in the new one; a TTL of 2 with a window of 2 and pauses of 1 is
the shortest at which `LocalQuota` holds (`Window + MaxPause <= TTL + 1`). It also means
that the janitor never deletes a state that a request holds; in the code that takes a
pause of an hour. With TTL 1 TLC finds two states of one key that both admit; so the
janitor's hour covers windows of almost an hour, and nothing in `validate.go` keeps windows below that. *The dashboard's* constants are
scaled down: a chunk of 2 for 50, a rate of 10 for the rates whose ticks send more than
one request, tiers of 30 and 100 a minute for 1,000 and 10,000 (rounded up to 1 and 2
a second, as the code's comparison does).

One node is clicked, whose drawer copies nothing that changes: no property reads the copies,
and those of the other nodes (`Details`) would only multiply the states.

*The sliding counter's* delay of 2 is the smallest at which a script can find the previous
counter expired too early, so that `ExpiryLossBounded` is about something.

**Symmetry** (callers, identifiers, batches, state objects, handlers) is used only in runs without liveness.

**Fairness.** For the breaker: clients keep calling (weak fairness of "some caller
is admitted" and of "some caller probes": the code has no timer, and recovery
depends on it), each call that is out returns (`breakerWrapper.Allow` gives it a
deadline), and time passes. Nothing is assumed about Redis. For the gateway:
goroutines run, time passes, and requests that ask the limiter keep coming. The
end of a call (`Fail` or `Return`) needs *strong* fairness, because what enables it
in the model, Redis being away or a decision being there, may come and go, while in the
code a deadline that has passed stays passed.

**Properties in words.**
`NoMissedTrip`: a closed breaker never holds counts that should have opened it.
`NoCallStartedWhileOpen`: calls out in an open period began before it.
`OnlyProbesCounted`, `ClosesOnProbes`: what a half-open breaker counts are its
own probes (as long as no call outlives `OpenDuration`, see section 5).
`OpenPeriodNotExtended`: late failures and rejected callers do not prolong it.
`OpenEnds`, `Recovers`: it probes again, and closes for good once Redis stays up
(the TODO of `failover_test.go`: "assert breaker eventually re-closes").
`AdmissionBound`: between any two decisions no more is handed out than a full
bucket, what the time between their readings earns, one bucket for each restart
of Redis, and the time earned twice because the stored time moved back.
`EarnedTwiceBounded`: a script moves the stored time back by no more than `MaxDelay +
MaxSkew`, however often its request was sent again, and so earns no more than that again.
`RetryAfterSuffices`: who waits as told and is next is admitted.
`WindowBound` of the log: any span of `Window` ticks less `MaxDelay + MaxSkew`
holds at most `Limit`; with no delay and equal clocks that is exactness.
`DenialsDoNotProlong`: the moment denied callers are told never moves back.
`WindowBound` of the counter: at most `2 * Limit` in any span of `Window` ticks
("at most one window's worth" of error).
`ExpiryLossBounded`: what a script overlooks of the estimate because the previous counter
has expired is at most what the limit earns in `MaxDelay + MaxSkew - 1` ticks.
`DenialJustified`: a denied call found too little room in what was really charged.
`LocalQuota`: no local limiter admits in any `Window` ticks more than its algorithm
allows (a full bucket and what it earns meanwhile; the limit; twice the limit for the
counter), whatever the janitor deletes and however requests pause with a state in hand.
`ReloadNotLost`: the file as it was at the last SIGHUP, or later, is in effect or on its
way there, as long as the process runs.

`StatsAgree`: total, passed and denied fit together, and the particles were counted.
`CountedOnce`: every request sent since the reset, or under way at it, is counted once, and as
denied exactly if it met a limit or was answered with a server's error (section 5).
`SimulatedQuotaKept`: when the simulation lets requests pass without a simulated outage, all
passes of the last second are within the quota of the tier selected now.
`TesterInStep`: the tester is busy with one request or with none, and then shows the
answer to the last one.
`ThemeShown`: the document shows the theme of the navigation bar, and the next visit
begins with it, unless another tab chose later or the theme could not be stored.
`BackendProtected`: a request is forwarded on Redis's allow for it, on an allow
with enough left that is at most `L1TTL` older than the request's question, or because the route fails open.
`DenialIsReal`: 429 is Redis's denial of that very request, never an outage or a cached
one.

## 4. What is proved

All for every number of callers, every limit, window, cost, delay, skew and number
of resends; the theorems are listed in `PROJECT.json`.

* **Breaker** (`GatewayProofs`): `TypeOK`, `NoMissedTrip` and
  `NoCallStartedWhileOpen` are inductive together once it is known that fewer than
  `HalfOpenSuccesses` successes are held in half-open (`FewSuccesses`).
  `OnlyProbesCounted` and `ClosesOnProbes` need the *assumption* `MaxCallTime <=
  OpenDuration` and `PInv`, which relates `successes` to `probeOks`. Under it, an
  elapsed open period means that nobody is out (`ProbeAlone`), which is the heart
  of the argument. `OpenPeriodNotExtended` and the refinement of `BreakerFSM` need
  no assumption.
* **Calls** (`RedisCallsProofs`): every request under way carries a reading of at
  most `MaxDelay` ago and at most `MaxSkew` ahead (`ReadingsInRange`). All four
  algorithms build on it.
* **Token bucket** (`TokenBucketProofs`): `AdmissionBound` under the *assumption*
  `QuotaSurvives`: the bucket fills before its hash can expire. The strengthening
  is `Covered`, the tokens in the bucket (or a full bucket if there is no hash)
  never exceed what the measurement still allows, together with `WriteInRange`,
  which ties the expiry to the time stored. The exception for time earned
  twice is bounded for each script by `EarnedTwiceBounded`, without an assumption: the
  stored time is never further ahead than `MaxSkew` (`TsInRange`) and no reading older
  than `MaxDelay`, resends included.
  `RetryAfterIsEnough` assumes `Cost <= Capacity`, which the code does not check
  (a request that costs more than the bucket holds is told a wait and never admitted).
* **Leaky bucket** (`LeakyBucketProofs`): every step is a step of the token bucket
  (`Refinement`), and `AdmissionBound` is carried over from `TokenBucketProofs`
  instead of being proved again. `RetryAfterIsEnough` has to be proved anew: the
  leaky bucket tells the wait for room, the token bucket the wait to be full.
* **Sliding log** (`SlidingLogProofs`): the strengthening of `WindowBound` is
  `Forgotten`: an admitted call that is no longer in the set has a reading too old
  to share a window with any request still to come, whether it was evicted by a
  later reading or expired (`ExpiryFar`). `RetryAfterIsEnough` and `DenialsAreFree`
  assume `Cost <= Limit`.
* **Sliding counter** (`SlidingCounterProofs`): a counter lives for two windows
  from the earliest moment at which it can have been charged (`LivesLongEnough`), so
  under the *assumption* `CountersSurvive` (`MaxDelay + MaxSkew <= Window + 1`)
  nothing charged to a counter is lost while calls of its own window may come
  (`NothingForgotten`), and a span of one window touches two counters of at most
  `Limit` each. `ExpiryLossBounded` holds under the same assumption: a counter
  found expired is one whose window has almost slid out of the estimate.
  `DenialJustified` needs none, because counters never exceed what was charged.
* **Gateway** (`GatewayProofs`): `Consistent` says for each stage what a request
  holds, and `EntryConsistent` that the cached entry is an allow decided no earlier
  than the reading its expiry follows from; they are inductive and imply
  `BackendProtected` and `DenialIsReal`. The lemma
  `GatewayBreaker` carries the breaker's theorems over to the gateway, whose steps
  contain the breaker's (`InBreaker`); `TypeOK` takes the breaker's half from there.
* **Process** (`ProcessProofs`): `ReloadNotLost` follows from `VersionsInOrder`: what is
  signalled, in effect and being built never runs ahead of the file, and what is being
  built is no older than what is in effect; steps of requests, janitor and clock leave
  all configurations alone (`SameConfigs`). `TypeOK` needs `Pointers`: a request and a map point to states of the algorithm that
  their handler was configured with, which after reloads is not the active one.
* **Local quota** (`ProcessProofs`): `LocalQuota`, under the *assumption*
  `Window + MaxPause <= TTL + 1` that section 3 shows to be needed. `QuotaInv` has two
  halves. The first is about one state: `Kept` relates what an algorithm's state says to
  what was admitted (a bucket never holds more than a full one with what the time since
  has earned and without what was taken, for *every* span up to a window, `Earned`; the
  log's entries are the admissions; the two counts cover the part of the window they
  stand for, `WindowsKept`), and a decision (`AllowKept`) and a tick (`OlderKept`) keep it.
  The second is about the heap: a request holds a state that its handler's map still
  has and touched at most a pause ago (`Holding`); no two handlers share a state (`Apart`);
  and whatever a handler admitted, it admitted soon after touching the map
  (`Accounted`), so that when the janitor finds the entry expired all admissions are
  more than a window old, and forgetting them is no loss (`SweptEntry`).
* **Dashboard** (`DashboardProofs`). `StatsAgree` and `CountedOnce`: a call of
  `processRequests` that is not over awaits something, and its requests are to be sent, awaited,
  passed or denied (`Proper`); the counters with the calls under way add up to the
  history (`Balanced`); and of the particles on display no more have a status than
  were counted with it (`Shown`). `SimulatedQuotaKept`: what passes is in
  the simulation's log (`Logged`), all of which the simulation compares with the quota of
  the tier selected, whatever tier, batch or mode the entries came from. `TesterInStep`: the request that
  the tester waits for is the last one (`Waiting`). `ThemeShown` is inductive with the types,
  on the assumption that "no theme" is not a theme. The sums are handled by a
  few lemmas on cardinalities (`SumExcept`, `SumMonotone`, `SumOlder`). Nothing is
  assumed of the number of batches, the rates, the quotas or the chunk size but
  that they are numbers and, where the code divides or counts down, positive.

Every invariant and every action property of the passing runs is stated by one of
these theorems. *Only model-checked* are the liveness properties `OpenEnds`, `Recovers`,
`Answered` and `FallbackEnds`: fairness and ENABLED are beyond the prover. That the bounds
in guards (`MaxTotal`, `MaxTime`, `MaxRewound`, `MaxVersion`, `MaxTimers`) hide nothing is
shown by the theorems only in so far as they hold for every value of them.

## 5. Where the code and its documentation disagree

Each is a run that TLC ends with a counterexample.

* `breaker_slow`: `config.go:104` promises that only consecutive successful
  *probes* close the breaker. If calls may take longer than `open_duration`
  (nothing relates it to `command_timeout`), successes of calls from before the trip
  close it.
* `token_bucket_expiry`: `tokenbucket.go:33` says that the TTL of two windows lets
  the bucket refill correctly. With a burst above twice the limit a drained
  bucket needs longer than that, and expiry fills it.
* `gateway_extra`: `ARCHITECTURE.md:277` bounds the extra requests served from the
  cache by `limit * TTL / window`. Hits are not counted.
* `sliding_counter_error`: `ALGORITHMS.md:23` gives the error as `limit/window`. One
  caller with no delay at all gets six requests in a window of limit four.

Noted without a run: `ALGORITHMS.md:8` recommends the token bucket for "a strict
long-term rate", but two scripts that run in the other order than their readings
earn the time between them twice (`EarnedTwiceBounded` says how much; the drift guard of
`ARCHITECTURE.md:303` is not in the scripts); `CONFIGURATION.md:3` promises reloads "without downtime" and
`main.go:43` that no request in flight is dropped, but a file that does not load ends
the process with its requests (`main.go:149` says so; `ReadConfig` models it); the
visualizer's drawer is titled "Live Component Telemetry" (`NodeDetailModal.tsx:70`) and
shows the numbers of the moment it was opened; its "Simulate Redis Outage" changes the
drawing and the offline demo, while live requests go on; rates below 5 a second are sent
as 5 (`page.tsx:122`); a failed test is shown as "OK (Simulated)" in the documentation
(`DocsSection.tsx:61`). Also: the comment "the previous-window key stays
alive while it is still needed" (`sliding_window_counter.lua:36`) fails when delay and skew exceed a millisecond, as the command timeout of tens of
milliseconds allows: a late script finds the counter expired that its estimate needs.
The run `sliding_counter` contains such scripts, and `ExpiryLossBounded` gives what they
overlook at most;
`ARCHITECTURE.md` says "limited probes" where half-open admits everyone; the
breaker's counts have no window, only a start; the state gauge encodes open as 1
and half-open as 2, `metrics.go:64` says the reverse; `ResetAfter` of the leaky
bucket is the time to drain what *remains*, not what is in it; the
`shutdown_grace` of `config.go:44` and `CONFIGURATION.md:12` is not used (`server.go:81`
has 30 s, which a metrics request that hangs takes from the requests of the main server).
On the dashboard, "Denied (429 Rate Limit)" (`StatsGrid.tsx:46`) also counts the gateway's 503
and the load balancer's 502 and 504, while a request without response counts as passed
(`page.tsx:62`); the two percentages are rounded by `toFixed(1)` on doubles and need not
add up to 100 (1821 passed and 179 denied show as 91.0 % and 8.9 %); and the simulation
rounds the quota of a second up, so that 17 a second, 1,020 a minute, pass where
`TrafficController.tsx:112` displays 1,000. A theme that `localStorage.setItem` refuses to
store is in the navigation bar but not in the document (`ThemeContext.tsx:31-32`).

## 6. What is not modelled

* **Floating point.** Lua and Go compute tokens, levels and weights as doubles;
  the modules compute exactly. The scripts' rounding up of waits is modelled.
* **Several keys at once.** Keys share nothing in Redis and only the breaker in a
  replica; calls of one key have one cost, since the key contains the route.
* **Redis Cluster and replication**; the deployment has one node. Failover would look
  like `Restart`.
* **What a limiter reports besides the decision**: `ResetAfter`, `Remaining` (but for
  the cache's threshold) and the headers, and `RetryAfter` of the sliding window counter.
* **The start of a process**: the file is read twice and SIGHUP ends the process until it
  is caught (`main.go:145`). Redis clients and janitors that reloads leave behind
  never end, and keep the old maps with their states: a leak that grows with every reload,
  without effect on what is modelled.
* **How `server.Run` divides its 30 s**: the order of the two shutdowns and their deadline are
  modelled, but nothing in the code promises the main server a share, so no property does.
* **Tier cache** (not wired in), **identity, key, configuration, headers**: functions of their
  input; section 7.
* **The dashboard's texts**, percentages, layout, animation, algorithm select and measured
  latency, and the static landing
  and scaling pages but for their links.
* Logging, metrics, request ids, panic recovery, the proxy's transport, the test
  upstream, deployment files: no state that limiting depends on.

## 7. Plan

Done: breaker, calls and token bucket, gateway, the other three distributed
algorithms, local limiters with the process, the dashboard; proofs of all their safety
properties.

1. The gateway with `SlidingLog` in the place of arbitrary decisions, as a refinement.
2. The exact conditions under which the claims of section 5 hold, as theorems: what the
   cache adds to the limit, and when a drained bucket expires no earlier than it is full.
3. `RetryAfter` of the sliding window counter and the headers' rounding, as operators
   checked against what they promise; then identity, key and tier lookups, and
   `CachedResolver`.
