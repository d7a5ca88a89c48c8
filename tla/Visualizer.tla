------------------------------ MODULE Visualizer -------------------------------
(***************************************************************************)
(* The visualizer page of the dashboard (frontend/src/app/visualizer): the *)
(* traffic controller sets what is sent, processRequests sends requests    *)
(* through /api/proxy-gateway to the gateway or simulates them, and the    *)
(* counters, the stats bar, the particles and the drawer show the outcome. *)
(*                                                                         *)
(* JavaScript runs one callback at a time, so a step is what runs between  *)
(* two awaits.  A call of processRequests awaits the responses of a chunk  *)
(* of requests; meanwhile every control can be used, and the streamer's    *)
(* timer starts further calls.  The gateway may say anything.  Left out,   *)
(* since nothing depends on them: the API key of a call, the measured      *)
(* latency, the algorithm selected, and texts that never change.           *)
(***************************************************************************)
EXTENDS Sums, Sequences, FiniteSetsExt

CONSTANTS
  Batches,      \* slots for calls of processRequests that await responses
  Tiers, Rates, BurstSizes,     \* what the select, the slider and its presets,
                \* and the burst buttons offer
  FirstTier, FirstRate,         \* selected at first
  Quota,        \* Quota[t]: requests a minute of tier t in the simulation
  ChunkSize,    \* subBatchSize
  Second,       \* 1000 ms, in ticks
  KeepOld, KeepNew,     \* particles kept, and added by one call
  Nodes,        \* what can be clicked on the canvas
  NoNode,       \* no drawer is open
  MaxTotal      \* bound: requests counted or under way

ASSUME VisualizerAssumption ==
  /\ Rates \subseteq 1 .. 5000 /\ FirstRate \in Rates
  /\ FirstTier \in Tiers
  /\ BurstSizes \subseteq Nat \ {0}
  /\ Quota \in [Tiers -> Nat \ {0}]
  /\ {ChunkSize, Second} \subseteq Nat \ {0}
  /\ {KeepOld, KeepNew, MaxTotal} \subseteq Nat
  /\ IsFiniteSet(Batches)

VARIABLES
  tier, rps, isStreaming, isChaosActive, isLiveMode,      \* settings
  total, passed, denied,    \* telemetry counters
  particles,    \* the status of every particle on the canvas, oldest first
  history,      \* mockHistoryRef: history[a] entries of age a
  batch,        \* batch[b]: the call of processRequests in slot b
  selectedNode, \* what the drawer shows
  tally,        \* history: requests to be counted since a reset, and those of
                \* them that met a limit or a server's error
  withinQuota   \* history: passes of the simulation without chaos, by age

settings == <<tier, rps, isStreaming, isChaosActive, isLiveMode>>
counters == <<total, passed, denied>>
simulation == <<history, withinQuota>>
notSettings == <<counters, particles, simulation, batch, selectedNode, tally>>
visualizer == <<settings, notSettings>>

Statuses == {"passed", "denied"}
Never == [a \in 0 .. Second - 1 |-> 0]

\* A call with nothing left to await is over.
\* History: failed, those of denied that a server's error stands behind.
Idle == [count |-> 0, left |-> 0, waiting |-> 0, passed |-> 0, denied |-> 0, failed |-> 0]

InFlight(field) == Sum([b \in Batches |-> batch[b][field]])

VisualizerInit ==
  /\ tier = FirstTier
  /\ rps = FirstRate
  /\ isStreaming = FALSE
  /\ isChaosActive = FALSE
  /\ isLiveMode = TRUE
  /\ total = 0 /\ passed = 0 /\ denied = 0
  /\ particles = <<>>
  /\ history = Never
  /\ batch = [b \in Batches |-> Idle]
  /\ selectedNode = NoNode
  /\ tally = [requests |-> 0, limited |-> 0, failed |-> 0]
  /\ withinQuota = Never

------------------------------------------------------------------------------
(***************************************************************************)
(* The end of processRequests: counters and particles.                     *)
(***************************************************************************)

\* The statuses of a call's requests, in any order: so are responses.
Outcomes(newPassed, newDenied) ==
  {s \in [1 .. newPassed + newDenied -> Statuses] :
     Cardinality({i \in DOMAIN s : s[i] = "passed"}) = newPassed}

LastOf(s, n) == SubSeq(s, Max({1, Len(s) - n + 1}), Len(s))

\* The outcomes of a call are added to what the counters are then, and the last
\* of them to the last particles.
Counted(count, newPassed, newDenied, outcomes) ==
  /\ total' = total + count
  /\ passed' = passed + newPassed
  /\ denied' = denied + newDenied
  /\ particles' = LastOf(particles, KeepOld) \o LastOf(outcomes, KeepNew)

------------------------------------------------------------------------------
(***************************************************************************)
(* Live mode.                                                              *)
(***************************************************************************)

\* All that is left of the call is sent at once.
SendChunk_All(c) == [c EXCEPT !.left = 0, !.waiting = c.left]

\* The next chunk of the call c is sent.
SendChunk(c) ==
  LET n == Min({ChunkSize, c.left})
  IN  [c EXCEPT !.left = @ - n, !.waiting = n]

SendBatch(b, n) ==
  /\ batch[b] = Idle
  /\ batch' = [batch EXCEPT ![b] = SendChunk([Idle EXCEPT !.count = n, !.left = n])]
  /\ tally' = [tally EXCEPT !.requests = @ + n]
  /\ UNCHANGED <<settings, counters, particles, simulation, selectedNode>>

\* What the route /api/proxy-gateway makes of the gateway's answer.
ProxyGateway(answer) == IF answer = "unreachable" THEN "200" ELSE answer

\* "5xx" is an error of the gateway (503) or of the load balancer before it (502,
\* 504), "failed" a fetch without response.
Responses ==
  {ProxyGateway(a) : a \in {"200", "429", "5xx", "unreachable"}} \cup {"failed"}

\* A request that got no response is taken for one that was turned away.
IsAllowed_NotWithoutResponse(res) == res = "200"

IsAllowed(res) == res \in {"failed", "200"}

\* The call in slot b once it has got one more response.
WithResponse(b, res) ==
  IF IsAllowed(res)
    THEN [batch[b] EXCEPT !.waiting = @ - 1, !.passed = @ + 1]
    ELSE [batch[b] EXCEPT !.waiting = @ - 1, !.denied = @ + 1,
                          !.failed = IF res = "5xx" THEN @ + 1 ELSE @]

\* The tally goes by the status alone.
Respond(b, res) ==
  /\ batch[b].waiting > 0
  /\ tally' = CASE res = "429" -> [tally EXCEPT !.limited = @ + 1]
                [] res = "5xx" -> [tally EXCEPT !.failed = @ + 1]
                [] OTHER -> tally
  /\ UNCHANGED <<settings, simulation, selectedNode>>

\* Promise.all still waits for other responses of the chunk.
AwaitMore(b) ==
  \E res \in Responses :
    /\ Respond(b, res)
    /\ WithResponse(b, res).waiting > 0
    /\ batch' = [batch EXCEPT ![b] = WithResponse(b, res)]
    /\ UNCHANGED <<counters, particles>>

\* The chunk is complete, and the next one is sent.
NextChunk(b) ==
  \E res \in Responses :
    LET c == WithResponse(b, res)
    IN  /\ Respond(b, res)
        /\ c.waiting = 0 /\ c.left > 0
        /\ batch' = [batch EXCEPT ![b] = SendChunk(c)]
        /\ UNCHANGED <<counters, particles>>

\* The last chunk is complete, and the call ends.
Finish(b) ==
  \E res \in Responses :
    LET c == WithResponse(b, res)
    IN  /\ Respond(b, res)
        /\ c.waiting = 0 /\ c.left = 0
        /\ batch' = [batch EXCEPT ![b] = Idle]
        /\ \E outcomes \in Outcomes(c.passed, c.denied) :
             Counted(c.count, c.passed, c.denied, outcomes)

------------------------------------------------------------------------------
(***************************************************************************)
(* Offline mode: a log of the passes of the last second.                   *)
(***************************************************************************)

\* currentCount < quotaLimit / 60 lets this many pass.
PerSecond(t) == (Quota[t] + 59) \div 60

\* All entries of the call are looked at before any is pushed.
Simulated_PushedAtEnd(n, recent) ==
  IF isChaosActive \/ recent < PerSecond(tier) THEN n ELSE 0

\* The largest quota holds for every tier.
Simulated_AnyTier(n, recent) ==
  IF isChaosActive THEN n
  ELSE Min({n, Max({0} \cup {PerSecond(t) - recent : t \in Tiers})})

\* How many of n requests pass when recent of the last second are in the log.
Simulated(n, recent) ==
  IF isChaosActive THEN n
  ELSE Min({n, Max({0, PerSecond(tier) - recent})})

\* Entries older than a second leave the log before the requests are looked at,
\* one by one: the first ones pass.
Simulate(n) ==
  LET newPassed == Simulated(n, Sum(history))
      outcomes == [i \in 1 .. n |-> IF i <= newPassed THEN "passed" ELSE "denied"]
  IN  /\ history' = [history EXCEPT ![0] = @ + newPassed]
      /\ withinQuota' = IF isChaosActive THEN withinQuota
                        ELSE [withinQuota EXCEPT ![0] = @ + newPassed]
      /\ tally' = [tally EXCEPT !.requests = @ + n, !.limited = @ + n - newPassed]
      /\ Counted(n, newPassed, n - newPassed, outcomes)
      /\ UNCHANGED <<settings, batch, selectedNode>>

------------------------------------------------------------------------------
(***************************************************************************)
(* What starts processRequests; bound: MaxTotal.                           *)
(***************************************************************************)

processRequests(n) ==
  /\ total + InFlight("count") + n <= MaxTotal
  /\ \/ isLiveMode /\ \E b \in Batches : SendBatch(b, n)
     \/ ~isLiveMode /\ Simulate(n)

TickRateMs == IF rps >= 1000 THEN 50 ELSE IF rps >= 200 THEN 100 ELSE 200

BatchPerTick == Max({1, (rps * TickRateMs + 500) \div 1000})

\* The streamer's timer goes off; it does not wait for earlier calls.
StreamTick ==
  /\ isStreaming
  /\ processRequests(BatchPerTick)

FireBurst == \E n \in BurstSizes : processRequests(n)

------------------------------------------------------------------------------
(***************************************************************************)
(* The traffic controller.                                                 *)
(***************************************************************************)

SetTier ==
  /\ tier' \in Tiers
  /\ UNCHANGED <<rps, isStreaming, isChaosActive, isLiveMode>>
  /\ UNCHANGED notSettings

\* The slider and the presets; the interval is set anew at once.
SetRps ==
  /\ rps' \in Rates
  /\ UNCHANGED <<tier, isStreaming, isChaosActive, isLiveMode>>
  /\ UNCHANGED notSettings

ToggleStream ==
  /\ isStreaming' = ~isStreaming
  /\ UNCHANGED <<tier, rps, isChaosActive, isLiveMode>>
  /\ UNCHANGED notSettings

\* Only the simulation and the canvas look at it: Redis is not touched.
ToggleChaos ==
  /\ isChaosActive' = ~isChaosActive
  /\ UNCHANGED <<tier, rps, isStreaming, isLiveMode>>
  /\ UNCHANGED notSettings

SetMode ==
  /\ isLiveMode' \in BOOLEAN
  /\ UNCHANGED <<tier, rps, isStreaming, isChaosActive>>
  /\ UNCHANGED notSettings

\* The requests of calls under way are still to be counted.
UnderWay == [requests |-> InFlight("count"),
             limited |-> InFlight("denied") - InFlight("failed"),
             failed |-> InFlight("failed")]

\* The log and the particles stay.
ResetStats_CountersOnly ==
  /\ total' = 0 /\ passed' = 0 /\ denied' = 0
  /\ tally' = UnderWay
  /\ UNCHANGED <<settings, particles, simulation, batch, selectedNode>>

\* Calls under way go on, and are counted when they end.
ResetStats ==
  /\ total' = 0 /\ passed' = 0 /\ denied' = 0
  /\ particles' = <<>>
  /\ history' = Never
  /\ tally' = UnderWay
  /\ withinQuota' = Never
  /\ UNCHANGED <<settings, batch, selectedNode>>

------------------------------------------------------------------------------
(***************************************************************************)
(* The canvas and the drawer.                                              *)
(***************************************************************************)

\* Once a second the oldest particle goes.
DropParticle ==
  /\ particles # <<>>
  /\ particles' = Tail(particles)
  /\ UNCHANGED <<settings, counters, simulation, batch, selectedNode, tally>>

\* What the page knows of a node beside the texts that never change.
Details(node) ==
  CASE node = "client" -> [node |-> node, total |-> total, isLiveMode |-> isLiveMode]
    [] node = "redis" -> [node |-> node, isChaosActive |-> isChaosActive]
    [] node = "backend" -> [node |-> node, passed |-> passed, denied |-> denied]
    [] OTHER -> [node |-> node]

\* A click on a node opens the drawer with a copy, which it keeps.
HandleNodeClick ==
  \E node \in Nodes :
    /\ selectedNode' = Details(node)
    /\ UNCHANGED <<settings, counters, particles, simulation, batch, tally>>

OnClose ==
  /\ selectedNode # NoNode
  /\ selectedNode' = NoNode
  /\ UNCHANGED <<settings, counters, particles, simulation, batch, tally>>

\* Time passes, and entries leave the last second.
Aged(log) == [a \in DOMAIN log |-> IF a = 0 THEN 0 ELSE log[a - 1]]

VisualizerTick ==
  /\ history' = Aged(history)
  /\ withinQuota' = Aged(withinQuota)
  /\ UNCHANGED <<settings, counters, particles, batch, selectedNode, tally>>

(***************************************************************************)
(* The page is left or loaded again: nothing of it remains, the streamer's *)
(* timer is cleared, and calls under way have nothing to add to.           *)
(***************************************************************************)
LeaveVisualizer ==
  /\ tier' = FirstTier /\ rps' = FirstRate
  /\ isStreaming' = FALSE /\ isChaosActive' = FALSE /\ isLiveMode' = TRUE
  /\ total' = 0 /\ passed' = 0 /\ denied' = 0
  /\ particles' = <<>>
  /\ history' = Never /\ withinQuota' = Never
  /\ batch' = [b \in Batches |-> Idle]
  /\ selectedNode' = NoNode
  /\ tally' = [requests |-> 0, limited |-> 0, failed |-> 0]

VisualizerNext ==
  \/ \E b \in Batches : AwaitMore(b)
  \/ \E b \in Batches : NextChunk(b)
  \/ \E b \in Batches : Finish(b)
  \/ StreamTick
  \/ FireBurst
  \/ SetTier
  \/ SetRps
  \/ ToggleStream
  \/ ToggleChaos
  \/ SetMode
  \/ ResetStats
  \/ DropParticle
  \/ HandleNodeClick
  \/ OnClose
  \/ VisualizerTick

------------------------------------------------------------------------------
(***************************************************************************)
(* Properties.                                                             *)
(***************************************************************************)

\* The values of the variables; never more than a chunk of a call is awaited, and
\* a call under way awaits something.
VisualizerTypeOK ==
  /\ tier \in Tiers /\ rps \in Rates
  /\ {isStreaming, isChaosActive, isLiveMode} \subseteq BOOLEAN
  /\ {total, passed, denied} \subseteq Nat
  /\ particles \in Seq(Statuses) /\ Len(particles) <= KeepOld + KeepNew
  /\ {history, withinQuota} \subseteq [0 .. Second - 1 -> Nat]
  /\ batch \in [Batches -> [count : Nat, left : Nat, waiting : 0 .. ChunkSize,
                            passed : Nat, denied : Nat, failed : Nat]]
  /\ \A b \in Batches : batch[b].waiting = 0 => batch[b] = Idle
  /\ selectedNode = NoNode \/ selectedNode.node \in Nodes
  /\ tally \in [requests : Nat, limited : Nat, failed : Nat]

\* Whatever calls overlap, end after a reset or a change of mode: the numbers on
\* the page agree.  Passed and denied make up the total, and the particles are
\* requests that were counted.
StatsAgree ==
  /\ total = passed + denied
  /\ Cardinality({i \in DOMAIN particles : particles[i] = "passed"}) <= passed
  /\ Cardinality({i \in DOMAIN particles : particles[i] = "denied"}) <= denied

\* Each request is counted exactly once, when its call ends, also one sent before a
\* reset; and as denied are counted exactly the requests that met a limit and those
\* answered with a server's error.  StatsGrid.tsx:46 calls both "429 Rate Limit";
\* a fetch without response counts as passed.
CountedOnce ==
  /\ total + InFlight("count") = tally.requests
  /\ denied + InFlight("denied") = tally.limited + tally.failed

\* When the simulation lets requests pass without a simulated outage, the passes of
\* the last second, those of other tiers, batches and modes included, are within
\* the quota of the tier that is selected.
SimulatedQuotaKept ==
  [][Sum(withinQuota') > Sum(withinQuota) => Sum(withinQuota') <= PerSecond(tier)]_visualizer

==============================================================================
