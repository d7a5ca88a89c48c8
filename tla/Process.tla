-------------------------------- MODULE Process --------------------------------
(***************************************************************************)
(* One gateway process from its first configuration to its end:            *)
(* cmd/gateway/main.go (the handler behind an atomic pointer, SIGHUP),     *)
(* internal/server/server.go (two servers and their shutdown), and for the *)
(* requests of one key on a route with store local, the sharded map with   *)
(* its janitor (internal/limiter/local/shardedmap.go) and the limiters of  *)
(* module LocalLimiters.                                                   *)
(*                                                                         *)
(* A reload builds new limiters with new maps and leaves the old ones to   *)
(* the requests that are in them: a generation.  Every step is what one    *)
(* goroutine does between two points at which another may run: a shard's   *)
(* mutex and a state's mutex are each held within one step.                *)
(***************************************************************************)
EXTENDS LocalLimiters

CONSTANTS
  Calls,        \* slots for requests being served
  Generations,  \* slots for handlers in use
  Cells,        \* the objects a map can point to
  TTL,          \* of the maps: an hour, in ticks
  MaxPause,     \* bound: a request that has got its state uses it by then
  Grace,        \* 30 s, in ticks
  First,        \* the algorithms that the file may have at first
  Edited,       \* Edited[a]: the algorithm when the file that has a is edited
  MaxVersion,   \* bound: version of the configuration file
  None

ASSUME ProcessAssumption ==
  /\ {TTL, MaxPause, Grace} \subseteq Nat /\ MaxVersion \in Nat \ {0}
  /\ First \subseteq Algorithms /\ Edited \in [Algorithms -> Algorithms]
  /\ IsFiniteSet(Calls)
  /\ None \notin Cells \cup Generations \cup States

VARIABLES
  configFile,   \* the file's version, whether it loads, and its algorithm
  sighup,       \* the channel c of main holds a signal
  reloading,    \* what the goroutine that ranges over c is doing
  active,       \* activeHandler
  generation,   \* generation[g]: the limiter's configuration and its map
  heap,         \* heap[x]: the state of the key in object x
  request,      \* request[c]: how far the request in slot c has come
  server,       \* how far server.Run has come
  sinceStop,    \* ticks since SIGTERM, up to Grace
  scraping,     \* the metrics server has a request under way
  elapsed,      \* ticks since a window of the clock began
  signalled     \* history: the file's version at the last SIGHUP

reload == <<configFile, sighup, reloading, signalled>>
limiting == <<generation, heap>>
stopping == <<server, sinceStop, scraping>>
vars == <<reload, active, limiting, request, stopping, elapsed>>

NoConfig == [version |-> 0, valid |-> FALSE, algorithm |-> "token_bucket"]
Unused == [config |-> NoConfig, cell |-> None, touched |-> 0,
           taken |-> [a \in Ages |-> 0]]
Idle == [stage |-> "idle", generation |-> None, cell |-> None, paused |-> 0]

\* A handler that buildHandler has made of the configuration.
Built(config) == [Unused EXCEPT !.config = config]

Init ==
  /\ configFile \in [version : {1}, valid : {TRUE}, algorithm : First]
  /\ sighup = FALSE
  /\ reloading = [stage |-> "waiting", config |-> NoConfig]
  /\ active \in Generations
  /\ generation = [g \in Generations |->
                     IF g = active THEN Built(configFile) ELSE Unused]
  /\ heap = [x \in Cells |-> None]
  /\ request = [c \in Calls |-> Idle]
  /\ server = "serving"
  /\ sinceStop = 0
  /\ scraping = FALSE
  /\ elapsed = 0
  /\ signalled = 1

Ended == {"stopped", "cut off", "crashed"}
Running == server \notin Ended
UnderWay == {c \in Calls : request[c].stage # "idle"}

\* The process ends, its memory with it; request keeps who was being served.
Exit(how) ==
  /\ server' = how
  /\ sighup' = FALSE
  /\ reloading' = [stage |-> "waiting", config |-> NoConfig]
  /\ generation' = [g \in Generations |-> Unused]
  /\ heap' = [x \in Cells |-> None]
  /\ elapsed' = 0
  /\ scraping' = FALSE
  /\ UNCHANGED <<configFile, signalled, active, request, sinceStop>>

------------------------------------------------------------------------------
(***************************************************************************)
(* Reloading: main.                                                        *)
(***************************************************************************)

\* Someone writes the file, well or badly.
EditConfig ==
  /\ Running
  /\ configFile.version < MaxVersion
  /\ configFile' \in [version : {configFile.version + 1}, valid : BOOLEAN,
                      algorithm : {Edited[configFile.algorithm]}]
  /\ UNCHANGED <<sighup, reloading, signalled, active, limiting, request, stopping,
                 elapsed>>

\* Without room in the channel a signal is lost while the goroutine is busy.
Hangup_Unbuffered ==
  /\ Running
  /\ sighup' = (sighup \/ reloading.stage = "waiting")
  /\ signalled' = configFile.version
  /\ UNCHANGED <<configFile, reloading, active, limiting, request, stopping, elapsed>>

\* SIGHUP; a second one finds the channel full and is dropped.
Hangup ==
  /\ Running
  /\ sighup' = TRUE
  /\ signalled' = configFile.version
  /\ UNCHANGED <<configFile, reloading, active, limiting, request, stopping, elapsed>>

TakeSignal ==
  /\ Running
  /\ sighup
  /\ reloading.stage = "waiting"
  /\ sighup' = FALSE
  /\ reloading' = [reloading EXCEPT !.stage = "reading"]
  /\ UNCHANGED <<configFile, signalled, active, limiting, request, stopping, elapsed>>

\* MustLoad in buildHandler: what does not load ends the process.
ReadConfig ==
  /\ Running
  /\ reloading.stage = "reading"
  /\ \/ /\ configFile.valid
        /\ reloading' = [stage |-> "building", config |-> configFile]
        /\ UNCHANGED <<configFile, sighup, signalled, active, limiting, request,
                       stopping, elapsed>>
     \/ ~configFile.valid /\ Exit("crashed")

\* A handler without requests is never used again once it is not active: what it
\* holds is dropped here, so that its slot can serve again.  (In the code its maps and
\* their states stay, because their janitors go on for ever; nothing looks at them.)
InUse(g, requests) == \E c \in Calls : requests[c].generation = g

Forgotten(gs, requests, current) ==
  [g \in Generations |-> IF g = current \/ InUse(g, requests) THEN gs[g] ELSE Unused]

\* Objects that nothing points to.
Collected(objects, gs, requests) ==
  [x \in Cells |->
     IF \/ \E g \in Generations : gs[g].cell = x
        \/ \E c \in Calls : requests[c].cell = x
       THEN objects[x] ELSE None]

\* The new limiters take over the old ones' map.
Swap_KeepsMap ==
  /\ Running
  /\ reloading.stage = "building"
  /\ \E g \in Generations :
       /\ g # active /\ ~InUse(g, request)
       /\ active' = g
       /\ generation' = Forgotten([generation EXCEPT
                            ![g] = [generation[active] EXCEPT !.config = reloading.config]],
                            request, g)
  /\ heap' = Collected(heap, generation', request)
  /\ reloading' = [stage |-> "waiting", config |-> NoConfig]
  /\ UNCHANGED <<configFile, sighup, signalled, request, stopping, elapsed>>

\* The new handler takes effect for the requests that come from now on; bound: there
\* is a slot for its generation.
Swap ==
  /\ Running
  /\ reloading.stage = "building"
  /\ \E g \in Generations :
       /\ g # active /\ ~InUse(g, request)
       /\ active' = g
       /\ generation' = Forgotten([generation EXCEPT ![g] = Built(reloading.config)],
                                  request, g)
  /\ heap' = Collected(heap, generation', request)
  /\ reloading' = [stage |-> "waiting", config |-> NoConfig]
  /\ UNCHANGED <<configFile, sighup, signalled, request, stopping, elapsed>>

------------------------------------------------------------------------------
(***************************************************************************)
(* Requests.                                                               *)
(***************************************************************************)

\* The main server accepts a request, whose handler is the active one.
Arrive(c) ==
  /\ server \in {"serving", "closing metrics"}
  /\ request[c] = Idle
  /\ request' = [request EXCEPT ![c] = [Idle EXCEPT !.stage = "routed",
                                                    !.generation = active]]
  /\ UNCHANGED <<reload, active, limiting, stopping, elapsed>>

Holds(c, x) ==
  request' = [request EXCEPT ![c] = [@ EXCEPT !.stage = "holding", !.cell = x]]

\* The time of an entry is that of its insertion.
GetOrInsert_NotTouched(c) ==
  LET g == request[c].generation IN
  /\ Running
  /\ request[c].stage = "routed"
  /\ \/ /\ generation[g].cell # None
        /\ Holds(c, generation[g].cell)
        /\ UNCHANGED limiting
     \/ \E x \in Cells :
          /\ generation[g].cell = None
          /\ heap[x] = None
          /\ heap' = [heap EXCEPT ![x] = New(generation[g].config.algorithm)]
          /\ generation' = [generation EXCEPT ![g].cell = x, ![g].touched = 0]
          /\ Holds(c, x)
  /\ UNCHANGED <<reload, active, stopping, elapsed>>

\* Under the shard's mutex; the caller keeps the object when it is released.
GetOrInsert(c) ==
  LET g == request[c].generation IN
  /\ Running
  /\ request[c].stage = "routed"
  /\ \/ /\ generation[g].cell # None
        /\ Holds(c, generation[g].cell)
        /\ generation' = [generation EXCEPT ![g].touched = 0]
        /\ UNCHANGED heap
     \/ \E x \in Cells :
          /\ generation[g].cell = None
          /\ heap[x] = None
          /\ heap' = [heap EXCEPT ![x] = New(generation[g].config.algorithm)]
          /\ generation' = [generation EXCEPT ![g].cell = x, ![g].touched = 0]
          /\ Holds(c, x)
  /\ UNCHANGED <<reload, active, stopping, elapsed>>

\* The rest of Allow, under the state's mutex.
Decide(c) ==
  LET g == request[c].generation
      result == Allow(heap[request[c].cell], elapsed)
  IN
  /\ Running
  /\ request[c].stage = "holding"
  /\ request' = [request EXCEPT ![c] = [Idle EXCEPT !.stage = "responding",
                                                    !.generation = g]]
  /\ generation' = [generation EXCEPT ![g].taken[0] =
                      IF result.allowed THEN @ + Cost ELSE @]
  /\ heap' = Collected([heap EXCEPT ![request[c].cell] = result.state],
                       generation, request')
  /\ UNCHANGED <<reload, active, stopping, elapsed>>

\* The request has been forwarded or turned away, and the response is complete.
Done(c) ==
  /\ Running
  /\ request[c].stage = "responding"
  /\ request' = [request EXCEPT ![c] = Idle]
  /\ generation' = Forgotten(generation, request', active)
  /\ heap' = Collected(heap, generation', request')
  /\ UNCHANGED <<reload, active, stopping, elapsed>>

\* An entry that has not been touched for longer than the TTL goes.  The janitor's
\* reading may be old: then it goes later.
Sweep(g) ==
  /\ Running
  /\ generation[g].cell # None
  /\ generation[g].touched > TTL
  /\ generation' = [generation EXCEPT ![g].cell = None, ![g].touched = 0]
  /\ heap' = Collected(heap, generation', request)
  /\ UNCHANGED <<reload, active, request, stopping, elapsed>>

------------------------------------------------------------------------------
(***************************************************************************)
(* server.Run.                                                             *)
(***************************************************************************)

\* A request of the metrics server ends.
ScrapeEnds ==
  /\ Running
  /\ scraping
  /\ scraping' = FALSE
  /\ UNCHANGED <<reload, active, limiting, request, server, sinceStop, elapsed>>

\* SIGTERM or SIGINT, which may find the metrics server busy; further ones are not
\* looked at.
Terminate ==
  /\ server = "serving"
  /\ server' = "closing metrics"
  /\ scraping' \in BOOLEAN
  /\ UNCHANGED <<reload, active, limiting, request, sinceStop, elapsed>>

\* A listener fails: Run returns its error, and main gives up.
ListenerFails ==
  /\ server = "serving"
  /\ Exit("crashed")

Late == sinceStop = Grace

\* metricsSrv.Shutdown returns, with success or at the deadline.
MetricsClosed ==
  /\ server = "closing metrics"
  /\ ~scraping \/ Late
  /\ server' = "closing main"
  /\ scraping' = FALSE
  /\ UNCHANGED <<reload, active, limiting, request, sinceStop, elapsed>>

\* mainSrv.Shutdown returns when no request is left, or at the same deadline.
MainClosed ==
  /\ server = "closing main"
  /\ \/ UnderWay = {} /\ Exit("stopped")
     \/ Late /\ Exit("cut off")

------------------------------------------------------------------------------
\* Time passes.
Tick ==
  /\ Running
  /\ \A c \in Calls : request[c].stage = "holding" => request[c].paused < MaxPause
  /\ elapsed' = (elapsed + 1) % Window
  /\ sinceStop' = IF server = "serving" THEN 0 ELSE Min({Grace, sinceStop + 1})
  /\ request' = [c \in Calls |-> IF request[c].stage = "holding"
                                   THEN [request[c] EXCEPT !.paused = @ + 1]
                                   ELSE request[c]]
  /\ generation' = [g \in Generations |->
                      [generation[g] EXCEPT
                         !.taken = Aged(@),
                         !.touched = IF generation[g].cell = None THEN 0
                                     ELSE Min({TTL + 1, @ + 1})]]
  /\ heap' = [x \in Cells |->
                IF heap[x] = None THEN None ELSE Older(heap[x], elapsed' = 0)]
  /\ UNCHANGED <<reload, active, server, scraping>>

Next ==
  \/ EditConfig
  \/ Hangup
  \/ TakeSignal
  \/ ReadConfig
  \/ Swap
  \/ \E c \in Calls : Arrive(c)
  \/ \E c \in Calls : GetOrInsert(c)
  \/ \E c \in Calls : Decide(c)
  \/ \E c \in Calls : Done(c)
  \/ \E g \in Generations : Sweep(g)
  \/ ScrapeEnds
  \/ Terminate
  \/ ListenerFails
  \/ MetricsClosed
  \/ MainClosed
  \/ Tick

Spec == Init /\ [][Next]_vars

------------------------------------------------------------------------------
(***************************************************************************)
(* Properties.                                                             *)
(***************************************************************************)

Configs == [version : 0 .. MaxVersion, valid : BOOLEAN, algorithm : Algorithms]

\* The values of the variables; a request that has got its state holds an object,
\* and the algorithm's that its generation was configured with.
TypeOK ==
  /\ configFile \in Configs
  /\ sighup \in BOOLEAN
  /\ reloading \in [stage : {"waiting", "reading", "building"}, config : Configs]
  /\ active \in Generations
  /\ generation \in [Generations -> [config : Configs, cell : Cells \cup {None},
                                    touched : 0 .. TTL + 1, taken : [Ages -> Nat]]]
  /\ heap \in [Cells -> States \cup {None}]
  /\ request \in [Calls -> [stage : {"idle", "routed", "holding", "responding"},
                            generation : Generations \cup {None},
                            cell : Cells \cup {None}, paused : 0 .. MaxPause]]
  /\ server \in {"serving", "closing metrics", "closing main"} \cup Ended
  /\ sinceStop \in 0 .. Grace
  /\ scraping \in BOOLEAN
  /\ elapsed \in Ages
  /\ signalled \in 0 .. MaxVersion
  /\ \A c \in Calls : Running /\ request[c].stage = "holding" =>
       /\ request[c].cell # None /\ heap[request[c].cell] # None
       /\ heap[request[c].cell].algorithm =
            generation[request[c].generation].config.algorithm

\* A limiter admits no more than its algorithm allows in any Window ticks, although
\* the janitor deletes states and requests pause with a state in their hands.  This
\* needs Window + MaxPause <= TTL + 1: then it deletes none that a request holds, and
\* none that was used in the last Window ticks.
LocalQuota ==
  \A g \in Generations :
    Sum(generation[g].taken) <= Most(generation[g].config.algorithm)

\* CONFIGURATION.md: "Changes to this file can be hot-reloaded ... by sending a
\* SIGHUP".  No signal is lost: the file as it was at the last one, or a later one,
\* is in effect, or on its way, whenever signals and edits come.
ReloadNotLost ==
  Running => \/ generation[active].config.version >= signalled
             \/ reloading.config.version >= signalled
             \/ reloading.stage = "reading"
             \/ sighup

==============================================================================
