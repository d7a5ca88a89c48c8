----------------------------- MODULE BreakerFSM ------------------------------
(***************************************************************************)
(* What the breaker promises: the three-state machine drawn in section 5   *)
(* of backend/docs/ARCHITECTURE.md, without callers, counts or failures.   *)
(*                                                                         *)
(* It opens at any time while Closed; it stays Open for more than          *)
(* OpenDuration; it leaves HalfOpen to Closed on the HalfOpenSuccesses-th  *)
(* success and otherwise only back to Open, for a full open period.        *)
(***************************************************************************)
EXTENDS Integers

CONSTANTS OpenDuration, HalfOpenSuccesses

VARIABLES
  phase,   \* "Closed", "Open" or "HalfOpen"
  dwell,   \* time since the machine last opened, up to OpenDuration + 1
  streak   \* successes seen since it last became HalfOpen

fsmVars == <<phase, dwell, streak>>

Init ==
  /\ phase = "Closed"
  /\ dwell = OpenDuration + 1
  /\ streak = 0

\* Closed -> Open on too many errors, HalfOpen -> Open on any error.
Trip ==
  /\ phase \in {"Closed", "HalfOpen"}
  /\ phase' = "Open"
  /\ dwell' = 0
  /\ UNCHANGED streak

\* Open -> HalfOpen once OpenDuration has passed.
BeginProbing ==
  /\ phase = "Open"
  /\ dwell > OpenDuration
  /\ phase' = "HalfOpen"
  /\ streak' = 0
  /\ UNCHANGED dwell

\* A success in HalfOpen; HalfOpenSuccesses of them close the breaker.
Succeed ==
  /\ phase = "HalfOpen"
  /\ streak' = streak + 1
  /\ phase' = IF streak' >= HalfOpenSuccesses THEN "Closed" ELSE "HalfOpen"
  /\ UNCHANGED dwell

Wait ==
  /\ dwell <= OpenDuration
  /\ dwell' = dwell + 1
  /\ UNCHANGED <<phase, streak>>

Next == Trip \/ BeginProbing \/ Succeed \/ Wait

Spec == Init /\ [][Next]_fsmVars

==============================================================================
