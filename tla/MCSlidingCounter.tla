--------------------------- MODULE MCSlidingCounter ---------------------------
(***************************************************************************)
(* The sliding window counter on small instances.                          *)
(***************************************************************************)
EXTENDS SlidingCounter, TLC

\* Allow calls are interchangeable.
CallSymmetry == Permutations(Calls)

==============================================================================
