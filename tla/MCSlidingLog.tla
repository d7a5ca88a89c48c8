----------------------------- MODULE MCSlidingLog -----------------------------
(***************************************************************************)
(* The sliding window log on small instances.                              *)
(***************************************************************************)
EXTENDS SlidingLog, TLC

\* Allow calls are interchangeable, and so are the identifiers they draw.
Symmetric == Permutations(Calls) \cup Permutations(Ids)

==============================================================================
