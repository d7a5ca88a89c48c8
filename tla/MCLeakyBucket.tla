---------------------------- MODULE MCLeakyBucket -----------------------------
(***************************************************************************)
(* The leaky bucket on small instances, and against the token bucket.      *)
(***************************************************************************)
EXTENDS LeakyBucket, TLC

\* Allow calls are interchangeable.
CallSymmetry == Permutations(Calls)

==============================================================================
