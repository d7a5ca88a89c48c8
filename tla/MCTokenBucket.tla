---------------------------- MODULE MCTokenBucket ----------------------------
(***************************************************************************)
(* The token bucket on small instances.                                    *)
(***************************************************************************)
EXTENDS TokenBucket, TLC

\* Allow calls are interchangeable.
CallSymmetry == Permutations(Calls)

==============================================================================
