---------------------------------- MODULE Sums ----------------------------------
(***************************************************************************)
(* f[x] is a number of things of kind x.  Told apart, they are the pairs   *)
(* in Units(f, S), for the kinds in S, and together as many as these.      *)
(***************************************************************************)
EXTENDS Integers, FiniteSets

Units(f, S) == UNION {{x} \X (1 .. f[x]) : x \in S}
Sum(f) == Cardinality(Units(f, DOMAIN f))

==============================================================================
