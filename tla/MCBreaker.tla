------------------------------ MODULE MCBreaker ------------------------------
(***************************************************************************)
(* The breaker on small instances.                                         *)
(***************************************************************************)
EXTENDS Breaker

==============================================================================
