------------------------------ MODULE MCGateway -------------------------------
(***************************************************************************)
(* The request path of one replica on small instances.                     *)
(***************************************************************************)
EXTENDS Gateway

==============================================================================
