------------------------------ MODULE MCDashboard ------------------------------
(***************************************************************************)
(* The dashboard on a small instance.                                      *)
(***************************************************************************)
EXTENDS Dashboard, TLC

MCQuota == "free" :> 30 @@ "pro" :> 100

MCMatches == "" :> Sections @@ "lua" :> {"redis-lua"}

BatchSymmetry == Permutations(Batches)

==============================================================================
