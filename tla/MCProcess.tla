------------------------------- MODULE MCProcess -------------------------------
(***************************************************************************)
(* The gateway process with local limiters on a small instance.            *)
(***************************************************************************)
EXTENDS Process, TLC

MCEdited ==
  "token_bucket" :> "leaky_bucket" @@ "leaky_bucket" :> "token_bucket"
  @@ "sliding_window_log" :> "sliding_window_counter"
  @@ "sliding_window_counter" :> "sliding_window_log"

Symmetry == Permutations(Calls) \cup Permutations(Cells) \cup Permutations(Generations)

==============================================================================
