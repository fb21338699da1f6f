----------------------------- MODULE MCRecovery -----------------------------
(* Two requests to exit after a commit and one to exit now, or one unknown *)
(* one; a batch that applies nothing between two that do.                  *)
EXTENDS Recovery, TLC

MCRequest == 1..3
MCAction  == 1 :> "crash_after_commit" @@ 2 :> "crash_after_commit" @@ 3 :> "crash_now"
MCApplied == 1 :> TRUE @@ 2 :> FALSE @@ 3 :> TRUE
=============================================================================
