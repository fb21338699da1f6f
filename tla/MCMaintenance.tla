--------------------------- MODULE MCMaintenance ----------------------------
(***************************************************************************)
(* The hourly task and a manual run on one table beside the stream.        *)
(***************************************************************************)
EXTENDS Maintenance, TLC

CONSTANTS airflow, cli
MCRunner == {airflow, cli}

\* Enough for a run that rewrites twice, with a commit of the stream between.
MCMaxFiles == (0 :> 4) @@ (1 :> 5) @@ (2 :> 4)

\* The code does not look at who runs it.
MCSymmetry == Permutations(MCRunner)
=============================================================================
