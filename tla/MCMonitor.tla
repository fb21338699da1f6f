----------------------------- MODULE MCMonitor -----------------------------
(* PostgreSQL, which holds the control database, and one more component.   *)
EXTENDS Monitor

MCComponents == <<"postgres", "spark">>
=============================================================================
