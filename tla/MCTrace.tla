------------------------------ MODULE MCTrace -------------------------------
(***************************************************************************)
(* One row with two changes, and two records that no contract accepts: one *)
(* of another row, and one whose key cannot be read.  The tail keeps one   *)
(* record less than there are.                                             *)
(***************************************************************************)
EXTENDS Trace, TLC

CONSTANTS k1, k2, a1, a2, bad

MCKey     == {k1, k2}
MCEvent   == {a1, a2, bad}
MCTableOf == (k1 :> 1) @@ (k2 :> 1)
MCKeyOf   == (a1 :> k1) @@ (a2 :> k1) @@ (bad :> k2)
MCLsn     == (a1 :> 1) @@ (a2 :> 2) @@ (bad :> 3)

Change(e, sent, accepted) ==
    [kind |-> "change", event |-> e, ts |-> 0, sent |-> sent, accepted |-> accepted]

\* Two values of ts_ms tell a record with a key from one without.
Keyless   == Change(a2, 1, {})
MCBody    == {Change(a1, 0, {1}), Change(a2, 0, {1}), Change(bad, 0, {}), Keyless}
MCKeyed   == MCBody \ {Keyless}
MCLegible == {Change(a1, 0, {1}), Change(a2, 0, {1}), Keyless}

MCPartition == {1}
MCReplays   == {}
MCNumber    == (1 :> 0)
MCLoadable  == {1}

\* What the tail holds is of no consequence once it has been read, and the key of
\* the request is of none to the lag.
MCView == <<vars, kind, reading, view, since, finished, quiet,
            IF kind = "trace" THEN of ELSE "none",
            IF reading \in {"none", "tail"} THEN tail ELSE <<>> >>
=============================================================================
