-------------------------- MODULE MCSinkReference ---------------------------
(***************************************************************************)
(* Three changes of one row, delivered to two partitions in any order and  *)
(* any number of times; one of them has the timestamp of an old change.    *)
(***************************************************************************)
EXTENDS SinkReference, TLC

CONSTANTS k1, a1, a2, a3

MCKey       == {k1}
MCEvent     == {a1, a2, a3}
MCTableOf   == (k1 :> 1)
MCKeyOf     == (a1 :> k1) @@ (a2 :> k1) @@ (a3 :> k1)
MCLsn       == (a1 :> 1) @@ (a2 :> 2) @@ (a3 :> 3)

Change(e, ts) == [kind |-> "change", event |-> e, ts |-> ts, sent |-> 0, accepted |-> {1}]

MCPartition == {1, 2}
MCReplays   == {}
MCNumber    == (1 :> 0) @@ (2 :> 1)
MCBody      == {Change(a1, 5), Change(a2, 1), Change(a3, 7)}
MCLoadable  == {1}
=============================================================================
