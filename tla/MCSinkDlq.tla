----------------------------- MODULE MCSinkDlq ------------------------------
(***************************************************************************)
(* Rejected records and their replays.  The contracts are promoted from    *)
(* set 1 to set 3; set 2, which is half of the promotion, is refused by    *)
(* load_registry.  One change decodes only under set 1 (set 3 defines a    *)
(* field that it carries as drift), one only under 3, one record never     *)
(* does, and there is a Kafka tombstone.  Partition 1 is a CDC partition,  *)
(* partition 2 belongs to the replay topic.                                *)
(***************************************************************************)
EXTENDS Sink, TLC

CONSTANTS k1, a1, a2, bad

MCKey     == {k1}
MCEvent   == {a1, a2, bad}
MCTableOf == (k1 :> 1)
MCKeyOf   == (a1 :> k1) @@ (a2 :> k1) @@ (bad :> k1)
MCLsn     == (a1 :> 3) @@ (a2 :> 2) @@ (bad :> 1)
MCLsnUp   == (a1 :> 3) @@ (a2 :> 4) @@ (bad :> 1)

Body0(kind, e, ts, accepted) ==
    [kind |-> kind, event |-> e, ts |-> ts, sent |-> 0, accepted |-> accepted]

MCBody == {Body0("change", a1, 3, {1}), Body0("change", a2, 2, {3}),
           Body0("change", bad, 1, {}), Body0("tombstone", bad, 0, {})}
MCFixable == {Body0("change", a2, 2, {3})}
MCChanges == {Body0("change", a1, 3, {1, 3}), Body0("change", a2, 2, {3})}

MCPartition  == {1, 2}
MCReplays    == {2}
MCNumber     == (1 :> 0) @@ (2 :> 0)
MCLoadable   == {1, 3}
=============================================================================
