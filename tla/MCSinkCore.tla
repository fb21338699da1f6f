----------------------------- MODULE MCSinkCore -----------------------------
(***************************************************************************)
(* Two tables of one row each.  The row of the first is written twice, so  *)
(* that its changes can arrive in either order, and anything may arrive    *)
(* twice.  One contract set, which accepts everything.  The driver may     *)
(* crash at any step, every commit may conflict or be unknown, and the     *)
(* checkpoint may be wiped.  Times up to MaxMillis can be converted; one   *)
(* envelope of the core run, and a change of the poison run, are later.    *)
(***************************************************************************)
EXTENDS Sink, TLC

CONSTANTS k1, k2, a1, a2, b1

MCKey     == {k1, k2}
MCEvent   == {a1, a2, b1}
MCTableOf == (k1 :> 1) @@ (k2 :> 2)
MCKeyOf   == (a1 :> k1) @@ (a2 :> k1) @@ (b1 :> k2)
MCLsn     == (a1 :> 1) @@ (a2 :> 3) @@ (b1 :> 2)

Change(e, ts) ==
    [kind |-> "change", event |-> e, ts |-> ts, sent |-> ts, accepted |-> {1}]
Gap == [Change(a1, 0) EXCEPT !.kind = "gap", !.accepted = {}]

\* A time that cannot be converted: of the change, or of its envelope.
FarChange   == Change(b1, 9)
FarEnvelope == [Change(b1, 4) EXCEPT !.sent = 9]

MCPartition == {1}
MCReplays   == {}
MCNumber    == (1 :> 0)
MCChanges   == {Change(a1, 3), Change(a2, 5), Change(b1, 4)}
MCBody == MCChanges \cup {Gap, FarEnvelope}
MCPoison    == {Change(a1, 3), FarChange, FarEnvelope}
MCLateTwice == {Change(a1, 1), Change(a1, 3), Change(a2, 5)}
MCLoadable  == {1}
=============================================================================
