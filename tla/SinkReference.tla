--------------------------- MODULE SinkReference ----------------------------
(***************************************************************************)
(* The Spark sink against the reference model of the repository, within    *)
(* one checkpoint lineage: semantics.py identifies a batch by batch_id     *)
(* alone.  "The Spark sink implements the same rules ... The PySpark tests *)
(* ... require identical results" (semantics.py 3-4).                      *)
(***************************************************************************)
EXTENDS Sink

Reference == INSTANCE Semantics

\* The input of plan_batch and the tables as the reference sees them.
BatchEvents ==
    {[event |-> EventAt(x), key |-> KeyOf[EventAt(x)], lsn |-> Lsn[EventAt(x)],
      ts |-> TsAt(x), at |-> x] : x \in Valid}
SilverTable(rows) ==
    [k \in {k \in Key : rows[k].event # NoEvent} |->
        [event |-> rows[k].event, lsn |-> Lsn[rows[k].event],
         prev |-> rows[k].prev, batch |-> rows[k].batch]]
BronzeBatches ==
    [e \in {row.event : row \in bronze} |->
        (CHOOSE row \in bronze : row.event = e).batch]

ReferencePlan ==
    Reference!plan_batch(Batch, BatchEvents, SilverTable(silver), BronzeBatches,
                         WatermarkBefore, Lateness)

OneLineage == epochs = 1

\* At every point of a batch, also after a crash half way through its writes,
\* Spark executes the plan of the reference: the same outcomes, late flags and
\* duplicates, and the same watermark (sink.plan 220-262, 482).
PlanMatchesReference ==
    OneLineage /\ Writing /\ Valid # {} =>
        /\ [e \in DOMAIN planned \ Planned("duplicate") |-> planned[e].outcome]
               = ReferencePlan.outcomes
        /\ Planned("duplicate") = ReferencePlan.prior_duplicates
        /\ {e \in DOMAIN planned \ Planned("duplicate") : planned[e].late}
               = ReferencePlan.late
        /\ newMark = ReferencePlan.watermark_after

\* The events an append would add are those the reference appends.
AppendsMatchReference ==
    OneLineage /\ stage = "bronze" => Fresh = ReferencePlan.bronze_appends

\* The MERGEs of all tables leave silver as apply_plan does (merge_silver_sql).
MergeMatchesReference ==
    [][OneLineage /\ stage = "silver" /\ stage' = "bronze" =>
        SilverTable(silver')
            = Reference!apply_plan(ReferencePlan, Batch, SilverTable(silver))]_vars
=============================================================================
