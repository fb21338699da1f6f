----------------------------- MODULE Semantics ------------------------------
(***************************************************************************)
(* The executable specification of one micro-batch that the repository     *)
(* keeps beside the Spark sink (libs/lakeflow_core/semantics.py).          *)
(*                                                                         *)
(*   events    set of [event, key, lsn, ts, at]; `at' is <<topic-partition,*)
(*             offset>>, with topic-partitions numbered in sorted order    *)
(*   silver    function from some keys to [event, lsn, prev, batch]        *)
(*   bronze    function from the event ids in bronze to their batch id     *)
(*   mark      watermark_ms before the batch                               *)
(***************************************************************************)
EXTENDS Integers, FiniteSets, FiniteSetsExt

None == -1      \* a missing LSN

Before(a, b) == \/ a[1] < b[1]
                \/ a[1] = b[1] /\ a[2] < b[2]

\* Rule 1: the first occurrence of an event in the batch stands for it.
Kept(events) ==
    {x \in events : \A y \in events : y.event = x.event => ~Before(y.at, x.at)}

\* Rule 2: events that an earlier batch wrote to bronze are skipped.
Prior(batch_id, events, bronze) ==
    {x \in Kept(events) : x.event \in DOMAIN bronze /\ bronze[x.event] < batch_id}

Candidates(batch_id, events, bronze) ==
    Kept(events) \ Prior(batch_id, events, bronze)

\* Rule 3: by (lsn, offset); of equals the one met first.
Beats(x, y) == \/ x.lsn > y.lsn
               \/ x.lsn = y.lsn /\ x.at[2] > y.at[2]
               \/ x.lsn = y.lsn /\ x.at[2] = y.at[2] /\ Before(x.at, y.at)
IsBatchLatest(x, candidates) ==
    \A y \in candidates : y.key = x.key => ~Beats(y, x)

\* Rule 4: the row before this batch, also if this batch already wrote it.
BaselineLsn(batch_id, key, silver) ==
    IF key \notin DOMAIN silver THEN None
    ELSE IF silver[key].batch = batch_id THEN silver[key].prev ELSE silver[key].lsn

\* Rule 5.
OutcomeIn(batch_id, x, candidates, silver) ==
    IF x.lsn <= BaselineLsn(batch_id, x.key, silver) THEN "stale"
    ELSE IF IsBatchLatest(x, candidates) THEN "applied" ELSE "superseded"

plan_batch(batch_id, events, silver, bronze, mark, lateness) ==
    LET candidates == Candidates(batch_id, events, bronze)
        Outcome(x) == OutcomeIn(batch_id, x, candidates, silver)
        ids(S)     == {x.event : x \in S}
    IN  [outcomes         |-> [e \in ids(candidates) |->
                                 Outcome(CHOOSE x \in candidates : x.event = e)],
         late             |-> ids({x \in candidates : x.ts < mark}),
         prior_duplicates |-> ids(Prior(batch_id, events, bronze)),
         bronze_appends   |-> ids(candidates) \ DOMAIN bronze,
         to_apply         |-> {x \in candidates : Outcome(x) = "applied"},
         watermark_after  |-> Max({mark} \cup {x.ts - lateness : x \in candidates})]

\* The guarded MERGE: a row only takes a newer change and remembers its LSN.
apply_plan(plan, batch_id, silver) ==
    LET newer(k) == {x \in plan.to_apply : /\ x.key = k
                                           /\ k \in DOMAIN silver => x.lsn > silver[k].lsn}
        lsnOf(k) == IF k \in DOMAIN silver THEN silver[k].lsn ELSE None
        row(k)   == LET x == CHOOSE x \in newer(k) : TRUE
                    IN  [event |-> x.event, lsn |-> x.lsn, prev |-> lsnOf(k),
                         batch |-> batch_id]
    IN  [k \in DOMAIN silver \cup {x.key : x \in plan.to_apply} |->
            IF newer(k) = {} THEN silver[k] ELSE row(k)]
=============================================================================
