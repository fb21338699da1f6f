------------------------------ MODULE Monitor ------------------------------
(***************************************************************************)
(* The health monitor of the API.  A cycle probes every component, makes   *)
(* the results visible and then writes incidents for those whose status    *)
(* has changed, one statement after the other, to a control database that  *)
(* lives on the PostgreSQL server the monitor watches.  What it knows of   *)
(* earlier cycles is in the process; the incidents are not.                *)
(*                                                                         *)
(* Components change by themselves, also during a cycle, and the API may   *)
(* be restarted at any point.  Rows of resolved incidents are left out.    *)
(***************************************************************************)
EXTENDS Naturals, Sequences

CONSTANTS
    Components,    \* the components, in the order of the probes
    Server,        \* the one whose server holds the control database
    MaxChanges,    \* bound: changes of a component's condition
    MaxRestarts    \* bound: restarts of the API

Component == {Components[i] : i \in 1..Len(Components)}

ASSUME ComponentAssumption ==
    /\ Components \in Seq(Component) /\ Len(Components) > 0
    /\ Server \in Component
    /\ \A i, j \in 1..Len(Components) : Components[i] = Components[j] => i = j

ASSUME BoundAssumption == MaxChanges \in Nat /\ MaxRestarts \in Nat

VARIABLES
    condition,   \* what a probe of each component finds
    tables,      \* whether the control database has its tables
    incidents,   \* unresolved rows of each component and title
    pc, next,    \* the monitor's thread: step and component of the loop
    probed,      \* results of the cycle that runs
    results,     \* results of the last cycle
    previous,    \* those of the cycle before it
    failed,      \* components for which a statement failed, or the API restarted, since
                 \* their incidents were last resolved
    changes, restarts

thread == <<pc, next, probed, results, previous>>
vars == <<condition, tables, incidents, thread, failed, changes, restarts>>

Unhealthy == {"degraded", "down"}
Status == {"healthy"} \cup Unhealthy
Unknown == [c \in Component |-> "none"]

\* The title of an incident is the component's label and its status.
Open(c) == \E status \in Unhealthy : incidents[c][status] > 0
Resolved == [status \in Unhealthy |-> 0]

\* A statement succeeds if the server answers and the tables exist.
Answers == condition[Server] # "down"
Writable == Answers /\ tables

Init ==
    /\ condition \in [Component -> Status] /\ tables = FALSE
    /\ incidents = [c \in Component |-> Resolved]
    /\ pc = "init" /\ next = 1
    /\ probed = Unknown /\ results = Unknown /\ previous = Unknown
    /\ failed = {} /\ changes = 0 /\ restarts = 0

-----------------------------------------------------------------------------

\* The application starts without its tables if it has to.
InitStore ==
    /\ pc = "init"
    /\ tables' = (tables \/ Answers)
    /\ pc' = "probe" /\ next' = 1
    /\ UNCHANGED <<condition, incidents, probed, results, previous, failed, changes, restarts>>

Name == Components[next]

\* The loop goes on with the next component, or the cycle ends.
Advance(loop, end) ==
    IF next < Len(Components)
    THEN pc' = loop /\ next' = next + 1
    ELSE pc' = end /\ next' = 1

Probe ==
    /\ pc = "probe"
    /\ probed' = [probed EXCEPT ![Name] = condition[Name]]
    /\ Advance("probe", "publish")
    /\ UNCHANGED <<condition, tables, incidents, results, previous, failed, changes, restarts>>

\* Faulty: the snapshot is taken after the new results are in place.
Publish_Late ==
    /\ pc = "publish"
    /\ previous' = probed /\ results' = probed
    /\ pc' = "record"
    /\ UNCHANGED <<condition, tables, incidents, next, probed, failed, changes, restarts>>

Publish ==
    /\ pc = "publish"
    /\ previous' = results /\ results' = probed
    /\ pc' = "record"
    /\ UNCHANGED <<condition, tables, incidents, next, probed, failed, changes, restarts>>

Opens == results[Name] \in Unhealthy /\ previous[Name] # results[Name]
Resolves == results[Name] = "healthy" /\ previous[Name] \in Unhealthy

\* Faulty: a failed statement ends the cycle.
Fail_EndsCycle ==
    /\ failed' = failed \cup {Name}
    /\ pc' = "probe" /\ next' = 1
    /\ UNCHANGED <<tables, incidents>>

\* The error is logged (_safe), and the loop goes on.
Fail ==
    /\ failed' = failed \cup {Name}
    /\ Advance("record", "probe")
    /\ UNCHANGED <<tables, incidents>>

Unchanged ==
    /\ pc = "record" /\ ~Opens /\ ~Resolves
    /\ Advance("record", "probe")
    /\ UNCHANGED <<condition, tables, incidents, probed, results, previous, failed, changes,
                   restarts>>

\* Faulty: open_incident does not look for an open row.
SelectIncident_Insert ==
    /\ pc = "record" /\ Opens
    /\ IF Writable
       THEN pc' = "insert" /\ UNCHANGED <<tables, incidents, next, failed>>
       ELSE Fail
    /\ UNCHANGED <<condition, probed, results, previous, changes, restarts>>

\* open_incident: SELECT and INSERT are two transactions.
SelectIncident ==
    /\ pc = "record" /\ Opens
    /\ IF ~Writable THEN Fail
       ELSE IF incidents[Name][results[Name]] > 0
       THEN Advance("record", "probe") /\ UNCHANGED <<tables, incidents, failed>>
       ELSE pc' = "insert" /\ UNCHANGED <<tables, incidents, next, failed>>
    /\ UNCHANGED <<condition, probed, results, previous, changes, restarts>>

InsertIncident ==
    /\ pc = "insert"
    /\ IF Writable
       THEN /\ incidents' = [incidents EXCEPT ![Name][results[Name]] = @ + 1]
            /\ Advance("record", "probe")
            /\ UNCHANGED <<tables, failed>>
       ELSE Fail
    /\ UNCHANGED <<condition, probed, results, previous, changes, restarts>>

\* resolve_incidents
ResolveIncidents ==
    /\ pc = "record" /\ Resolves
    /\ IF Writable
       THEN /\ incidents' = [incidents EXCEPT ![Name] = Resolved]
            /\ failed' = failed \ {Name}
            /\ Advance("record", "probe")
            /\ UNCHANGED tables
       ELSE Fail
    /\ UNCHANGED <<condition, probed, results, previous, changes, restarts>>

-----------------------------------------------------------------------------

Change(c, status) ==
    /\ changes < MaxChanges
    /\ status # condition[c]
    /\ condition' = [condition EXCEPT ![c] = status]
    /\ changes' = changes + 1
    /\ UNCHANGED <<tables, incidents, thread, failed, restarts>>

RestartApi ==
    /\ restarts < MaxRestarts
    /\ pc' = "init" /\ next' = 1
    /\ probed' = Unknown /\ results' = Unknown /\ previous' = Unknown
    /\ failed' = failed \cup {c \in Component : Open(c)}
    /\ restarts' = restarts + 1
    /\ UNCHANGED <<condition, tables, incidents, changes>>

Cycle == \/ InitStore \/ Probe \/ Publish \/ Unchanged \/ SelectIncident \/ InsertIncident
         \/ ResolveIncidents

Next == \/ Cycle \/ RestartApi
        \/ \E c \in Component, status \in Status : Change(c, status)

Spec == Init /\ [][Next]_vars

\* The monitor's thread catches every exception and sleeps for ten seconds between cycles.
FairSpec == Spec /\ WF_vars(Cycle)

-----------------------------------------------------------------------------
(* Properties                                                              *)

TypeOK ==
    /\ condition \in [Component -> Status] /\ tables \in BOOLEAN
    /\ incidents \in [Component -> [Unhealthy -> Nat]]
    /\ pc \in {"init", "probe", "publish", "record", "insert"} /\ next \in 1..Len(Components)
    /\ \A r \in {probed, results, previous} : r \in [Component -> Status \cup {"none"}]
    /\ failed \subseteq Component
    /\ changes \in 0..MaxChanges /\ restarts \in 0..MaxRestarts

\* A component has at most one unresolved row per title, also after the API has lost what it
\* knew, or a component has been down, degraded and down again.
OneOpenIncident == \A c \in Component, status \in Unhealthy : incidents[c][status] <= 1

\* Whether the loop of this cycle has passed the component.
Passed(c) == \E i \in 1..next - 1 : Components[i] = c
Settled(c) == pc = "probe" \/ (pc = "record" /\ Passed(c))

\* Between its record and the next one a component has an unresolved incident exactly if it
\* was found unhealthy, unless a statement for it failed or the API restarted meanwhile;
\* the failures of other components do not matter.
IncidentsFollowStatus ==
    \A c \in Component \ failed : Settled(c) => (Open(c) <=> results[c] \in Unhealthy)

\* A component that stays unhealthy gets its incident, whatever happens to the others, if
\* no statement for it fails.
LastingOutageIsRecorded ==
    \A c \in Component : <>[](condition[c] \in Unhealthy) => <>(Open(c) \/ c \in failed)
=============================================================================
