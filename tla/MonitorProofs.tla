--------------------------- MODULE MonitorProofs ---------------------------
(***************************************************************************)
(* Proofs about the monitor and its incidents, for any components and any  *)
(* number of outages and restarts.                                         *)
(***************************************************************************)
EXTENDS Monitor, Integers, TLAPS

Looping == pc \in {"record", "insert"}

\* What the monitor knows at a step: the loop only looks at statuses of this cycle, and what
\* it is about to insert is not there.
LoopInv ==
    /\ Looping => results \in [Component -> Status]
    /\ pc = "publish" => next = 1 /\ probed \in [Component -> Status]
    /\ pc = "probe" => \A i \in 1..next - 1 : probed[Components[i]] \in Status
    /\ pc = "insert" => Opens /\ incidents[Name][results[Name]] = 0

\* The loop turns agreement with the cycle before into agreement with this one, component by
\* component.
FollowInv ==
    \A c \in Component \ failed :
        Open(c) <=> IF Looping /\ ~Passed(c) THEN previous[c] \in Unhealthy
                                             ELSE results[c] \in Unhealthy

IInv == TypeOK /\ LoopInv /\ OneOpenIncident /\ FollowInv

-----------------------------------------------------------------------------

LEMMA ComponentFacts ==
    /\ Len(Components) \in Nat \ {0}
    /\ \A i \in 1..Len(Components) : Components[i] \in Component
    /\ \A c \in Component : \E i \in 1..Len(Components) : Components[i] = c
  BY ComponentAssumption DEF Component

LEMMA StatusFacts ==
    /\ "healthy" \in Status /\ "healthy" \notin Unhealthy /\ "none" \notin Unhealthy
    /\ "none" \notin Status /\ Unhealthy \subseteq Status
    /\ \A s \in Status : s \in Unhealthy \/ s = "healthy"
  BY DEF Status, Unhealthy

\* Going on with the loop, the component of this step counts as passed.
LEMMA AdvancePasses ==
    ASSUME next \in 1..Len(Components), NEW L, NEW E, L # E, Advance(L, E)
    PROVE  \/ /\ pc' = L /\ next' = next + 1 /\ next' \in 1..Len(Components)
              /\ \A c \in Component : Passed(c)' <=> (Passed(c) \/ c = Name)
           \/ /\ pc' = E /\ next' = 1 /\ next' \in 1..Len(Components)
              /\ next = Len(Components)
              /\ \A c \in Component : Passed(c) \/ c = Name
<1>1. CASE next < Len(Components)
  <2>1. pc' = L /\ next' = next + 1
    BY <1>1 DEF Advance
  <2>2. \A i \in Int : i \in 1..next' - 1 <=> (i \in 1..next - 1 \/ i = next)
    BY <2>1, ComponentFacts
  <2>3. \A c \in Component : Passed(c)' <=> (Passed(c) \/ c = Name)
    BY <2>2 DEF Passed, Name
  <2> QED
    BY <1>1, <2>1, <2>3, ComponentFacts
<1>2. CASE ~(next < Len(Components))
  <2>1. pc' = E /\ next' = 1 /\ next = Len(Components)
    BY <1>2, ComponentFacts DEF Advance
  <2>2. \A i \in 1..Len(Components) : i \in 1..next - 1 \/ i = next
    BY <2>1, ComponentFacts
  <2>3. \A c \in Component : Passed(c) \/ c = Name
    BY <2>2, ComponentFacts DEF Passed, Name
  <2> QED
    BY <2>1, <2>3, ComponentFacts
<1> QED
  BY <1>1, <1>2

\* The component of this step has not been passed.
LEMMA NotYetPassed ==
    ASSUME next \in 1..Len(Components)
    PROVE  Name \in Component /\ ~Passed(Name)
<1>1. \A i \in 1..next - 1 : i \in 1..Len(Components) /\ i # next
  BY ComponentFacts
<1> QED
  BY <1>1, ComponentFacts, ComponentAssumption DEF Name, Passed

\* A step of the loop that settles its component, or marks it as failed, keeps the agreement.
LEMMA LoopStep ==
    ASSUME NEW n, n = Name, TypeOK, FollowInv, Looping, Advance("record", "probe"),
           UNCHANGED <<results, previous>>,
           \A c \in Component \ {n} : incidents'[c] = incidents[c] /\ (c \in failed' <=> c \in failed),
           n \in failed' \/ (Open(n)' <=> results[n] \in Unhealthy)
    PROVE  FollowInv'
<1> SUFFICES ASSUME NEW c \in Component, c \notin failed'
             PROVE  Open(c)' <=> IF Looping' /\ ~Passed(c)' THEN previous[c] \in Unhealthy
                                                            ELSE results[c] \in Unhealthy
  BY DEF FollowInv
<1>1. next \in 1..Len(Components)
  BY DEF TypeOK
<1>2. CASE c = Name
  <2>1. Open(c)' <=> results[c] \in Unhealthy
    BY <1>2
  <2>2. ~(Looping' /\ ~Passed(c)')
    BY <1>1, <1>2, AdvancePasses, "record" # "probe" DEF Looping
  <2> QED
    BY <2>1, <2>2
<1>3. CASE c # Name
  <2>1. c \in Component \ failed /\ (Open(c)' <=> Open(c))
    BY <1>3 DEF Open
  <2>2. Open(c) <=> IF Passed(c) THEN results[c] \in Unhealthy ELSE previous[c] \in Unhealthy
    BY <2>1 DEF FollowInv
  <2>3. IF Looping' THEN Passed(c)' <=> Passed(c) ELSE Passed(c)
    BY <1>1, <1>3, AdvancePasses, "record" # "probe" DEF Looping
  <2> QED
    BY <2>1, <2>2, <2>3
<1> QED
  BY <1>2, <1>3

\* The same step keeps the rest of the invariant.
LEMMA LoopKeeps ==
    ASSUME TypeOK, LoopInv, Looping, Advance("record", "probe"),
           UNCHANGED <<condition, tables, probed, results, previous, changes, restarts>>,
           incidents' \in [Component -> [Unhealthy -> Nat]], failed' \subseteq Component
    PROVE  TypeOK' /\ LoopInv'
<1>1. next \in 1..Len(Components) /\ results \in [Component -> Status]
  BY DEF TypeOK, LoopInv
<1>2. /\ next' \in 1..Len(Components)
      /\ pc' = "record" \/ (pc' = "probe" /\ next' = 1)
  BY <1>1, AdvancePasses, "record" # "probe"
<1>3. TypeOK'
  BY <1>2 DEF TypeOK
<1>4. LoopInv'
  <2>1. results' \in [Component -> Status]
    BY <1>1
  <2>2. pc' = "probe" => 1..next' - 1 = {}
    BY <1>2
  <2>3. pc' # "publish" /\ pc' # "insert"
    BY <1>2
  <2> QED
    BY <2>1, <2>2, <2>3 DEF LoopInv
<1> QED
  BY <1>3, <1>4

-----------------------------------------------------------------------------

LEMMA InvInit == Init => IInv
<1> SUFFICES ASSUME Init PROVE IInv
  OBVIOUS
<1>1. TypeOK
  <2>1. Unknown \in [Component -> Status \cup {"none"}]
    BY DEF Unknown
  <2>2. incidents \in [Component -> [Unhealthy -> Nat]]
    BY DEF Init, Resolved
  <2>3. next \in 1..Len(Components) /\ changes \in 0..MaxChanges /\ restarts \in 0..MaxRestarts
    BY ComponentFacts, BoundAssumption DEF Init
  <2> QED
    BY <2>1, <2>2, <2>3 DEF Init, TypeOK
<1>2. LoopInv
  BY DEF Init, LoopInv, Looping
<1>3. OneOpenIncident
  BY DEF Init, OneOpenIncident, Resolved
<1>4. FollowInv
  BY StatusFacts DEF Init, FollowInv, Looping, Open, Resolved, Unknown
<1> QED
  BY <1>1, <1>2, <1>3, <1>4 DEF IInv

LEMMA InvStep == IInv /\ [Next]_vars => IInv'
<1> SUFFICES ASSUME IInv, [Next]_vars PROVE IInv'
  OBVIOUS
<1> USE DEF thread
<1>0. /\ TypeOK /\ LoopInv /\ OneOpenIncident /\ FollowInv
      /\ next \in 1..Len(Components) /\ Name \in Component /\ ~Passed(Name)
  BY NotYetPassed DEF IInv, TypeOK
<1>1. CASE InitStore
  <2>1. TypeOK'
    BY <1>0, <1>1, ComponentFacts DEF InitStore, TypeOK, Answers
  <2>2. LoopInv'
    BY <1>1 DEF InitStore, LoopInv, Looping
  <2>3. OneOpenIncident' /\ FollowInv'
    BY <1>0, <1>1 DEF InitStore, OneOpenIncident, FollowInv, Looping, Open
  <2> QED
    BY <2>1, <2>2, <2>3 DEF IInv
<1>2. CASE Probe
  <2>1. condition[Name] \in Status /\ Advance("probe", "publish")
    BY <1>0, <1>2 DEF Probe, TypeOK
  <2>2. TypeOK'
    BY <1>0, <1>2, <2>1, AdvancePasses, "probe" # "publish" DEF Probe, TypeOK
  <2>3. probed' = [probed EXCEPT ![Name] = condition[Name]] /\ probed \in [Component -> Status \cup {"none"}]
    BY <1>0, <1>2 DEF Probe, TypeOK
  <2>4. \A i \in 1..next : probed'[Components[i]] \in Status
    <3>1. \A i \in 1..next : Components[i] \in Component /\ (i = next \/ i \in 1..next - 1)
      BY <1>0, ComponentFacts
    <3> QED
      BY <1>0, <1>2, <2>1, <2>3, <3>1 DEF LoopInv, Probe, Name
  <2>5. LoopInv'
    <3>1. CASE pc' = "probe" /\ next' = next + 1
      BY <1>0, <2>4, <3>1 DEF LoopInv, Looping
    <3>2. CASE pc' = "publish" /\ next' = 1 /\ next = Len(Components)
      <4>1. \A c \in Component : probed'[c] \in Status
        BY <2>4, <3>2, ComponentFacts
      <4> QED
        BY <2>2, <3>2, <4>1 DEF LoopInv, Looping, TypeOK
    <3> QED
      BY <1>0, <2>1, <3>1, <3>2, AdvancePasses, "probe" # "publish"
  <2>6. OneOpenIncident'
    BY <1>0, <1>2 DEF Probe, OneOpenIncident
  <2>7. pc' \in {"probe", "publish"} /\ pc = "probe" /\ UNCHANGED <<incidents, failed, results, previous>>
    BY <1>0, <1>2, <2>1, AdvancePasses, "probe" # "publish" DEF Probe
  <2>8. FollowInv'
    BY <1>0, <2>7 DEF FollowInv, Looping, Open
  <2> QED
    BY <2>2, <2>5, <2>6, <2>8 DEF IInv
<1>3. CASE Publish
  <2>1. TypeOK'
    BY <1>0, <1>3 DEF Publish, TypeOK
  <2>2. LoopInv'
    BY <1>0, <1>3 DEF Publish, LoopInv, Looping
  <2>3. OneOpenIncident'
    BY <1>0, <1>3 DEF Publish, OneOpenIncident
  <2>4. FollowInv'
    <3>1. next = 1
      BY <1>0, <1>3 DEF LoopInv, Publish
    <3> QED
      BY <1>0, <1>3, <3>1 DEF Publish, FollowInv, Looping, Open, Passed
  <2> QED
    BY <2>1, <2>2, <2>3, <2>4 DEF IInv
<1>4. ASSUME Looping, Advance("record", "probe"),
             UNCHANGED <<condition, tables, probed, results, previous, changes, restarts>>,
             incidents' = incidents,
             failed' = failed \cup {Name} \/ (failed' = failed /\ (Open(Name) <=> results[Name] \in Unhealthy))
      PROVE  IInv'
  <2>0. PICK n \in Component : n = Name
    BY <1>0
  <2>1. incidents' \in [Component -> [Unhealthy -> Nat]] /\ failed' \subseteq Component
    BY <1>0, <1>4 DEF TypeOK
  <2>2. TypeOK' /\ LoopInv'
    BY <1>0, <1>4, <2>1, LoopKeeps
  <2>3. OneOpenIncident'
    BY <1>0, <1>4 DEF OneOpenIncident
  <2>4. n \in failed' \/ (Open(n)' <=> results[n] \in Unhealthy)
    <3>1. Open(n)' <=> Open(n)
      BY <1>4 DEF Open
    <3> QED
      BY <1>4, <2>0, <3>1
  <2>5. \A c \in Component \ {n} : incidents'[c] = incidents[c] /\ (c \in failed' <=> c \in failed)
    BY <1>4, <2>0
  <2>6. FollowInv'
    BY <1>0, <1>4, <2>0, <2>4, <2>5, LoopStep
  <2> QED
    BY <2>2, <2>3, <2>6 DEF IInv
<1>5. CASE Unchanged
  <2>1. results[Name] \in Status /\ Looping
    BY <1>0, <1>5 DEF Unchanged, LoopInv, Looping
  <2>2. Name \notin failed => (Open(Name) <=> previous[Name] \in Unhealthy)
    BY <1>0, <2>1 DEF FollowInv
  <2>3. Name \notin failed => (Open(Name) <=> results[Name] \in Unhealthy)
    BY <1>5, <2>1, <2>2, StatusFacts DEF Unchanged, Opens, Resolves
  <2> QED
    BY <1>4, <1>5, <2>1, <2>3 DEF Unchanged
<1>6. CASE SelectIncident
  <2>1. Looping /\ results[Name] \in Unhealthy
    BY <1>6 DEF SelectIncident, Looping, Opens
  <2>2. CASE ~Writable
    BY <1>4, <1>6, <2>1, <2>2 DEF SelectIncident, Fail
  <2>3. CASE Writable /\ incidents[Name][results[Name]] > 0
    <3>1. Open(Name)
      BY <2>1, <2>3 DEF Open
    <3> QED
      BY <1>4, <1>6, <2>1, <2>3, <3>1 DEF SelectIncident
  <2>4. CASE Writable /\ ~(incidents[Name][results[Name]] > 0)
    <3>1. incidents[Name][results[Name]] = 0
      <4>1. incidents[Name][results[Name]] \in Nat
        BY <1>0, <2>1 DEF TypeOK
      <4> QED
        BY <2>4, <4>1
    <3>2. /\ pc = "record" /\ pc' = "insert" /\ Opens
          /\ UNCHANGED <<tables, incidents, next, failed, condition, probed, results, previous,
                         changes, restarts>>
      BY <1>6, <2>4 DEF SelectIncident
    <3>3. TypeOK' /\ OneOpenIncident'
      BY <1>0, <3>2 DEF TypeOK, OneOpenIncident
    <3>4. LoopInv'
      BY <1>0, <3>1, <3>2 DEF LoopInv, Looping, Opens, Name
    <3>5. FollowInv'
      BY <1>0, <3>2 DEF FollowInv, Looping, Open, Passed
    <3> QED
      BY <3>3, <3>4, <3>5 DEF IInv
  <2> QED
    BY <2>2, <2>3, <2>4
<1>7. CASE InsertIncident
  <2>1. Looping /\ results[Name] \in Unhealthy /\ incidents[Name][results[Name]] = 0
    BY <1>0, <1>7 DEF InsertIncident, Looping, Opens, LoopInv
  <2>2. CASE ~Writable
    BY <1>4, <1>7, <2>1, <2>2 DEF InsertIncident, Fail
  <2>3. CASE Writable
    <3>1. PICK n \in Component, s \in Unhealthy : n = Name /\ s = results[n]
      BY <1>0, <2>1
    <3>2. /\ Advance("record", "probe")
          /\ incidents' = [incidents EXCEPT ![n][s] = @ + 1]
          /\ UNCHANGED <<tables, failed, condition, probed, results, previous, changes, restarts>>
      BY <1>7, <2>3, <3>1 DEF InsertIncident
    <3>3. incidents \in [Component -> [Unhealthy -> Nat]] /\ incidents[n][s] = 0
      BY <1>0, <2>1, <3>1 DEF TypeOK
    <3>4. /\ incidents' \in [Component -> [Unhealthy -> Nat]]
          /\ incidents'[n][s] = 1
          /\ \A c \in Component \ {n} : incidents'[c] = incidents[c]
          /\ \A t \in Unhealthy \ {s} : incidents'[n][t] = incidents[n][t]
      BY <3>2, <3>3
    <3>5. TypeOK' /\ LoopInv'
      <4>1. failed' \subseteq Component
        BY <1>0, <3>2 DEF TypeOK
      <4> QED
        BY <1>0, <2>1, <3>2, <3>4, <4>1, LoopKeeps
    <3>6. OneOpenIncident'
      <4> SUFFICES ASSUME NEW c \in Component, NEW t \in Unhealthy
                   PROVE  incidents'[c][t] <= 1
        BY DEF OneOpenIncident
      <4>1. incidents[c][t] <= 1 /\ incidents[c][t] \in Nat
        BY <1>0, <3>3 DEF OneOpenIncident
      <4>2. incidents'[c][t] = incidents[c][t] \/ incidents'[c][t] = 1
        BY <3>4
      <4> QED
        BY <4>1, <4>2
    <3>7. Open(n)'
      BY <3>4 DEF Open
    <3>8. FollowInv'
      <4>1. /\ n \in failed' \/ (Open(n)' <=> results[n] \in Unhealthy)
            /\ \A c \in Component \ {n} : incidents'[c] = incidents[c] /\ (c \in failed' <=> c \in failed)
        BY <3>1, <3>2, <3>4, <3>7
      <4> QED
        BY <1>0, <2>1, <3>1, <3>2, <4>1, LoopStep
    <3> QED
      BY <3>5, <3>6, <3>8 DEF IInv
  <2> QED
    BY <2>2, <2>3
<1>8. CASE ResolveIncidents
  <2>1. Looping /\ results[Name] = "healthy"
    BY <1>8 DEF ResolveIncidents, Looping, Resolves
  <2>2. CASE ~Writable
    BY <1>4, <1>8, <2>1, <2>2 DEF ResolveIncidents, Fail
  <2>3. CASE Writable
    <3>1. PICK n \in Component : n = Name
      BY <1>0
    <3>2. /\ Advance("record", "probe")
          /\ incidents' = [incidents EXCEPT ![n] = Resolved] /\ failed' = failed \ {n}
          /\ UNCHANGED <<tables, condition, probed, results, previous, changes, restarts>>
      BY <1>8, <2>3, <3>1 DEF ResolveIncidents
    <3>3. incidents \in [Component -> [Unhealthy -> Nat]] /\ failed \subseteq Component
      BY <1>0 DEF TypeOK
    <3>4. Resolved \in [Unhealthy -> Nat] /\ \A t \in Unhealthy : Resolved[t] = 0
      BY DEF Resolved
    <3>5. /\ incidents' \in [Component -> [Unhealthy -> Nat]]
          /\ incidents'[n] = Resolved
          /\ \A c \in Component \ {n} : incidents'[c] = incidents[c]
      BY <3>2, <3>3, <3>4
    <3>6. TypeOK' /\ LoopInv'
      <4>1. failed' \subseteq Component
        BY <3>2, <3>3
      <4> QED
        BY <1>0, <2>1, <3>2, <3>5, <4>1, LoopKeeps
    <3>7. OneOpenIncident'
      <4> SUFFICES ASSUME NEW c \in Component, NEW t \in Unhealthy
                   PROVE  incidents'[c][t] <= 1
        BY DEF OneOpenIncident
      <4>1. incidents[c][t] <= 1
        BY <1>0 DEF OneOpenIncident
      <4>2. incidents'[c][t] = incidents[c][t] \/ incidents'[c][t] = 0
        BY <3>4, <3>5
      <4> QED
        BY <4>1, <4>2
    <3>8. ~Open(n)'
      BY <3>4, <3>5 DEF Open
    <3>9. FollowInv'
      <4>1. /\ n \in failed' \/ (Open(n)' <=> results[n] \in Unhealthy)
            /\ \A c \in Component \ {n} : incidents'[c] = incidents[c] /\ (c \in failed' <=> c \in failed)
        BY <2>1, <3>1, <3>2, <3>5, <3>8, StatusFacts
      <4> QED
        BY <1>0, <2>1, <3>1, <3>2, <4>1, LoopStep
    <3> QED
      BY <3>6, <3>7, <3>9 DEF IInv
  <2> QED
    BY <2>2, <2>3
<1>9. ASSUME NEW c \in Component, NEW status \in Status, Change(c, status)
      PROVE  IInv'
  <2>1. TypeOK'
    BY <1>0, <1>9, BoundAssumption DEF Change, TypeOK
  <2>2. LoopInv' /\ OneOpenIncident' /\ FollowInv'
    BY <1>0, <1>9
    DEF Change, LoopInv, Looping, Opens, Name, OneOpenIncident, FollowInv, Open, Passed
  <2> QED
    BY <2>1, <2>2 DEF IInv
<1>10. CASE RestartApi
  <2>1. Unknown \in [Component -> Status \cup {"none"}]
    BY DEF Unknown
  <2>2. TypeOK'
    BY <1>0, <1>10, <2>1, ComponentFacts, BoundAssumption DEF RestartApi, TypeOK
  <2>3. LoopInv' /\ OneOpenIncident'
    BY <1>0, <1>10 DEF RestartApi, LoopInv, Looping, OneOpenIncident
  <2>4. \A c \in Component \ failed' : ~Open(c)' /\ results'[c] = "none"
    BY <1>10 DEF RestartApi, Open, Unknown
  <2>5. FollowInv'
    BY <1>10, <2>4, StatusFacts DEF RestartApi, FollowInv, Looping
  <2> QED
    BY <2>2, <2>3, <2>5 DEF IInv
<1>11. CASE UNCHANGED vars
  BY <1>0, <1>11
  DEF vars, IInv, TypeOK, LoopInv, Looping, Opens, Name, OneOpenIncident, FollowInv, Open, Passed
<1> QED
  BY <1>1, <1>2, <1>3, <1>5, <1>6, <1>7, <1>8, <1>9, <1>10, <1>11 DEF Next, Cycle

-----------------------------------------------------------------------------

\* Conditions, results and incident rows are well typed in every reachable state.
THEOREM TypeCorrect == Spec => []TypeOK
<1>1. IInv => TypeOK
  BY DEF IInv
<1> QED
  BY InvInit, InvStep, <1>1, PTL DEF Spec

\* One thread opens incidents, and it looks for an open row first: no restart and no order of
\* outages gives a component two unresolved rows with one title.
THEOREM OneOpen == Spec => []OneOpenIncident
<1>1. IInv => OneOpenIncident
  BY DEF IInv
<1> QED
  BY InvInit, InvStep, <1>1, PTL DEF Spec

\* The unresolved incidents follow what the probes found, component by component, as long as
\* no statement for the component fails and the API is not restarted over an open incident.
THEOREM Follows == Spec => []IncidentsFollowStatus
<1>1. IInv => IncidentsFollowStatus
  BY DEF IInv, FollowInv, IncidentsFollowStatus, Settled, Looping
<1> QED
  BY InvInit, InvStep, <1>1, PTL DEF Spec
=============================================================================
