\* The sink and the reference model, with redelivery and two crashes.
SPECIFICATION Spec
CONSTANTS
    k1 = k1
    a1 = a1
    a2 = a2
    a3 = a3
    NoEvent = NoEvent
    Key <- MCKey
    Tables = 1
    TableOf <- MCTableOf
    Event <- MCEvent
    KeyOf <- MCKeyOf
    Lsn <- MCLsn
    Partition <- MCPartition
    Replays <- MCReplays
    Number <- MCNumber
    Body <- MCBody
    Versions = 1
    Loadable <- MCLoadable
    Lateness = 1
    MaxLong = 9
    MaxMillis = 8
    MaxTries = 1
    MaxOffset = 2
    MaxCrashes = 2
    MaxEpochs = 1
INVARIANTS
    PlanMatchesReference
    AppendsMatchReference
    PlanSurvivesOwnWrites
PROPERTIES
    MergeMatchesReference
CHECK_DEADLOCK FALSE
