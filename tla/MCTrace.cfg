\* A trace or a reading of the lag beside the job, with a crash and a wiped checkpoint.
SPECIFICATION TraceSpec
CONSTANTS
    k1 = k1
    k2 = k2
    a1 = a1
    a2 = a2
    bad = bad
    NoEvent = NoEvent
    Key <- MCKey
    Tables = 1
    TableOf <- MCTableOf
    Event <- MCEvent
    KeyOf <- MCKeyOf
    Lsn <- MCLsn
    Partition <- MCPartition
    Replays <- MCReplays
    Number <- MCNumber
    Body <- MCBody
    Keyed <- MCKeyed
    Legible <- MCLegible
    Versions = 1
    Loadable <- MCLoadable
    Lateness = 1
    MaxLong = 9
    MaxMillis = 8
    MaxTries = 1
    MaxOffset = 2
    MaxCrashes = 1
    MaxEpochs = 2
    MaxEvents = 1
VIEW MCView
INVARIANTS
    CheckpointDoneIsCommitted
    SparkDoneIsVisible
    NoLagMeansStored
    SettledTraceIsFinal
    IndexAgrees
CHECK_DEADLOCK FALSE
