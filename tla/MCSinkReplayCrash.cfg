\* The contracts change between two attempts of a batch that holds a replay.
SPECIFICATION Spec
CONSTANTS
    k1 = k1
    a1 = a1
    a2 = a2
    bad = bad
    NoEvent = NoEvent
    Key <- MCKey
    Tables = 1
    TableOf <- MCTableOf
    Event <- MCEvent
    KeyOf <- MCKeyOf
    Lsn <- MCLsn
    Partition <- MCPartition
    Replays <- MCReplays
    Number <- MCNumber
    Body <- MCFixable
    Versions = 3
    Loadable <- MCLoadable
    Lateness = 1
    MaxLong = 9
    MaxMillis = 8
    MaxTries = 1
    MaxOffset = 2
    MaxCrashes = 1
    MaxEpochs = 1
INVARIANT
    AcceptedReplayResolves
CHECK_DEADLOCK FALSE
