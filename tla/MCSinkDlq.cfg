\* The DLQ and its replays, while contracts change, the driver crashes and a checkpoint is wiped.
SPECIFICATION Spec
CONSTANTS
    k1 = k1
    a1 = a1
    a2 = a2
    bad = bad
    NoEvent = NoEvent
    Key <- MCKey
    Tables = 1
    TableOf <- MCTableOf
    Event <- MCEvent
    KeyOf <- MCKeyOf
    Lsn <- MCLsn
    Partition <- MCPartition
    Replays <- MCReplays
    Number <- MCNumber
    Body <- MCBody
    Versions = 3
    Loadable <- MCLoadable
    Lateness = 1
    MaxLong = 9
    MaxMillis = 8
    MaxTries = 1
    MaxOffset = 2
    MaxCrashes = 1
    MaxEpochs = 2
INVARIANTS
    NothingLost
    ReplaysAreAnswered
    ReplayedIsInBronze
    ReplayAttemptsAreReplays
    UninterruptedReplayResolves
PROPERTIES
    KeepsPromise
CHECK_DEADLOCK FALSE
