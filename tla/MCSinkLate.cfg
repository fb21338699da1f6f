\* The late injection is made twice while its row does not change.
SPECIFICATION Spec
CONSTANTS
    k1 = k1
    k2 = k2
    a1 = a1
    a2 = a2
    b1 = b1
    NoEvent = NoEvent
    Key <- MCKey
    Tables = 2
    TableOf <- MCTableOf
    Event <- MCEvent
    KeyOf <- MCKeyOf
    Lsn <- MCLsn
    Partition <- MCPartition
    Replays <- MCReplays
    Number <- MCNumber
    Body <- MCLateTwice
    Versions = 1
    Loadable <- MCLoadable
    Lateness = 1
    MaxLong = 9
    MaxMillis = 8
    MaxTries = 1
    MaxOffset = 3
    MaxCrashes = 0
    MaxEpochs = 2
INVARIANT
    OneBronzeRowPerEvent
CHECK_DEADLOCK FALSE
