\* Commits that conflict or are unknown, one crash, a wiped checkpoint; progress through them.
SPECIFICATION FairSpec
CONSTANTS
    k1 = k1
    k2 = k2
    a1 = a1
    a2 = a2
    b1 = b1
    NoEvent = NoEvent
    Key <- MCKey
    Tables = 2
    TableOf <- MCTableOf
    Event <- MCEvent
    KeyOf <- MCKeyOf
    Lsn <- MCLsn
    Partition <- MCPartition
    Replays <- MCReplays
    Number <- MCNumber
    Body <- MCBody
    Versions = 1
    Loadable <- MCLoadable
    Lateness = 1
    MaxLong = 9
    MaxMillis = 8
    MaxTries = 2
    MaxOffset = 3
    MaxCrashes = 1
    MaxEpochs = 2
INVARIANTS
    TypeOK
    OneBronzeRowPerEvent
    SilverCoversBronze
    WatermarkCacheFresh
    RecordMatchesBronze
    LabelsSurviveCrash
    SettledMatchesSource
PROPERTIES
    RecordsAreRepeatable
    ConvertibleRecordsAreStored
CHECK_DEADLOCK FALSE
