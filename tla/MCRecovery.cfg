\* Request files against both threads of the driver, with a death of its own.
SPECIFICATION FairSpec
CONSTANTS
    Request <- MCRequest
    Action <- MCAction
    Batches = 3
    Applied <- MCApplied
    MaxKills = 1
INVARIANTS
    OneExitPerRequest
    FiredBatchIsRepeated
    ExitsAreAcknowledged
PROPERTIES
    RequestsAreTaken
    BatchesAreCommitted
CHECK_DEADLOCK FALSE
