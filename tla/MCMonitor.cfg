\* Outages of either component and of the control database, and a restart of the API.
SPECIFICATION FairSpec
CONSTANTS
    Components <- MCComponents
    Server = "postgres"
    MaxChanges = 4
    MaxRestarts = 1
INVARIANTS
    OneOpenIncident
    IncidentsFollowStatus
PROPERTY
    LastingOutageIsRecorded
