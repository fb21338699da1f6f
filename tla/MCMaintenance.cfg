\* Two runs, which may overlap, beside the stream.
SPECIFICATION Spec
CONSTANTS
    airflow = airflow
    cli = cli
    Runner <- MCRunner
    Lossy = TRUE
    SnapshotRetention = 0
    OrphanRetention = 0
    MaxCommits = 3
    MaxFiles <- MCMaxFiles
    MaxRuns = 2
    MaxClock = 1
SYMMETRY MCSymmetry
INVARIANTS
    EvidenceIsTrue
    NoFileMissing
CHECK_DEADLOCK FALSE
