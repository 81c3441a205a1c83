CONSTANTS
    SampleCap = 2
    Names = {"baseline", "stress"}
    None = None
    MaxLines = 4
    Entries <- MCEntries
    Thresholds = None

INIT Init
NEXT Next

INVARIANTS
    TypeOK
    CountersAreMaxObserved
    SamplesFromObservedAverages
    StatsMatchReference

\* The process exits after generate_report or a crash.
CHECK_DEADLOCK FALSE
