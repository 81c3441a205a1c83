CONSTANTS
    Names = {"a", "b"}
    Metrics = {"delivery_rate", "avg_latency_ms"}
    Values = {85, 90, 1500}
    None = None
    MaxFiles = 2
    MaxLines = 4
    ErrorLimit = 1
    ReadFaults = {"io"}
    Entries <- MCEntries
    Configs <- MCConfigs

INIT Init
NEXT Next

INVARIANTS
    TypeOK
    RunsMatchSpec
    VerdictReflectsAssertions
    ExitStatusReflectsFailures

PROPERTIES
    VerdictMonotonic
    ScenarioRunsSafety

\* The analyzer exits: "done" and "crashed" are its final states.
CHECK_DEADLOCK FALSE
