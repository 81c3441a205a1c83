CONSTANTS
    Names = {"a", "b"}
    Metrics = {"delivery_rate", "avg_latency_ms"}
    Values = {85, 90, 1500}
    None = None
    MaxFiles = 2
    MaxLines = 4
    ErrorLimit = 1
    ReadFaults = {}
    Entries <- MCEntries
    Configs <- MCConfigs

INIT Init
NEXT Next

INVARIANT
    CheckPassIsPositiveSignal

CHECK_DEADLOCK FALSE
