CONSTANTS
    SampleCap = 100
    Names = {"baseline", "stress"}
    None = None
    MaxLines = 2
    Entries <- BaselineEntries
    Thresholds = None

INIT Init
NEXT Next

INVARIANT
    BaselineScenarioPasses

CHECK_DEADLOCK FALSE
