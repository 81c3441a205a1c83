CONSTANTS
    SampleCap = 100
    Names = {"baseline", "stress"}
    None = None
    MaxLines = 2
    Entries <- OrderEntries
    Thresholds <- SignatureOnlyThresholds

INIT Init
NEXT Next

INVARIANT
    SplitOrderIndependent

CHECK_DEADLOCK FALSE
