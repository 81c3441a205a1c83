CONSTANTS
    SampleCap = 100
    Names = {"baseline", "stress"}
    None = None
    MaxLines = 2
    Entries <- RateEntries
    Thresholds <- SignatureOnlyThresholds

INIT Init
NEXT Next

INVARIANT
    NoCheckWithoutBound

CHECK_DEADLOCK FALSE
