SPECIFICATION Spec
CONSTANTS
    Unit = {1, 2, 3, 4}
    Figures <- figures
    None = None
    Rankings = {"amount", "turnover"}
    Projections = {"SUMMARY", "DETAIL"}
    ChunkSize = 2
    TopN = 1
    MaxAttempts = 2
    MaxChanges = 1
INVARIANTS TypeOK MergedIsOneReading ComparisonIsWhole ProgressIsTrue
CHECK_DEADLOCK FALSE
