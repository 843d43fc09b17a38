CONSTANTS
    stats = stats
    Bucket = 2
    RawWindow = 2
    Retention = 3
    LogRetention = 2
    Writers = {stats}
    Kinds = {"alert", "container"}
    Ranges = {1, 2, 3}
    MaxTime = 4
    MaxRewinds = 1
SPECIFICATION Spec
INVARIANTS WatermarkSplits ShortChartIsComplete NothingLost
PROPERTY RowsNeverShrink
