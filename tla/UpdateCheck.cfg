CONSTANTS
    Images = {"open", "private"}
    Private = {"private"}
    Lookups = 1
    Digests = {"index1", "index2", "image1", "image2"}
    Primary <- MCPrimary
    Platform <- MCPlatform
    MaxVersion = 3
    MaxChanges = 1
    MaxPushes = 1
    MaxFaults = 1
SPECIFICATION MCSpec
INVARIANT TypeOK
PROPERTIES RequestedIsChecked VerdictWasTrue BadgesConverge
