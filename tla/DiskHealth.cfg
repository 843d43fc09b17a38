CONSTANTS
    Disks = {"sda", "sdb"}
    MaxChanges = 2
    MaxFaults = 1
    FaultKinds = {"query", "fetch", "upsert", "read", "sidecar", "restart"}
SPECIFICATION FairSpec
PROPERTIES StandbyKeepsVerdict ShownConverges
