CONSTANTS
    web = web
    Ids = {web}
    MaxChanges = 4
    MaxFaults = 2
SPECIFICATION FairSpec
PROPERTIES OnlyOldAnswersMislead MemoryConverges TableConverges
