SPECIFICATION Spec
CONSTANTS
    EntriesPerBuffer = 2
    SectorBytes = 2
    ClusterSectors = 1
    SlotsPerSector = 4
    MaxFaults = 2
    Volumes <- MCVolumes
    Paths <- MCPaths
    MaxSizes <- MCMaxSizes
INVARIANTS FileAsStored FoundUnlessCut
PROPERTY Answered
CHECK_DEADLOCK FALSE
