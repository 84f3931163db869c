SPECIFICATION FairSpec
CONSTANTS
    Nodes <- MCNodes
    Roots <- MCRoots
    FuncDepthMax = 2
    MaxLog = 3
INVARIANTS
    DepthsCountFrames
    LineMeansWhatItSays
PROPERTIES
    NothingStartsWhileHalted
    ExitUnwinds
