SPECIFICATION Spec
CONSTANTS
    Nodes <- MCNodes
    Roots <- MCRoots
    FuncDepthMax = 2
    MaxLog = 3
INVARIANT KilledPipelineStopsLoop
