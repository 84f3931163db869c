SPECIFICATION ToolsSpec
CONSTANTS
    MaxStops = 3
    Pipelines <- MCPipelines
    MaxFd = 8
    TtyFd = 8
    MaxDepth = 2
    MaxJobs = 2
    Codes = {1}
    Frames <- MCFrames
    Filters <- MCFilters
    MaxFrames = 3
    FRAME_MAX = 60
    Wrap = 10
    Lens = {1, 6}
    Headers <- MCHeaders
    SectionHeaders <- MCSections
    SegmentHeaders <- MCSegments
    NameOffsets = {0, 2}
    EHDR_SIZE = 2
    SHDR_SIZE = 2
    PHDR_SIZE = 1
    SYM_SIZE = 1
    CHIP8_MEM = 6
    ROM_BASE = 2
    FONT_BASE = 1
    GLYPH_BYTES = 2
    STACK_DEPTH = 2
    Wrap16 = 10
    Bytes = {3, 4}
    Addresses = {0, 3, 5}
    Nibbles = {0, 1, 2}
    CHIP8_H = 2
    KEYS = {1, 2}
    STEP_NS = 2
    TIMER_NS = 3
    KEY_HOLD_NS = 3
    CATCHUP_NS = 4
    MaxTime = 7
INVARIANTS
    LeavesTerminalAsFound
    StopsSane
    DescriptorsAccounted
    WiredAsWritten
    CaptureAccounted
    ReadsInFile
    GivesBack
    StaysInMemory
    LoopKeepsTime
PROPERTIES
    RawComesBack
    PipelineEnds
    CaptureStops
CHECK_DEADLOCK FALSE
