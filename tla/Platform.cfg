CONSTANTS
    Threads = 2
    StackWords = 10
    FrameWords = 8
    MaxValue = 1
    MaxTraps = 1
    KEY_QUEUE_LEN = 3
    Keys = {"A", "?"}
    Mapped = {"A"}
    KeyBound = 4
    Low = 2
    MaxTime = 7
    ScreenW = 3
    ScreenH = 2
    Draws <- McDraws
    Arrays <- McArrays
    PAGE_SIZE = 4
    IO_SPACE_MAX = 21
    NR_MAP = 2
    Devices <- McDevices
    Accesses <- McAccesses
    WriteBound = 2
    Typed <- McTyped
    TypedBound = 3
    Ps2Depth = 3
    UartDepth = 2
    FlashSize = 16
    SocSize = 40
    Programs <- McPrograms
    Images <- McImages
    MROM_SIZE = 6
    FLASH_SIZE = 8
    SRAM_SIZE = 2
    PatternWords = 3
    Commands <- McCommands
    MaxCommands = 5
    UART_BIT_TICKS = 4
    Chars = {0, 90, 255}
    MaxChars = 3
    Hot <- McHot
    Counts = {2, 5}
    Heights = {1, 3}
    Resized <- McResized
    MaxResizes = 1
    MAX_LEN = 3
    BoxWidth = 2
    Inits <- McInits
    Texts <- McTexts
SPECIFICATION Spec
INVARIANTS
    TransfersExact
    ThreadsResume
    DevicesFaithful
    MemoryKept
    SimFaithful
    ProgramLoaded
    DialogsFaithful
PROPERTIES
    CallsReturn
CHECK_DEADLOCK FALSE
