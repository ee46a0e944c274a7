CONSTANTS
    ValNum = 20
    WORDS_PER_LINE = 2
    LINE_NUM = 2
    CacheableTags = {1, 2}
    ClintTags = {3}
    Reg = {0, 1}
    Decode <- MCDecode
    BitOr <- MCBitOr
    MtimeHalf = 1
    MtimeLo = 12
    MtimeHi = 13
    FaultAddr = {}
    ErrData = {0}
    ResetPc = 0
    MstatusReset = 8
    NopInst = 0
    Programs <- Programs1

SPECIFICATION Spec

INVARIANTS
    OneResponder
    ResponseAwaited
    WriteHandover
    RefillInStep
    FetchCorrect
PROPERTIES
    RequestsStable
    ImplementsNemu
