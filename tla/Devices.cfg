CONSTANTS
    SbufSize = 3
    StreamLen = 2
    PlayLens = {1, 3}
    SeqNum = 4
    U32 = 16
    Addr <- MCAddr
    Byte <- MCByte
    Flash <- MCFlash
    NoAddr = NoAddr
    SoftwareWaits = TRUE
    EvenLengths = TRUE

SPECIFICATION DevSpec

INVARIANTS
    CountInRange
    XipReadsFlash

PROPERTIES
    PlayedInOrder
    PlayReturns
    XipAnswers
