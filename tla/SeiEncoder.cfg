CONSTANTS
    Bytes <- SmallBytes
    PayloadLength = 6
    HeadLength = 2
    BufferLength = 11
SPECIFICATION SeiSpec
INVARIANTS SeiReadable
