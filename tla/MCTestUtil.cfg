CONSTANTS
    MaxStr = 200
    BytesPerLine = 16
    AddrBits = 28
    Indents <- MCIndents
    Offsets <- MCOffsets
    Sizes <- MCSizes
SPECIFICATION TestSpec
INVARIANT RandModCovers
INVARIANT RandModUniform
PROPERTY PrintsWholeLines
PROPERTY DumpRefines
