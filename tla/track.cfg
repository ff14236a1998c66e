SPECIFICATION Spec
CONSTANTS
    Codec = "H264"
    Uuid <- Uuid1
    MetadataType = 25
    UsizeMax = 100000
    Radix = 3
    SpsCounts = 4
    PpsCounts = 4
    Tracks <- SmallTracks
    Notes <- Notes2
    MaxPut = 2
INVARIANTS SetsKept CutIsRefused WidthIsDeclared ReadsUnderHeader HeaderSaysTheSps
CHECK_DEADLOCK FALSE
