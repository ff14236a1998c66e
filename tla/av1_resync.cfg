SPECIFICATION Spec
CONSTANTS
    Codec = "H264"
    Kind = "Av1"
    Uuid <- Uuid1
    MetadataType = 25
    UsizeMax = 16000
    Requested = 10
    Floor = 8
    Streams <- HidesHeaders
    Sources = {}
    Chunks <- AnySize
INVARIANT StartsAtObu
