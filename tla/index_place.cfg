SPECIFICATION Spec
CONSTANTS
    Codec = "H265"
    Kind = "Nal"
    Uuid <- Uuid1
    MetadataType = 25
    UsizeMax = 100000
    Requested = 11
    Floor = 8
    Streams <- OneLong
    Sources = {}
    Chunks <- AnySize
INVARIANT IndexIsDecodeOrder
