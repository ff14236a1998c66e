SPECIFICATION Spec
CONSTANTS
    Codec = "H265"
    Kind = "Nal"
    Uuid <- Uuid1
    MetadataType = 25
    UsizeMax = 100000
    Requested = 40
    Floor = 8
    Streams <- SuffixBetween
    Sources = {}
    Chunks <- AnySize
INVARIANT SuffixFollows
