SPECIFICATION Spec
CONSTANTS
    Codec = "H264"
    Kind = "Av1"
    Uuid <- Uuid1
    MetadataType = 25
    UsizeMax = 16000
    Requested = 100
    Floor = 8
    Streams <- WholeWovenAndCut
    Sources <- EncodedAv1
    Chunks <- AnySize
INVARIANTS SameAsFileReader NothingKeptBack SpansTile WovenComesOut TruncatedLosesOnlyTheLast

