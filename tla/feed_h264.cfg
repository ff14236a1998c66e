SPECIFICATION Spec
CONSTANTS
    Codec = "H264"
    Kind = "Nal"
    Uuid <- Uuid1
    MetadataType = 25
    UsizeMax = 100000
    Requested = 100
    Floor = 8
    Streams <- Whole264AndWoven
    Sources <- Encoded264
    Chunks <- AnySize
INVARIANTS SameAsFileReader NothingKeptBack SpansTile WovenComesOut
PROPERTIES OneDrainIsEnough
