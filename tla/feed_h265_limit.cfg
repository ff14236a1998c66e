SPECIFICATION RunSpec
CONSTANTS
    Codec = "H265"
    Kind = "Nal"
    Uuid <- Uuid1
    MetadataType = 25
    UsizeMax = 100000
    Requested = 11
    Floor = 8
    Streams <- Long265
    Sources = {}
    Chunks <- AnySize
INVARIANTS TypeOK FootprintBounded HeldIsTail IndexTrailsPlace SpansDisjoint RoomIsEnough EndsAtBoundary PayloadsIntact
PROPERTIES CallReturns
