SPECIFICATION Spec
CONSTANTS
    Codec = "H265"
    Uuid <- Uuid1
    MetadataType = 25
    UsizeMax = 100000
    Radix = 3
    Packets <- SmallPackets
    Widths <- SmallWidths
    Notes <- Notes2
    MaxPut = 2
INVARIANTS ReadsBack BytesKept CarriersKept TemporalIdRepeats UnitLoops
PROPERTIES ImplementsCarrier
CHECK_DEADLOCK FALSE
