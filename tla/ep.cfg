SPECIFICATION Spec
CONSTANTS
    Payload <- ToldApart
    MaxLen = 7
INVARIANTS RoundTrip NoStartCode EscapesOnlyWhenNeeded ClosedForms
CHECK_DEADLOCK FALSE
