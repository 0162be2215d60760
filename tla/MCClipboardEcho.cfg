CONSTANTS
    Text = {"a", "b"}
    Empty = "none"
    MaxInFlight = 2
SPECIFICATION Spec
PROPERTIES
    NeverEchoes
CHECK_DEADLOCK TRUE
