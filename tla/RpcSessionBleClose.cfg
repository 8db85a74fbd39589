SPECIFICATION Spec
CONSTANTS
    Kinds = {"Ble"}
    StreamSize = 2
    Streams = {}
INVARIANT
    CloseEndsCallbacks
