SPECIFICATION FairSpec
CONSTANTS
    Kinds = {"Usb", "Uart", "Ble"}
    StreamSize = 2
    Streams = {"Usb", "Uart"}
INVARIANTS
    NoCallbackAfterClose
    SessionOutlivesItsUsers
PROPERTIES
    CloseEnds
    StopIsObeyed
    FeedIsHeard
