SPECIFICATION FairSpec
CONSTANTS
    MaxEvents = 2
    Lasting = TRUE
PROPERTY DisconnectEndsHandler
CHECK_DEADLOCK FALSE
