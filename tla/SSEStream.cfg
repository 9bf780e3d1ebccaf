SPECIFICATION FairSpec
CONSTANTS
    MaxEvents = 3
    Lasting = FALSE
INVARIANT GotIsPrefix
PROPERTIES
    WriterStops
    OfferIsTaken
CHECK_DEADLOCK FALSE
