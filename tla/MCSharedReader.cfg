CONSTANTS
    control = control
    service = service
    media = media
    Channels = {control, service, media}
    Receivers = {control, service}
    Intercepted = {media}
    MaxPromises = 1
    MaxMessages <- SharedMessages
    MaxFrames <- SharedFrames
    MaxWire = 1
    LosesFrames = FALSE

SPECIFICATION FairSpec

INVARIANTS
    NoFault
    WholeMessages
    OneReceiveInFlight
    NoWaiterBesideMessage

PROPERTIES
    ImplementsDelivery
    EventuallyDelivered

CHECK_DEADLOCK FALSE
