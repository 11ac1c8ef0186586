CONSTANTS
    control = control
    service = service
    media = media
    Channels = {control, media}
    Receivers = {control}
    Intercepted = {media}
    MaxPromises = 2
    MaxMessages <- TwoMessages
    MaxFrames <- TwoFrames
    MaxWire = 1
    LosesFrames = TRUE

SPECIFICATION Spec

INVARIANT
    NoStaleHead

CHECK_DEADLOCK FALSE
