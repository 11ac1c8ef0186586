CONSTANTS
    control = control
    service = service
    media = media
    Channels = {control, media}
    Receivers = {control}
    Intercepted = {media}
    MaxPromises = 1
    MaxMessages <- TwoMessages
    MaxFrames <- ThreeFrames
    MaxWire = 2
    LosesFrames = FALSE

SPECIFICATION Spec

PROPERTY IntertwinedRejected

CHECK_DEADLOCK FALSE
