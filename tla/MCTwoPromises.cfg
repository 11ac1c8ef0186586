CONSTANTS
    control = control
    service = service
    media = media
    Channels = {control, media}
    Receivers = {control}
    Intercepted = {media}
    MaxPromises = 2
    MaxMessages <- TwoMessages
    MaxFrames <- ThreeFrames
    MaxWire = 2
    LosesFrames = FALSE

SPECIFICATION Spec

INVARIANT OnlyOneReceiveAtATime

CHECK_DEADLOCK FALSE
