----------------------------- MODULE HandlerTables -----------------------------
(***************************************************************************)
(* What each handler of the interceptor does with a message, by message id *)
(* (Messenger/handlers/*.cpp).                                             *)
(*                                                                         *)
(* An entry says whether the payload is parsed first (a payload that does  *)
(* not parse is declined with nothing done), which effects follow, one by  *)
(* one, and whether the message is taken or declined for the messenger.    *)
(* An effect is a member that is stored, a test, or the id of an answer.   *)
(***************************************************************************)
EXTENDS Sequences

\* Two tables in one; the first counts where both have an entry.
f ++ g == [x \in DOMAIN f \cup DOMAIN g |-> IF x \in DOMAIN f THEN f[x] ELSE g[x]]

Request(effects) == [parsed |-> TRUE, does |-> effects, taken |-> TRUE]
Raw(effects) == [parsed |-> FALSE, does |-> effects, taken |-> TRUE]
Declined(effects) == [parsed |-> TRUE, does |-> effects, taken |-> FALSE]

\* Parsed, logged and taken.
Indication == Request(<<>>)
Indications(ids) == [id \in ids |-> Indication]

\* Channel open requests: most handlers keep the channel and its encryption.
Open == [open |-> Request(<<"OPEN_RESPONSE">>)]
OpenAndKeep == [open |-> Request(<<"channel", "encryption", "OPEN_RESPONSE">>)]

\* Any id the switch does not name.
Unknown == [other |-> Declined(<<>>)]

Effects ==
    {"channel", "encryption", "channelOpen", "session", "microphone", "noMicrophone",
     "testSession", "forward"}

-----------------------------------------------------------------------------
\* The sinks.  START, STOP and the focus request are looked at and declined.
Start == Declined(<<"session">>)
Stop == Declined(<<>>)

\* Mutant: no acknowledgement of a frame that is not wanted by the other side.
VideoDataWithoutAck == Raw(<<"testSession", "forward">>)

VideoData == Raw(<<"testSession", "forward", "ACK">>)
VideoCodecConfig == Raw(<<"testSession", "forward", "ACK">>)
VideoSetup == Request(<<"CONFIG", "VIDEO_FOCUS">>)

Video ==
    Open ++ Unknown ++
    [setup |-> VideoSetup, start |-> Start, stop |-> Stop, focus |-> Stop,
     codec |-> VideoCodecConfig, data |-> VideoData]

\* The audio sinks share the shape, not the code.
AudioSink(media) ==
    Open ++ Unknown ++ media ++
    [start |-> Start, stop |-> Stop, underflow |-> Raw(<<>>)]

MediaAudioMedia ==
    [setup |-> Request(<<"CONFIG">>),
     codec |-> Raw(<<"testSession", "forward", "ACK">>),
     data |-> Raw(<<"testSession", "forward", "ACK">>)]

MediaAudio == AudioSink(MediaAudioMedia)

GuidanceMedia ==
    [setup |-> Request(<<"CONFIG">>),
     codec |-> Raw(<<"testSession", "forward", "ACK">>),
     data |-> Raw(<<"testSession", "forward", "ACK">>)]

GuidanceAudio == AudioSink(GuidanceMedia)

SystemMedia ==
    [setup |-> Request(<<"CONFIG">>),
     codec |-> Raw(<<"testSession", "forward", "ACK">>),
     data |-> Raw(<<"testSession", "forward", "ACK">>)]

SystemAudio == AudioSink(SystemMedia)

TelephonyMedia ==
    [setup |-> Request(<<"CONFIG">>),
     codec |-> Raw(<<"testSession", "forward", "ACK">>),
     data |-> Raw(<<"testSession", "forward", "ACK">>)]

TelephonyAudio == AudioSink(TelephonyMedia)

-----------------------------------------------------------------------------
\* The sources, which also report what another process tells them.

\* Mutant: only an open request is looked at.
MicrophoneRequestIgnoresClose ==
    [microphoneOpen |-> Request(<<"microphone", "MICROPHONE_RESPONSE">>),
     microphoneClose |-> Request(<<"MICROPHONE_RESPONSE">>)]

MicrophoneRequest ==
    [microphoneOpen |-> Request(<<"microphone", "MICROPHONE_RESPONSE">>),
     microphoneClose |-> Request(<<"noMicrophone", "MICROPHONE_RESPONSE">>)]

MediaSource ==
    Unknown ++ MicrophoneRequest ++ Indications({"ack"}) ++
    [open |-> Request(<<"channel", "encryption", "channelOpen", "OPEN_RESPONSE">>),
     setup |-> Request(<<"SETUP">>)]

\* Mutant: the request is answered before channel and encryption are kept.
InputOpenAnswersFirst == [open |-> Request(<<"OPEN_RESPONSE", "channel", "encryption">>)]

InputOpen == OpenAndKeep

InputSource == InputOpen ++ Unknown ++ [keyBinding |-> Request(<<"KEY_BINDING_RESPONSE">>)]

\* sensorStop is the id SENSOR_MESSAGE_RESPONSE.
Sensor ==
    OpenAndKeep ++ Unknown ++ Indications({"sensorStop"}) ++
    [sensorStart |-> Request(<<"channel", "encryption", "SENSOR_RESPONSE">>)]

-----------------------------------------------------------------------------
\* Those that answer an open request and take the rest without an answer.

Bluetooth ==
    OpenAndKeep ++ Unknown ++ Indications({"authenticationResult"}) ++
    [pairing |-> Request(<<"PAIRING_RESPONSE", "AUTHENTICATION_DATA">>)]

PhoneStatus == OpenAndKeep ++ Unknown ++ Indications({"phoneStatus", "phoneStatusInput"})

GenericNotification ==
    OpenAndKeep ++ Unknown ++ Indications({"subscribe", "unsubscribe", "message", "ack"})

NavigationStatus ==
    OpenAndKeep ++ Unknown ++
    Indications({"status", "state", "currentPosition", "start", "stop"})

MediaBrowser ==
    OpenAndKeep ++ Unknown ++
    Indications({"rootNode", "sourceNode", "listNode", "songNode", "getNode", "browseInput"})

MediaPlaybackStatus ==
    OpenAndKeep ++ Unknown ++ Indications({"status", "metadata"}) ++ [input |-> Raw(<<>>)]

\* Tuning: who plays, and what is looked for and found.
RadioTuning ==
    {"activeRadio", "selectActiveRadio", "stepChannelRequest", "stepChannelResponse",
     "seekStationRequest", "seekStationResponse", "scanStationsRequest",
     "scanStationsResponse", "tuneToStationRequest", "tuneToStationResponse",
     "programListRequest", "programListResponse"}

\* The rest: presets, cancelled operations, spacing, mute, traffic, source, state.
RadioState ==
    {"stationPresets", "cancelRequest", "cancelResponse", "spacingRequest",
     "spacingResponse", "stationInfo", "muteRequest", "muteResponse",
     "trafficUpdateRequest", "trafficUpdateResponse", "radioSourceRequest",
     "radioSourceResponse", "stateNotification"}

Radio == OpenAndKeep ++ Unknown ++ Indications(RadioTuning \cup RadioState)

\* Every other id is a payload of the vendor's, which is taken as it is.
VendorExtension == OpenAndKeep ++ [other |-> Raw(<<>>)]

-----------------------------------------------------------------------------
\* The switch of handleMessage: the channels with a handler, and their handlers.
Table ==
    [MEDIA_SINK_VIDEO |-> Video,
     MEDIA_SINK_MEDIA_AUDIO |-> MediaAudio,
     MEDIA_SINK_GUIDANCE_AUDIO |-> GuidanceAudio,
     MEDIA_SINK_SYSTEM_AUDIO |-> SystemAudio,
     MEDIA_SINK_TELEPHONY_AUDIO |-> TelephonyAudio,
     INPUT_SOURCE |-> InputSource,
     SENSOR |-> Sensor,
     BLUETOOTH |-> Bluetooth,
     MEDIA_SOURCE_MICROPHONE |-> MediaSource,
     PHONE_STATUS |-> PhoneStatus,
     GENERIC_NOTIFICATION |-> GenericNotification,
     NAVIGATION_STATUS |-> NavigationStatus,
     RADIO |-> Radio,
     MEDIA_BROWSER |-> MediaBrowser,
     MEDIA_PLAYBACK_STATUS |-> MediaPlaybackStatus,
     VENDOR_EXTENSION |-> VendorExtension]

\* The order in which setMessageSender comes to them.
SinkOrder ==
    <<"MEDIA_SINK_VIDEO", "MEDIA_SINK_MEDIA_AUDIO", "MEDIA_SINK_GUIDANCE_AUDIO",
      "MEDIA_SINK_SYSTEM_AUDIO", "MEDIA_SINK_TELEPHONY_AUDIO">>

LastOrder ==
    <<"BLUETOOTH", "MEDIA_SOURCE_MICROPHONE", "PHONE_STATUS", "GENERIC_NOTIFICATION",
      "NAVIGATION_STATUS", "RADIO", "MEDIA_BROWSER", "MEDIA_PLAYBACK_STATUS",
      "VENDOR_EXTENSION">>

\* Mutant: one object is forgotten.
SetOrderForgetsSensor == SinkOrder \o <<"INPUT_SOURCE">> \o LastOrder

SetOrder == SinkOrder \o <<"INPUT_SOURCE", "SENSOR">> \o LastOrder
=============================================================================
