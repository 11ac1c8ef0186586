----------------------------- MODULE ChannelProofs -----------------------------
(***************************************************************************)
(* Proofs about the interceptor's handlers and the service channels, for   *)
(* any loads.  First what the tables of the handlers have in common; then  *)
(* IInv, which gives the types, the sender of each object and what a       *)
(* handler that runs may count on; then, on top of it, one invariant for   *)
(* each question.                                                          *)
(***************************************************************************)
EXTENDS ServiceChannel, FiniteSetTheorems, SequenceTheorems, TLAPS

(***************************************************************************)
(* The tables.  Whatever the channel, an open request is answered last, by *)
(* an open response; media are tested, forwarded and acknowledged; nothing *)
(* else is answered with either.                                           *)
(***************************************************************************)
OpenEntries ==
    {Request(<<"OPEN_RESPONSE">>),
     Request(<<"channel", "encryption", "OPEN_RESPONSE">>),
     Request(<<"channel", "encryption", "channelOpen", "OPEN_RESPONSE">>)}

MediaEntries == {Raw(<<"testSession", "forward", "ACK">>)}

\* What else is done when a message is taken.
OtherEffects ==
    {<<>>, <<"CONFIG">>, <<"CONFIG", "VIDEO_FOCUS">>, <<"SETUP">>,
     <<"microphone", "MICROPHONE_RESPONSE">>, <<"noMicrophone", "MICROPHONE_RESPONSE">>,
     <<"KEY_BINDING_RESPONSE">>, <<"channel", "encryption", "SENSOR_RESPONSE">>,
     <<"PAIRING_RESPONSE", "AUTHENTICATION_DATA">>}

OtherEntries ==
    {Raw(<<>>), Declined(<<>>), Declined(<<"session">>)} \cup
    {Request(d) : d \in OtherEffects}

\* The entries that an id may have, in any table.
Entries(id) ==
    IF id = "open" THEN OpenEntries
    ELSE IF id \in {"codec", "data"} THEN MediaEntries ELSE OtherEntries

Regular(f) == \A id \in DOMAIN f : f[id] \in Entries(id)

\* Two regular tables in one are regular.
LEMMA RegularTogether ==
  ASSUME NEW f, NEW g, Regular(f), Regular(g)
  PROVE  Regular(f ++ g)
BY DEF Regular, ++

\* Indications are regular where no open request and no media is among them.
LEMMA RegularIndications ==
  ASSUME NEW ids, {"open", "codec", "data"} \cap ids = {}
  PROVE  Regular(Indications(ids))
BY DEF Regular, Indications, Indication, Entries, OtherEntries, OtherEffects

\* The pieces that the tables share.
LEMMA RegularPieces ==
  Regular(Open) /\ Regular(OpenAndKeep) /\ Regular(Unknown)
BY DEF Regular, Open, OpenAndKeep, Unknown, Entries, OpenEntries, OtherEntries,
       OtherEffects

\* The sinks.
LEMMA RegularSinks ==
  /\ Regular(Video) /\ Regular(MediaAudio) /\ Regular(GuidanceAudio)
  /\ Regular(SystemAudio) /\ Regular(TelephonyAudio)
<1>1. Regular([setup |-> VideoSetup, start |-> Start, stop |-> Stop, focus |-> Stop,
               codec |-> VideoCodecConfig, data |-> VideoData])
  BY DEF Regular, VideoSetup, Start, Stop, VideoCodecConfig, VideoData, Entries,
         MediaEntries, OtherEntries, OtherEffects
<1>2. Regular(Video)
  BY <1>1, RegularPieces, RegularTogether DEF Video
<1>3. Regular([start |-> Start, stop |-> Stop, underflow |-> Raw(<<>>)])
  BY DEF Regular, Start, Stop, Entries, OtherEntries, OtherEffects
<1>4. ASSUME NEW media, Regular(media)
      PROVE  Regular(AudioSink(media))
  BY <1>3, <1>4, RegularPieces, RegularTogether DEF AudioSink
<1>5. /\ Regular(MediaAudioMedia) /\ Regular(GuidanceMedia)
      /\ Regular(SystemMedia) /\ Regular(TelephonyMedia)
  BY DEF Regular, MediaAudioMedia, GuidanceMedia, SystemMedia, TelephonyMedia, Entries,
         MediaEntries, OtherEntries, OtherEffects
<1> QED
  BY <1>2, <1>4, <1>5 DEF MediaAudio, GuidanceAudio, SystemAudio, TelephonyAudio

\* The sources.
LEMMA RegularSources ==
  Regular(MediaSource) /\ Regular(InputSource) /\ Regular(Sensor)
<1>1. Regular(MicrophoneRequest)
  BY DEF Regular, MicrophoneRequest, Entries, OtherEntries, OtherEffects
<1>2. Regular([open |-> Request(<<"channel", "encryption", "channelOpen", "OPEN_RESPONSE">>),
               setup |-> Request(<<"SETUP">>)])
  BY DEF Regular, Entries, OpenEntries, OtherEntries, OtherEffects
<1>3. Regular([keyBinding |-> Request(<<"KEY_BINDING_RESPONSE">>)])
  BY DEF Regular, Entries, OtherEntries, OtherEffects
<1>4. Regular([sensorStart |-> Request(<<"channel", "encryption", "SENSOR_RESPONSE">>)])
  BY DEF Regular, Entries, OtherEntries, OtherEffects
<1>5. Regular(Indications({"ack"})) /\ Regular(Indications({"sensorStop"}))
  BY RegularIndications
<1>6. Regular(MediaSource)
  BY <1>1, <1>2, <1>5, RegularPieces, RegularTogether DEF MediaSource
<1>7. Regular(InputSource)
  BY <1>3, RegularPieces, RegularTogether DEF InputSource, InputOpen
<1>8. Regular(Sensor)
  BY <1>4, <1>5, RegularPieces, RegularTogether DEF Sensor
<1> QED
  BY <1>6, <1>7, <1>8

\* The others.
LEMMA RegularOthers ==
  /\ Regular(Bluetooth) /\ Regular(PhoneStatus) /\ Regular(GenericNotification)
  /\ Regular(NavigationStatus) /\ Regular(Radio) /\ Regular(MediaBrowser)
  /\ Regular(MediaPlaybackStatus) /\ Regular(VendorExtension)
<1>1. Regular([pairing |-> Request(<<"PAIRING_RESPONSE", "AUTHENTICATION_DATA">>)])
  BY DEF Regular, Entries, OtherEntries, OtherEffects
<1>2. Regular([input |-> Raw(<<>>)]) /\ Regular([other |-> Raw(<<>>)])
  BY DEF Regular, Entries, OtherEntries, OtherEffects
<1>3. Regular(Bluetooth)
  <2>1. Regular(Indications({"authenticationResult"}))
    BY RegularIndications
  <2> QED
    BY <1>1, <2>1, RegularPieces, RegularTogether DEF Bluetooth
<1>4. Regular(PhoneStatus)
  <2>1. Regular(Indications({"phoneStatus", "phoneStatusInput"}))
    BY RegularIndications
  <2> QED
    BY <2>1, RegularPieces, RegularTogether DEF PhoneStatus
<1>5. Regular(GenericNotification)
  <2>1. Regular(Indications({"subscribe", "unsubscribe", "message", "ack"}))
    BY RegularIndications
  <2> QED
    BY <2>1, RegularPieces, RegularTogether DEF GenericNotification
<1>6. Regular(NavigationStatus)
  <2>1. Regular(Indications({"status", "state", "currentPosition", "start", "stop"}))
    BY RegularIndications
  <2> QED
    BY <2>1, RegularPieces, RegularTogether DEF NavigationStatus
<1>7. Regular(Radio)
  <2>1. Regular(Indications(RadioTuning \cup RadioState))
    BY RegularIndications DEF RadioTuning, RadioState
  <2> QED
    BY <2>1, RegularPieces, RegularTogether DEF Radio
<1>8. Regular(MediaBrowser)
  <2>1. Regular(Indications({"rootNode", "sourceNode", "listNode", "songNode", "getNode",
                             "browseInput"}))
    BY RegularIndications
  <2> QED
    BY <2>1, RegularPieces, RegularTogether DEF MediaBrowser
<1>9. Regular(MediaPlaybackStatus)
  <2>1. Regular(Indications({"status", "metadata"}))
    BY RegularIndications
  <2> QED
    BY <1>2, <2>1, RegularPieces, RegularTogether DEF MediaPlaybackStatus
<1>10. Regular(VendorExtension)
  BY <1>2, RegularPieces, RegularTogether DEF VendorExtension
<1> QED
  BY <1>3, <1>4, <1>5, <1>6, <1>7, <1>8, <1>9, <1>10

AudioSinks ==
    {"MEDIA_SINK_MEDIA_AUDIO", "MEDIA_SINK_GUIDANCE_AUDIO", "MEDIA_SINK_SYSTEM_AUDIO",
     "MEDIA_SINK_TELEPHONY_AUDIO"}

\* Every handler has a case for open requests and for ids it does not know, those
\* of the audio sinks for media.
LEMMA Cases ==
  ASSUME NEW c \in DOMAIN Table
  PROVE  /\ {"open", "other"} \subseteq DOMAIN Table[c]
         /\ c \in AudioSinks => {"codec", "data"} \subseteq DOMAIN Table[c]
<1>1. /\ {"open", "other"} \subseteq DOMAIN Video
      /\ {"open", "other"} \subseteq DOMAIN InputSource
      /\ {"open", "other"} \subseteq DOMAIN Sensor
      /\ {"open", "other"} \subseteq DOMAIN Bluetooth
      /\ {"open", "other"} \subseteq DOMAIN MediaSource
  BY DEF ++, Open, OpenAndKeep, Unknown, Video, InputOpen, InputSource, Sensor, Bluetooth,
         MediaSource
<1>2. /\ {"open", "other"} \subseteq DOMAIN PhoneStatus
      /\ {"open", "other"} \subseteq DOMAIN GenericNotification
      /\ {"open", "other"} \subseteq DOMAIN NavigationStatus
      /\ {"open", "other"} \subseteq DOMAIN Radio
      /\ {"open", "other"} \subseteq DOMAIN MediaBrowser
      /\ {"open", "other"} \subseteq DOMAIN MediaPlaybackStatus
      /\ {"open", "other"} \subseteq DOMAIN VendorExtension
  BY DEF ++, OpenAndKeep, Unknown, PhoneStatus, GenericNotification, NavigationStatus,
         Radio, MediaBrowser, MediaPlaybackStatus, VendorExtension
<1>3. /\ {"open", "other", "codec", "data"} \subseteq DOMAIN MediaAudio
      /\ {"open", "other", "codec", "data"} \subseteq DOMAIN GuidanceAudio
      /\ {"open", "other", "codec", "data"} \subseteq DOMAIN SystemAudio
      /\ {"open", "other", "codec", "data"} \subseteq DOMAIN TelephonyAudio
  BY DEF ++, Open, Unknown, AudioSink, MediaAudio, GuidanceAudio, SystemAudio,
         TelephonyAudio, MediaAudioMedia, GuidanceMedia, SystemMedia, TelephonyMedia
<1>4. Table[c] \in {Video, InputSource, Sensor, Bluetooth, MediaSource, PhoneStatus,
                    GenericNotification, NavigationStatus, Radio, MediaBrowser,
                    MediaPlaybackStatus, VendorExtension}
        \/ Table[c] \in {MediaAudio, GuidanceAudio, SystemAudio, TelephonyAudio}
  BY DEF Table
<1>5. c \in AudioSinks =>
        Table[c] \in {MediaAudio, GuidanceAudio, SystemAudio, TelephonyAudio}
  BY DEF Table, AudioSinks
<1> QED
  BY <1>1, <1>2, <1>3, <1>4, <1>5

\* What the services have cases for, and what their cases do.
LEMMA ServiceCases ==
  ASSUME NEW c \in DOMAIN Services
  PROVE  /\ c \notin AudioSinks => {"codec", "data"} \cap DOMAIN Services[c].ids = {}
         /\ c # "MEDIA_BROWSER" =>
              \A id \in DOMAIN Services[c].ids :
                Services[c].ids[id] \in {"event", "raw", "timestamped"}
<1>1. /\ DOMAIN AudioMediaSinkService.ids
           = {"open", "setup", "start", "stop", "codec", "data"}
      /\ \A id \in DOMAIN AudioMediaSinkService.ids :
           AudioMediaSinkService.ids[id] \in {"event", "raw", "timestamped"}
  BY DEF AudioMediaSinkService, Events, ++
<1>2. c \in AudioSinks => Services[c] = AudioMediaSinkService
  BY DEF Services, AudioSinks
<1>3. c \notin AudioSinks /\ c # "MEDIA_BROWSER" =>
        Services[c] \in {MediaSourceService, BluetoothService, NavigationStatusService,
                         MediaPlaybackStatusService, SensorSourceService,
                         InputSourceService, WifiProjectionService, RadioService,
                         PhoneStatusService, VendorExtensionService,
                         GenericNotificationService}
  BY DEF Services, AudioSinks
<1>4. \A x \in {MediaSourceService, BluetoothService, NavigationStatusService,
                MediaPlaybackStatusService, SensorSourceService, InputSourceService,
                WifiProjectionService, RadioService, PhoneStatusService,
                VendorExtensionService, GenericNotificationService} :
        \E ids : /\ x.ids = Events(ids) /\ {"codec", "data"} \cap ids = {}
  BY DEF MediaSourceService, BluetoothService, NavigationStatusService,
         MediaPlaybackStatusService, SensorSourceService, InputSourceService,
         WifiProjectionService, RadioService, PhoneStatusService, VendorExtensionService,
         GenericNotificationService
<1>5. DOMAIN MediaBrowserService.ids = {"open"}
  BY DEF MediaBrowserService
<1>6. CASE c \in AudioSinks
  BY <1>1, <1>2, <1>6 DEF AudioSinks
<1>7. CASE c \notin AudioSinks /\ c # "MEDIA_BROWSER"
  <2>1. PICK ids : Services[c].ids = Events(ids) /\ {"codec", "data"} \cap ids = {}
    BY <1>3, <1>4, <1>7
  <2> QED
    BY <1>7, <2>1 DEF Events
<1>8. CASE c = "MEDIA_BROWSER"
  BY <1>5, <1>8 DEF Services, AudioSinks
<1> QED
  BY <1>6, <1>7, <1>8

\* The answers that requests are counted by.
Replies == {"OPEN_RESPONSE", "ACK"}

\* The requests that are answered so: those of these ids that the handler takes.
Answers(id, e) == e.taken /\ id \in {"open", "codec", "data"}

\* What a handler may do, by name.
EffectNames ==
    Effects \cup Replies \cup
    {"CONFIG", "VIDEO_FOCUS", "SETUP", "MICROPHONE_RESPONSE", "KEY_BINDING_RESPONSE",
     "SENSOR_RESPONSE", "PAIRING_RESPONSE", "AUTHENTICATION_DATA"}

\* None of the others tests the session, opens the microphone's channel or replies.
LEMMA OtherEffectsAreQuiet ==
  ASSUME NEW d \in OtherEffects
  PROVE  /\ d \in Seq(EffectNames)
         /\ \A i \in 1..Len(d) : d[i] \notin {"testSession", "channelOpen"} /\ d[i] \notin Replies
<1>1. CASE d = <<>>
  BY <1>1 DEF EffectNames, Effects, Replies
<1>2. CASE d = <<"CONFIG">>
  BY <1>2 DEF EffectNames, Effects, Replies
<1>3. CASE d = <<"CONFIG", "VIDEO_FOCUS">>
  BY <1>3 DEF EffectNames, Effects, Replies
<1>4. CASE d = <<"SETUP">>
  BY <1>4 DEF EffectNames, Effects, Replies
<1>5. CASE d = <<"microphone", "MICROPHONE_RESPONSE">>
  BY <1>5 DEF EffectNames, Effects, Replies
<1>6. CASE d = <<"noMicrophone", "MICROPHONE_RESPONSE">>
  BY <1>6 DEF EffectNames, Effects, Replies
<1>7. CASE d = <<"KEY_BINDING_RESPONSE">>
  BY <1>7 DEF EffectNames, Effects, Replies
<1>8. CASE d = <<"channel", "encryption", "SENSOR_RESPONSE">>
  BY <1>8 DEF EffectNames, Effects, Replies
<1>9. CASE d = <<"PAIRING_RESPONSE", "AUTHENTICATION_DATA">>
  BY <1>9 DEF EffectNames, Effects, Replies
<1> QED
  BY <1>1, <1>2, <1>3, <1>4, <1>5, <1>6, <1>7, <1>8, <1>9 DEF OtherEffects

\* What every entry has in common: who declines sends nothing, the test is the
\* first effect, and a request is answered by one of its effects.
LEMMA EntryFacts ==
  ASSUME NEW id, NEW e \in Entries(id)
  PROVE  /\ e \in [parsed : BOOLEAN, does : Seq(EffectNames), taken : BOOLEAN]
         /\ ~e.taken => \A i \in 1..Len(e.does) : e.does[i] \in Effects
         /\ \A i \in 1..Len(e.does) : e.does[i] = "testSession" => i = 1
         /\ \A i, j \in 1..Len(e.does) :
              e.does[i] \in Replies /\ e.does[j] \in Replies => i = j
         /\ Answers(id, e) <=> \E i \in 1..Len(e.does) : e.does[i] \in Replies
         /\ \A i \in 1..Len(e.does) : e.does[i] = "testSession" => Answers(id, e)
<1>1. CASE id = "open"
  <2>1. e \in OpenEntries
    BY <1>1 DEF Entries
  <2>2. PICK d : e = Request(d)
    BY <2>1 DEF OpenEntries
  <2>3. e = [parsed |-> TRUE, does |-> d, taken |-> TRUE]
    BY <2>2 DEF Request
  <2>4. d \in {<<"OPEN_RESPONSE">>, <<"channel", "encryption", "OPEN_RESPONSE">>,
               <<"channel", "encryption", "channelOpen", "OPEN_RESPONSE">>}
    BY <2>1, <2>3 DEF OpenEntries, Request
  <2>5. d \in Seq(EffectNames) /\ Len(d) \in Nat \ {0} /\ d[Len(d)] = "OPEN_RESPONSE"
        /\ \A i \in 1..Len(d) :
             i # Len(d) => d[i] \in {"channel", "encryption", "channelOpen"}
    <3>1. CASE d = <<"OPEN_RESPONSE">>
      BY <3>1 DEF EffectNames, Effects, Replies
    <3>2. CASE d = <<"channel", "encryption", "OPEN_RESPONSE">>
      BY <3>2 DEF EffectNames, Effects, Replies
    <3>3. CASE d = <<"channel", "encryption", "channelOpen", "OPEN_RESPONSE">>
      BY <3>3 DEF EffectNames, Effects, Replies
    <3> QED
      BY <2>4, <3>1, <3>2, <3>3
  <2>6. Len(d) \in 1..Len(d)
    BY <2>5
  <2>7. \A i \in 1..Len(d) : d[i] # "testSession" /\ (d[i] \in Replies <=> i = Len(d))
    BY <2>5 DEF Replies
  <2> QED
    BY <1>1, <2>3, <2>5, <2>6, <2>7 DEF Answers
<1>2. CASE id \in {"codec", "data"}
  <2>1. e = Raw(<<"testSession", "forward", "ACK">>)
    BY <1>2 DEF Entries, MediaEntries
  <2>2. e.does[3] \in Replies /\ Len(e.does) = 3 /\ e.taken
    BY <2>1 DEF Raw, Replies
  <2> QED
    BY <1>2, <2>1, <2>2 DEF Raw, Replies, Answers, EffectNames, Effects
<1>3. CASE id \notin {"open", "codec", "data"}
  <2>1. e \in OtherEntries
    BY <1>3 DEF Entries
  <2>2. CASE \E d \in OtherEffects : e = Request(d)
    <3>1. PICK d \in OtherEffects : e = Request(d)
      BY <2>2
    <3>2. /\ d \in Seq(EffectNames)
          /\ \A i \in 1..Len(d) : d[i] # "testSession" /\ d[i] \notin Replies
      BY OtherEffectsAreQuiet
    <3> QED
      BY <1>3, <3>1, <3>2 DEF Request, Answers
  <2>3. CASE e \in {Raw(<<>>), Declined(<<>>), Declined(<<"session">>)}
    <3>1. PICK d \in {<<>>, <<"session">>} : e = Raw(<<>>) \/ e = Declined(d)
      BY <2>3
    <3>2. /\ d \in Seq(EffectNames) /\ <<>> \in Seq(EffectNames) /\ Len(<<>>) = 0
          /\ \A i \in 1..Len(d) :
               d[i] \in Effects /\ d[i] # "testSession" /\ d[i] \notin Replies
      <4>1. CASE d = <<>>
        BY <4>1
      <4>2. CASE d = <<"session">>
        BY <4>2 DEF EffectNames, Effects, Replies
      <4> QED
        BY <4>1, <4>2
    <3>3. CASE e = Raw(<<>>)
      BY <1>3, <3>3 DEF Raw, Answers
    <3>4. CASE e = Declined(d)
      BY <1>3, <3>2, <3>4 DEF Declined, Answers
    <3> QED
      BY <3>1, <3>3, <3>4
  <2> QED
    BY <2>1, <2>2, <2>3 DEF OtherEntries
<1> QED
  BY <1>1, <1>2, <1>3

\* The entry of an id that the channel names.
LEMMA EntryOfNamed ==
  ASSUME NEW c \in DOMAIN Table, NEW id \in Named(c)
  PROVE  Entry(c, id) \in Entries(id)
<1>1. Regular(Table[c])
  <2>1. Table[c] \in {Video, MediaAudio, GuidanceAudio, SystemAudio, TelephonyAudio,
                      InputSource, Sensor, Bluetooth, MediaSource, PhoneStatus,
                      GenericNotification, NavigationStatus, Radio, MediaBrowser,
                      MediaPlaybackStatus, VendorExtension}
    BY DEF Table
  <2> QED
    BY <2>1, RegularSinks, RegularSources, RegularOthers
<1>2. CASE id \in DOMAIN Table[c]
  BY <1>1, <1>2 DEF Entry, Regular
<1>3. CASE id \notin DOMAIN Table[c]
  <2>1. c \in DOMAIN Services /\ id \in DOMAIN Services[c].ids
    BY <1>3 DEF Named
  <2>2. id \notin {"open", "codec", "data"}
    BY <1>3, <2>1, Cases, ServiceCases
  <2>3. Table[c]["other"] \in Entries("other")
    BY <1>1, Cases DEF Regular
  <2> QED
    BY <1>3, <2>2, <2>3 DEF Entry, Entries
<1> QED
  BY <1>2, <1>3

(***************************************************************************)
(* The handlers.  The messages are those of the load; what runs in a       *)
(* session was started by a message to an object of the load, whose sender *)
(* is that of this session or of the one behind it.                        *)
(***************************************************************************)
Objects == Live \cap DOMAIN Table

Messages ==
    {m \in [class : Live, id : UNION {load.ids[c] : c \in Live}, payload : Payloads,
            encryption : Encryptions, session : Nat, answered : BOOLEAN] :
       m.id \in load.ids[m.class]}

Numbers == Nat \X Nat

Members ==
    [channel : BOOLEAN, encryption : Encryptions, session : Numbers,
     channelOpen : BOOLEAN, microphone : BOOLEAN]

TypesKept ==
    /\ load \in Loads /\ created \in Nat
    /\ sender \in [Live -> Nat]
    /\ object \in [Live -> Members]
    /\ started \in [Live -> [Sessions -> Nat]]
    /\ requested \in [Live -> SUBSET Encryptions]
    /\ running = [s \in Sessions |-> running[s]]
    /\ handled \in [Sessions -> Nat]
    /\ queue \in Seq(Messages)

\* An object that setMessageSender comes to later has the sender before.
SendersKept ==
    /\ setting \subseteq Live
    /\ \A c \in Objects :
         /\ sender[c] <= created /\ created <= sender[c] + 1
         /\ c \notin setting => sender[c] = created

RunKept(s) ==
    LET r == running[s]
    IN  r # Idle =>
          /\ r = [class |-> r.class, message |-> r.message, todo |-> r.todo]
          /\ r.class \in Objects /\ r.message \in Messages /\ r.message.class = r.class
          /\ r.todo \in Seq(EffectNames)
          /\ Reading(s)

RunsKept == \A s \in Sessions : RunKept(s)

SentKept == sent # Nothing /\ sent.from # 0 => sent.from <= sent.to

IInv == TypesKept /\ SendersKept /\ RunsKept /\ SentKept

\* The load stays what it is, and with it the channels, objects and messages.
LEMMA SameLoad ==
  ASSUME load' = load
  PROVE  /\ Live' = Live /\ Objects' = Objects /\ Messages' = Messages
         /\ Sessions' = Sessions
BY DEF Live, Objects, Messages, Sessions

\* Sessions are numbers, and every object is in the order of setMessageSender.
LEMMA SessionNumbers ==
  ASSUME load \in Loads, NEW s \in Sessions
  PROVE  s \in Nat \ {0}
<1>1. load.sessions \in Nat
  BY LoadsAssumption
<1> QED
  BY <1>1 DEF Sessions

LEMMA EveryObjectIsSet ==
  ASSUME NEW c \in DOMAIN Table
  PROVE  c \in {SetOrder[i] : i \in DOMAIN SetOrder}
<1>1. c \in {"MEDIA_SINK_VIDEO", "MEDIA_SINK_MEDIA_AUDIO", "MEDIA_SINK_GUIDANCE_AUDIO",
             "MEDIA_SINK_SYSTEM_AUDIO", "MEDIA_SINK_TELEPHONY_AUDIO", "INPUT_SOURCE",
             "SENSOR", "BLUETOOTH", "MEDIA_SOURCE_MICROPHONE", "PHONE_STATUS",
             "GENERIC_NOTIFICATION", "NAVIGATION_STATUS", "RADIO", "MEDIA_BROWSER",
             "MEDIA_PLAYBACK_STATUS", "VENDOR_EXTENSION"}
  BY DEF Table
<1>2. DOMAIN SetOrder = 1..16
  BY DEF SetOrder, SinkOrder, LastOrder
<1>3. /\ SetOrder[1] = "MEDIA_SINK_VIDEO" /\ SetOrder[2] = "MEDIA_SINK_MEDIA_AUDIO"
      /\ SetOrder[3] = "MEDIA_SINK_GUIDANCE_AUDIO"
      /\ SetOrder[4] = "MEDIA_SINK_SYSTEM_AUDIO"
      /\ SetOrder[5] = "MEDIA_SINK_TELEPHONY_AUDIO"
      /\ SetOrder[6] = "INPUT_SOURCE" /\ SetOrder[7] = "SENSOR"
  BY DEF SetOrder, SinkOrder, LastOrder
<1>4. /\ SetOrder[8] = "BLUETOOTH" /\ SetOrder[9] = "MEDIA_SOURCE_MICROPHONE"
      /\ SetOrder[10] = "PHONE_STATUS" /\ SetOrder[11] = "GENERIC_NOTIFICATION"
      /\ SetOrder[12] = "NAVIGATION_STATUS" /\ SetOrder[13] = "RADIO"
      /\ SetOrder[14] = "MEDIA_BROWSER" /\ SetOrder[15] = "MEDIA_PLAYBACK_STATUS"
      /\ SetOrder[16] = "VENDOR_EXTENSION"
  BY DEF SetOrder, SinkOrder, LastOrder
<1> QED
  BY <1>1, <1>2, <1>3, <1>4

\* A message that goes to the queue leaves it a queue of messages.
LEMMA DeclineTypes ==
  ASSUME IInv, NEW m \in Messages, Decline(m)
  PROVE  queue' \in Seq(Messages)
BY AppendProperties DEF Decline, IInv, TypesKept

\* What follows an effect.
LEMMA RestOfEffects ==
  ASSUME NEW t \in Seq(EffectNames), t # <<>>
  PROVE  /\ Tail(t) \in Seq(EffectNames) /\ Head(t) = t[1] /\ Head(t) \in EffectNames
         /\ Len(Tail(t)) = Len(t) - 1 /\ Len(t) \in Nat \ {0}
         /\ \A i \in 1..Len(Tail(t)) : i + 1 \in 1..Len(t) /\ Tail(t)[i] = t[i + 1]
BY HeadTailProperties, LenProperties

\* The effects that a handler has left to do, as a set.
Left(t) == {t[i] : i \in 1..Len(t)}

LEMMA LeftOfRest ==
  ASSUME NEW t \in Seq(EffectNames), t # <<>>
  PROVE  Left(t) = {Head(t)} \cup Left(Tail(t))
<1>1. /\ Head(t) = t[1] /\ Len(Tail(t)) = Len(t) - 1 /\ Len(t) \in Nat \ {0}
      /\ \A i \in 1..Len(Tail(t)) : i + 1 \in 1..Len(t) /\ Tail(t)[i] = t[i + 1]
  BY RestOfEffects
<1>2. ASSUME NEW e \in Left(t)
      PROVE  e \in {Head(t)} \cup Left(Tail(t))
  <2>1. PICK i \in 1..Len(t) : t[i] = e
    BY <1>2 DEF Left
  <2>2. CASE i = 1
    BY <1>1, <2>1, <2>2
  <2>3. CASE i # 1
    <3>1. i - 1 \in 1..Len(Tail(t)) /\ i = (i - 1) + 1
      BY <1>1, <2>1, <2>3
    <3>2. Tail(t)[i - 1] = e
      BY <1>1, <2>1, <3>1
    <3> QED
      BY <3>1, <3>2 DEF Left
  <2> QED
    BY <2>2, <2>3
<1>3. ASSUME NEW e \in Left(Tail(t))
      PROVE  e \in Left(t)
  <2>1. PICK i \in 1..Len(Tail(t)) : Tail(t)[i] = e
    BY <1>3 DEF Left
  <2> QED
    BY <1>1, <2>1 DEF Left
<1>4. Head(t) \in Left(t)
  BY <1>1 DEF Left
<1> QED
  BY <1>2, <1>3, <1>4

\* A step of one session leaves what runs in the others as it was.
LEMMA OthersRunOn ==
  ASSUME IInv, NEW s \in Sessions, load' = load, created' = created, setting' = setting,
         running' = [running EXCEPT ![s] = running'[s]], RunKept(s)'
  PROVE  RunsKept' /\ running' = [t \in Sessions |-> running'[t]]
<1>1. running = [t \in Sessions |-> running[t]]
  BY DEF IInv, TypesKept
<1>2. running' = [t \in Sessions |-> running'[t]]
  BY <1>1
<1>3. ASSUME NEW t \in Sessions, t # s
      PROVE  RunKept(t)'
  <2>1. running'[t] = running[t]
    BY <1>1, <1>3
  <2>2. RunKept(t)
    BY DEF IInv, RunsKept
  <2> QED
    BY <2>1, <2>2, SameLoad DEF RunKept, Reading
<1> QED
  BY <1>2, <1>3, SameLoad DEF RunsKept

\* The sender of the object that a handler runs in.
LEMMA SenderOfRunning ==
  ASSUME IInv, NEW s \in Sessions, running[s] # Idle
  PROVE  sender[running[s].class] \in Nat /\ s <= sender[running[s].class]
<1>1. /\ running[s].class \in Objects /\ Reading(s)
  BY DEF IInv, RunsKept, RunKept
<1>2. PICK c \in Objects : c = running[s].class
  BY <1>1
<1>3. /\ sender[c] \in Nat /\ created \in Nat /\ sender[c] <= created
      /\ created <= sender[c] + 1 /\ (c \notin setting => sender[c] = created)
  BY DEF IInv, TypesKept, SendersKept, Objects
<1>4. s \in Nat
  BY SessionNumbers DEF IInv, TypesKept
<1>5. s < created \/ (s = created /\ setting = {})
  BY <1>1 DEF Reading
<1> QED
  BY <1>2, <1>3, <1>4, <1>5

(***************************************************************************)
(* The interceptor keeps IInv.                                             *)
(***************************************************************************)
LEMMA InitInv ==
  ASSUME Init
  PROVE  IInv
<1>1. load \in Loads /\ created = 0 /\ setting = {} /\ queue = <<>> /\ sent = Nothing
  BY DEF Init, InterceptorInit
<1>2. /\ sender = [c \in Live |-> 0] /\ object = [c \in Live |-> NewObject]
      /\ started = [c \in Live |-> [s \in Sessions |-> 0]]
      /\ requested = [c \in Live |-> {}]
      /\ running = [s \in Sessions |-> Idle] /\ handled = [s \in Sessions |-> 0]
  BY DEF Init, InterceptorInit
<1>3. NewObject \in Members
  BY DEF NewObject, Members, NoSession, Numbers, Encryptions
<1>4. TypesKept
  BY <1>1, <1>2, <1>3 DEF TypesKept
<1>5. SendersKept
  BY <1>1, <1>2 DEF SendersKept, Objects
<1>6. RunsKept
  BY <1>2 DEF RunsKept, RunKept
<1>7. SentKept
  BY <1>1 DEF SentKept
<1> QED
  BY <1>4, <1>5, <1>6, <1>7 DEF IInv

\* A session is made when every object has the sender of the one before.
LEMMA CreateSessionInv ==
  ASSUME IInv, CreateSession
  PROVE  IInv'
<1>1. /\ setting = {} /\ created' = created + 1 /\ load' = load
      /\ setting' = {SetOrder[i] : i \in DOMAIN SetOrder} \cap Live
      /\ UNCHANGED <<sender, object, running, handled, queue, sent, started, requested>>
  BY DEF CreateSession
<1>2. Live' = Live /\ Objects' = Objects /\ Messages' = Messages /\ Sessions' = Sessions
  BY <1>1, SameLoad
<1>3. TypesKept'
  BY <1>1, <1>2 DEF IInv, TypesKept
<1>4. SendersKept'
  <2>1. ASSUME NEW c \in Objects
        PROVE  sender[c] = created /\ created \in Nat /\ c \in setting'
    BY <1>1, EveryObjectIsSet DEF IInv, SendersKept, TypesKept, Objects
  <2> QED
    BY <1>1, <1>2, <2>1 DEF SendersKept
<1>5. RunsKept'
  <2>1. ASSUME NEW s \in Sessions
        PROVE  RunKept(s)'
    <3>1. RunKept(s) /\ s \in Nat /\ created \in Nat
      BY SessionNumbers DEF IInv, RunsKept, TypesKept
    <3>2. Reading(s) => Reading(s)'
      BY <1>1, <3>1 DEF Reading
    <3> QED
      BY <1>1, <1>2, <3>1, <3>2 DEF RunKept
  <2> QED
    BY <1>2, <2>1 DEF RunsKept
<1>6. SentKept'
  BY <1>1, <1>2 DEF IInv, SentKept
<1> QED
  BY <1>3, <1>4, <1>5, <1>6 DEF IInv

\* An object is given the sender.
LEMMA SetMessageSenderInv ==
  ASSUME IInv, SetMessageSender
  PROVE  IInv'
<1>1. PICK c : /\ c \in setting /\ sender' = [sender EXCEPT ![c] = created]
               /\ setting' = setting \ {c}
  BY DEF SetMessageSender
<1>2. UNCHANGED <<load, created, object, running, handled, queue, sent, started, requested>>
  BY DEF SetMessageSender
<1>3. Live' = Live /\ Objects' = Objects /\ Messages' = Messages /\ Sessions' = Sessions
  BY <1>2, SameLoad
<1>4. c \in Live /\ created \in Nat /\ sender \in [Live -> Nat]
  BY <1>1 DEF IInv, SendersKept, TypesKept
<1>5. TypesKept'
  BY <1>1, <1>2, <1>3, <1>4 DEF IInv, TypesKept
<1>6. SendersKept'
  <2>1. ASSUME NEW d \in Objects
        PROVE  /\ sender'[d] <= created' /\ created' <= sender'[d] + 1
               /\ d \notin setting' => sender'[d] = created'
    BY <1>1, <1>2, <1>4 DEF IInv, SendersKept, Objects
  <2>2. setting' \subseteq Live
    BY <1>1 DEF IInv, SendersKept
  <2> QED
    BY <1>3, <2>1, <2>2 DEF SendersKept
<1>7. RunsKept'
  <2>1. \A s \in Sessions : Reading(s) => Reading(s)'
    BY <1>1, <1>2 DEF Reading
  <2> QED
    BY <1>2, <1>3, <2>1 DEF IInv, RunsKept, RunKept
<1>8. SentKept'
  BY <1>2, <1>3 DEF IInv, SentKept
<1> QED
  BY <1>5, <1>6, <1>7, <1>8 DEF IInv

\* A message of the load begins a handler, which has the effects of its entry to do.
LEMMA HandleBegins ==
  ASSUME IInv, NEW s \in Sessions, NEW c \in Live, NEW id \in load.ids[c],
         NEW p \in Payloads, NEW x \in load.encryptions, NEW n \in Carried(id),
         Handle(s, Message(c, id, p, x, n))
  PROVE  /\ Message(c, id, p, x, n) \in Messages /\ id \in Named(c)
         /\ Reading(s) /\ running[s] = Idle
         /\ load' = load /\ created' = created /\ setting' = setting
         /\ handled' \in [Sessions -> Nat]
         /\ UNCHANGED <<sender, object, sent, opened, busy, report, owed, given>>
         /\ \/ /\ Decline(Message(c, id, p, x, n))
               /\ UNCHANGED <<running, started, requested>>
            \/ /\ c \in Objects /\ Entry(c, id) \in Entries(id) /\ queue' = queue
               /\ running' = [running EXCEPT ![s] =
                                [class |-> c, message |-> Message(c, id, p, x, n),
                                 todo |-> Entry(c, id).does]]
               /\ started' = IF Has(Entry(c, id), "session")
                             THEN [started EXCEPT ![c][s] = n] ELSE started
               /\ requested' = IF Has(Entry(c, id), "encryption")
                               THEN [requested EXCEPT ![c] = @ \cup {x}] ELSE requested
<1>1. PICK m : m = Message(c, id, p, x, n)
  OBVIOUS
<1>2. /\ m.class = c /\ m.id = id /\ m.payload = p /\ ~m.answered
      /\ m.encryption = x /\ m.session = n
  BY <1>1 DEF Message
<1>0. m \in Messages
  <2>1. x \in Encryptions /\ n \in Nat
    BY LoadsAssumption DEF IInv, TypesKept, Carried
  <2> QED
    BY <1>1, <2>1 DEF Message, Messages
<1>3. id \in Named(c)
  BY LoadsAssumption DEF IInv, TypesKept, Live
<1>4. /\ Reading(s) /\ running[s] = Idle
      /\ handled' = [handled EXCEPT ![s] = @ + 1]
      /\ UNCHANGED <<load, created, setting, sender, object, sent, opened, busy, report,
                     owed, given>>
      /\ \/ Decline(m) /\ UNCHANGED <<running, started, requested>>
         \/ /\ c \in DOMAIN Table /\ queue' = queue
            /\ running' = [running EXCEPT ![s] =
                             [class |-> c, message |-> m, todo |-> Entry(c, id).does]]
            /\ started' = IF Has(Entry(c, id), "session")
                          THEN [started EXCEPT ![c][s] = n] ELSE started
            /\ requested' = IF Has(Entry(c, id), "encryption")
                            THEN [requested EXCEPT ![c] = @ \cup {x}] ELSE requested
  BY <1>1, <1>2 DEF Handle
<1>5. handled' \in [Sessions -> Nat]
  BY <1>4 DEF IInv, TypesKept
<1> QED
  BY <1>0, <1>1, <1>2, <1>3, <1>4, <1>5, EntryOfNamed DEF Objects

\* What the histories keep of it.
LEMMA HandleHistories ==
  ASSUME IInv, NEW s \in Sessions, NEW c \in Live, NEW id \in load.ids[c],
         NEW p \in Payloads, NEW x \in load.encryptions, NEW n \in Carried(id),
         Handle(s, Message(c, id, p, x, n))
  PROVE  /\ started' \in [Live -> [Sessions -> Nat]]
         /\ requested' \in [Live -> SUBSET Encryptions]
         /\ \A d \in Live : requested[d] \subseteq requested'[d]
<1>1. x \in Encryptions /\ n \in Nat
  BY LoadsAssumption DEF IInv, TypesKept, Carried
<1>2. started' = started \/ started' = [started EXCEPT ![c][s] = n]
  BY HandleBegins
<1>3. requested' = requested \/ requested' = [requested EXCEPT ![c] = @ \cup {x}]
  BY HandleBegins
<1>4. started' \in [Live -> [Sessions -> Nat]]
  <2>1. started \in [Live -> [Sessions -> Nat]]
    BY DEF IInv, TypesKept
  <2>2. PICK f : f = [started[c] EXCEPT ![s] = n]
    OBVIOUS
  <2>3. f \in [Sessions -> Nat]
    <3>1. started[c] \in [Sessions -> Nat]
      BY <2>1
    <3> QED
      BY <1>1, <2>2, <3>1
  <2>4. started' = started \/ started' = [started EXCEPT ![c] = f]
    BY <1>2, <2>2
  <2> QED
    BY <2>1, <2>3, <2>4
<1>5. /\ requested' \in [Live -> SUBSET Encryptions]
      /\ \A d \in Live : requested[d] \subseteq requested'[d]
  BY <1>1, <1>3 DEF IInv, TypesKept
<1> QED
  BY <1>4, <1>5

LEMMA HandleInv ==
  ASSUME IInv, NEW s \in Sessions, NEW c \in Live, NEW id \in load.ids[c],
         NEW p \in Payloads, NEW x \in load.encryptions, NEW n \in Carried(id),
         Handle(s, Message(c, id, p, x, n))
  PROVE  IInv'
<1>1. PICK m \in Messages : m = Message(c, id, p, x, n)
  BY HandleBegins
<1>2. m.class = c
  BY <1>1 DEF Message
<1>3. /\ Reading(s) /\ load' = load /\ created' = created /\ setting' = setting
      /\ handled' \in [Sessions -> Nat]
      /\ UNCHANGED <<sender, object, sent>>
      /\ \/ running' = running /\ Decline(m)
         \/ /\ c \in Objects /\ Entry(c, id) \in Entries(id) /\ queue' = queue
            /\ running' = [running EXCEPT ![s] =
                             [class |-> c, message |-> m, todo |-> Entry(c, id).does]]
  BY <1>1, HandleBegins
<1>4. Live' = Live /\ Objects' = Objects /\ Messages' = Messages /\ Sessions' = Sessions
  BY <1>3, SameLoad
<1>5. RunsKept' /\ running' = [t \in Sessions |-> running'[t]]
  <2>1. CASE running' = running
    <3>1. RunsKept'
      BY <1>3, <1>4, <2>1 DEF IInv, RunsKept, RunKept, Reading
    <3> QED
      BY <2>1, <3>1 DEF IInv, TypesKept
  <2>2. CASE /\ c \in Objects /\ Entry(c, id) \in Entries(id)
             /\ running' = [running EXCEPT ![s] =
                              [class |-> c, message |-> m, todo |-> Entry(c, id).does]]
    <3>1. Entry(c, id).does \in Seq(EffectNames)
      BY <2>2, EntryFacts
    <3>2. running'[s] = [class |-> c, message |-> m, todo |-> Entry(c, id).does]
      BY <2>2 DEF IInv, TypesKept
    <3>3. RunKept(s)'
      BY <1>1, <1>2, <1>3, <1>4, <2>2, <3>1, <3>2 DEF RunKept, Reading
    <3>4. running' = [running EXCEPT ![s] = running'[s]]
      BY <2>2, <3>2
    <3> QED
      BY <1>3, <3>3, <3>4, OthersRunOn
  <2> QED
    BY <1>3, <2>1, <2>2
<1>6. queue' \in Seq(Messages)
  BY <1>3, DeclineTypes DEF IInv, TypesKept
<1>7. TypesKept'
  BY <1>3, <1>4, <1>5, <1>6, HandleHistories DEF IInv, TypesKept
<1>8. SendersKept' /\ SentKept'
  BY <1>3, <1>4 DEF IInv, SendersKept, SentKept
<1> QED
  BY <1>5, <1>7, <1>8 DEF IInv

\* What a step of a handler starts from.
LEMMA RunFacts ==
  ASSUME IInv, NEW s \in Sessions, running[s] # Idle
  PROVE  /\ running[s].class \in Objects /\ running[s].class \in Live
         /\ running[s].message \in Messages /\ running[s].message.class = running[s].class
         /\ running[s].message.id \in Named(running[s].class)
         /\ running[s].todo \in Seq(EffectNames)
         /\ running[s] = [class |-> running[s].class, message |-> running[s].message,
                          todo |-> running[s].todo]
         /\ Reading(s)
<1>1. RunKept(s)
  BY DEF IInv, RunsKept
<1>2. /\ running[s].class \in Objects /\ running[s].message \in Messages
      /\ running[s].message.class = running[s].class
  BY <1>1 DEF RunKept
<1>3. running[s].message.id \in load.ids[running[s].class] /\ running[s].class \in Live
  BY <1>2 DEF Messages, Objects
<1>4. load.ids[running[s].class] \subseteq Named(running[s].class)
  BY <1>3, LoadsAssumption DEF IInv, TypesKept, Live
<1> QED
  BY <1>1, <1>2, <1>3, <1>4 DEF RunKept

\* What runs in a session is kept when it is made of such parts.
LEMMA RunMade ==
  ASSUME load' = load, created' = created, setting' = setting,
         NEW s \in Sessions, Reading(s), NEW c \in Objects, NEW m \in Messages, m.class = c,
         NEW t \in Seq(EffectNames), running'[s] = [class |-> c, message |-> m, todo |-> t]
  PROVE  RunKept(s)'
BY SameLoad DEF RunKept, Reading

\* The same with something else to do.
LEMMA RestSet ==
  ASSUME NEW c, NEW m, NEW t, NEW u
  PROVE  [[class |-> c, message |-> m, todo |-> t] EXCEPT !.todo = u]
           = [class |-> c, message |-> m, todo |-> u]
OBVIOUS

\* The handler goes on to what follows the effect.
LEMMA AdvanceRuns ==
  ASSUME IInv, NEW s \in Sessions, running[s] # Idle, running[s].todo # <<>>,
         load' = load, created' = created, setting' = setting, Advance(s)
  PROVE  /\ running' = [running EXCEPT ![s] = running'[s]]
         /\ running'[s].class = running[s].class
         /\ running'[s].message = running[s].message
         /\ running'[s].todo = Tail(running[s].todo)
         /\ RunsKept' /\ running' = [t \in Sessions |-> running'[t]]
<1>1. running' = [running EXCEPT ![s].todo = Tail(@)]
  BY DEF Advance
<1>2. running'[s] = [running[s] EXCEPT !.todo = Tail(@)]
  BY <1>1 DEF IInv, TypesKept
<1>3. running' = [running EXCEPT ![s] = running'[s]]
  BY <1>1, <1>2 DEF IInv, TypesKept
<1>4. PICK c \in Objects, m \in Messages, t \in Seq(EffectNames) :
        /\ m.class = c /\ t # <<>> /\ Reading(s)
        /\ running[s] = [class |-> c, message |-> m, todo |-> t]
  BY RunFacts
<1>5. running'[s] = [class |-> c, message |-> m, todo |-> Tail(t)]
  BY <1>2, <1>4
<1>6. RunKept(s)'
  BY <1>4, <1>5, RestOfEffects, RunMade
<1>7. /\ running'[s].class = running[s].class /\ running'[s].message = running[s].message
      /\ running'[s].todo = Tail(running[s].todo)
  BY <1>4, <1>5
<1> QED
  BY <1>3, <1>6, <1>7, OthersRunOn

\* The handler returns.
LEMMA IdleRuns ==
  ASSUME IInv, NEW s \in Sessions, load' = load, created' = created, setting' = setting,
         running' = [running EXCEPT ![s] = Idle]
  PROVE  RunsKept' /\ running' = [t \in Sessions |-> running'[t]] /\ running'[s] = Idle
<1>1. running'[s] = Idle
  BY DEF IInv, TypesKept
<1>2. RunKept(s)'
  BY <1>1 DEF RunKept
<1>3. running' = [running EXCEPT ![s] = running'[s]]
  BY <1>1
<1> QED
  BY <1>1, <1>2, <1>3, OthersRunOn

\* How the members of the object change with effect e of a handler for message m.
Changes(s, e, m, old, new) ==
    /\ new.session = IF e = "session" THEN <<s, m.session>> ELSE old.session
    /\ new.encryption = IF e = "encryption" THEN m.encryption ELSE old.encryption
    /\ new.channelOpen = IF e = "channelOpen" THEN TRUE ELSE old.channelOpen
    /\ new.microphone = IF e = "microphone" THEN TRUE
                        ELSE IF e = "noMicrophone" THEN FALSE ELSE old.microphone

\* START is stored.
LEMMA SessionStored ==
  ASSUME IInv, NEW s \in Sessions, running[s] # Idle, StoreSession(s)
  PROVE  \E c \in Objects, o \in Members :
           /\ c = running[s].class /\ c \in Live
           /\ object' = [object EXCEPT ![c] = o]
           /\ Changes(s, "session", running[s].message, object[c], o)
           /\ Advance(s) /\ UNCHANGED <<queue, busy, sent, opened, given>>
<1>1. PICK c \in Objects, n \in Nat :
        c = running[s].class /\ c \in Live /\ n = running[s].message.session
  BY RunFacts DEF Messages
<1>2. PICK o : o = [object[c] EXCEPT !.session = <<s, n>>]
  OBVIOUS
<1>3. /\ object' = [object EXCEPT ![c] = o]
      /\ UNCHANGED <<queue, busy, sent, opened, given>> /\ Advance(s)
  BY <1>1, <1>2 DEF StoreSession, Store
<1>4. <<s, n>> \in Numbers
  BY SessionNumbers DEF Numbers, IInv, TypesKept
<1>5. object[c] \in Members
  BY <1>1 DEF IInv, TypesKept
<1>6. /\ o \in Members /\ o.session = <<s, n>>
      /\ o.encryption = object[c].encryption /\ o.microphone = object[c].microphone
      /\ o.channelOpen = object[c].channelOpen
  BY <1>2, <1>4, <1>5 DEF Members
<1>7. Changes(s, "session", running[s].message, object[c], o)
  BY <1>1, <1>6 DEF Changes
<1> QED
  BY <1>1, <1>3, <1>6, <1>7

LEMMA StoreSessionInv ==
  ASSUME IInv, NEW s \in Sessions, running[s] # Idle, running[s].todo # <<>>,
         StoreSession(s),
         UNCHANGED <<load, created, setting, sender, handled, started, requested>>
  PROVE  IInv'
<1>1. PICK c \in Live, o \in Members :
        object' = [object EXCEPT ![c] = o] /\ Advance(s) /\ UNCHANGED <<queue, sent>>
  BY SessionStored
<1>2. Live' = Live /\ Objects' = Objects /\ Messages' = Messages /\ Sessions' = Sessions
  BY SameLoad
<1>3. RunsKept' /\ running' = [t \in Sessions |-> running'[t]]
  BY <1>1, AdvanceRuns
<1>4. TypesKept'
  BY <1>1, <1>2, <1>3 DEF IInv, TypesKept
<1>5. SendersKept' /\ SentKept'
  BY <1>1, <1>2 DEF IInv, SendersKept, SentKept
<1> QED
  BY <1>3, <1>4, <1>5 DEF IInv

\* Storing another member changes that member of the one object.
LEMMA MemberStored ==
  ASSUME IInv, NEW s \in Sessions, running[s] # Idle, NEW e, StoreMember(s, e),
         e \in {"channel", "encryption", "channelOpen", "microphone", "noMicrophone"}
  PROVE  \E c \in Objects, o \in Members :
           /\ c = running[s].class /\ c \in Live
           /\ object' = [object EXCEPT ![c] = o]
           /\ Changes(s, e, running[s].message, object[c], o)
           /\ Advance(s) /\ UNCHANGED <<queue, busy, sent, opened, given>>
<1>1. PICK c \in Objects, x \in Encryptions :
        c = running[s].class /\ c \in Live /\ x = running[s].message.encryption
  BY RunFacts DEF Messages
<1>2. object[c] \in Members
  BY <1>1 DEF IInv, TypesKept
<1>3. PICK o : o = CASE e = "channel" -> [object[c] EXCEPT !.channel = TRUE]
                     [] e = "encryption" -> [object[c] EXCEPT !.encryption = x]
                     [] e = "channelOpen" -> [object[c] EXCEPT !.channelOpen = TRUE]
                     [] e = "microphone" -> [object[c] EXCEPT !.microphone = TRUE]
                     [] e = "noMicrophone" -> [object[c] EXCEPT !.microphone = FALSE]
  OBVIOUS
<1>4. /\ object' = [object EXCEPT ![c] = o]
      /\ Advance(s) /\ UNCHANGED <<queue, busy, sent, opened, given>>
  BY <1>1, <1>3 DEF StoreMember, Store
<1>5. /\ o \in Members /\ o.session = object[c].session
      /\ o.encryption = IF e = "encryption" THEN x ELSE object[c].encryption
      /\ o.channelOpen = IF e = "channelOpen" THEN TRUE ELSE object[c].channelOpen
      /\ o.microphone = IF e = "microphone" THEN TRUE
                        ELSE IF e = "noMicrophone" THEN FALSE ELSE object[c].microphone
  <2>1. CASE e = "channel"
    <3>1. o = [object[c] EXCEPT !.channel = TRUE]
      BY <1>3, <2>1
    <3> QED
      BY <1>2, <2>1, <3>1 DEF Members
  <2>2. CASE e = "encryption"
    <3>1. o = [object[c] EXCEPT !.encryption = x]
      BY <1>3, <2>2
    <3> QED
      BY <1>2, <2>2, <3>1 DEF Members
  <2>3. CASE e = "channelOpen"
    <3>1. o = [object[c] EXCEPT !.channelOpen = TRUE]
      BY <1>3, <2>3
    <3> QED
      BY <1>2, <2>3, <3>1 DEF Members
  <2>4. CASE e = "microphone"
    <3>1. o = [object[c] EXCEPT !.microphone = TRUE]
      BY <1>3, <2>4
    <3> QED
      BY <1>2, <2>4, <3>1 DEF Members
  <2>5. CASE e = "noMicrophone"
    <3>1. o = [object[c] EXCEPT !.microphone = FALSE]
      BY <1>3, <2>5
    <3> QED
      BY <1>2, <2>5, <3>1 DEF Members
  <2> QED
    BY <2>1, <2>2, <2>3, <2>4, <2>5
<1>6. Changes(s, e, running[s].message, object[c], o)
  BY <1>1, <1>5 DEF Changes
<1> QED
  BY <1>1, <1>4, <1>5, <1>6

LEMMA StoreMemberInv ==
  ASSUME IInv, NEW s \in Sessions, running[s] # Idle, running[s].todo # <<>>,
         NEW e, StoreMember(s, e),
         e \in {"channel", "encryption", "channelOpen", "microphone", "noMicrophone"},
         UNCHANGED <<load, created, setting, sender, handled, started, requested>>
  PROVE  IInv'
<1>1. PICK c \in Live, o \in Members :
        object' = [object EXCEPT ![c] = o] /\ Advance(s) /\ UNCHANGED <<queue, sent>>
  BY MemberStored
<1>2. Live' = Live /\ Objects' = Objects /\ Messages' = Messages /\ Sessions' = Sessions
  BY SameLoad
<1>3. RunsKept' /\ running' = [t \in Sessions |-> running'[t]]
  BY <1>1, AdvanceRuns
<1>4. TypesKept'
  BY <1>1, <1>2, <1>3 DEF IInv, TypesKept
<1>5. SendersKept' /\ SentKept'
  BY <1>1, <1>2 DEF IInv, SendersKept, SentKept
<1> QED
  BY <1>3, <1>4, <1>5 DEF IInv

\* Media of a phone that sent no START goes to the queue.
LEMMA TestSessionInv ==
  ASSUME IInv, NEW s \in Sessions, running[s] # Idle, running[s].todo # <<>>,
         TestSession(s),
         UNCHANGED <<load, created, setting, sender, handled, started, requested>>
  PROVE  IInv'
<1>1. Live' = Live /\ Objects' = Objects /\ Messages' = Messages /\ Sessions' = Sessions
  BY SameLoad
<1>2. object' = object /\ sent' = sent
  BY DEF TestSession
<1>3. RunsKept' /\ running' = [t \in Sessions |-> running'[t]]
  BY AdvanceRuns, IdleRuns DEF TestSession
<1>4. queue' \in Seq(Messages)
  BY RunFacts, DeclineTypes DEF TestSession, IInv, TypesKept
<1>5. TypesKept'
  BY <1>1, <1>2, <1>3, <1>4 DEF IInv, TypesKept
<1>6. SendersKept' /\ SentKept'
  BY <1>1, <1>2 DEF IInv, SendersKept, SentKept
<1> QED
  BY <1>3, <1>5, <1>6 DEF IInv

\* An answer goes to the sender of the object, under its session.
LEMMA AnswerRuns ==
  ASSUME IInv, NEW s \in Sessions, running[s] # Idle, running[s].todo # <<>>,
         NEW e, Answer(s, e), load' = load, created' = created, setting' = setting
  PROVE  /\ running' = [running EXCEPT ![s] = running'[s]]
         /\ running'[s].class = running[s].class
         /\ running'[s].message = [running[s].message EXCEPT !.answered = TRUE]
         /\ running'[s].todo = Tail(running[s].todo)
         /\ RunsKept' /\ running' = [t \in Sessions |-> running'[t]]
<1>1. running' = [running EXCEPT ![s].todo = Tail(@), ![s].message.answered = TRUE]
  BY DEF Answer
<1>2. /\ running' = [running EXCEPT ![s] = running'[s]]
      /\ running'[s] = [running[s] EXCEPT !.todo = Tail(@), !.message.answered = TRUE]
  BY <1>1 DEF IInv, TypesKept
<1>3. PICK c \in Objects, m \in Messages, t \in Seq(EffectNames) :
        /\ m.class = c /\ t # <<>> /\ Reading(s)
        /\ running[s] = [class |-> c, message |-> m, todo |-> t]
  BY RunFacts
<1>4. PICK n : n = [m EXCEPT !.answered = TRUE]
  OBVIOUS
<1>5. n \in Messages /\ n.class = c
  BY <1>3, <1>4 DEF Messages
<1>6. running'[s] = [class |-> c, message |-> n, todo |-> Tail(t)]
  <2>1. PICK r : r = [running[s] EXCEPT !.todo = Tail(@)]
    OBVIOUS
  <2>2. r = [class |-> c, message |-> m, todo |-> Tail(t)]
    <3>1. PICK q : q = running[s] /\ q = [class |-> c, message |-> m, todo |-> t]
      BY <1>3
    <3>2. q.todo = t
      BY <3>1
    <3>3. r = [q EXCEPT !.todo = Tail(t)]
      BY <2>1, <3>1, <3>2
    <3>4. q = [class |-> c, message |-> m, todo |-> t]
      BY <3>1
    <3> QED
      BY <3>3, <3>4, RestSet
  <2>3. running'[s] = [r EXCEPT !.message.answered = TRUE]
    BY <1>2, <2>1
  <2>4. running'[s] = [r EXCEPT !.message = n]
    BY <1>4, <2>2, <2>3
  <2> QED
    BY <2>2, <2>4
<1>7. RunKept(s)'
  BY <1>3, <1>5, <1>6, RestOfEffects, RunMade
<1>8. /\ running'[s].class = running[s].class /\ running'[s].todo = Tail(running[s].todo)
      /\ running'[s].message = [running[s].message EXCEPT !.answered = TRUE]
  BY <1>3, <1>4, <1>6
<1> QED
  BY <1>2, <1>7, <1>8, OthersRunOn

LEMMA AnswerInv ==
  ASSUME IInv, NEW s \in Sessions, running[s] # Idle, running[s].todo # <<>>,
         NEW e, Answer(s, e),
         UNCHANGED <<load, created, setting, sender, handled, started, requested>>
  PROVE  IInv'
<1>1. Live' = Live /\ Objects' = Objects /\ Messages' = Messages /\ Sessions' = Sessions
  BY SameLoad
<1>2. PICK c \in Live : c = running[s].class
  BY RunFacts
<1>3. /\ object' = object /\ queue' = queue
      /\ \/ sent' = sent
         \/ sent' = [to |-> sender[c], from |-> s, class |-> c, what |-> e,
                     encryption |-> running[s].message.encryption, opened |-> TRUE,
                     session |-> object[c].session, started |-> started[c][s]]
  BY <1>2 DEF Answer, Give
<1>4. s <= sender[c]
  BY <1>2, SenderOfRunning
<1>5. SentKept'
  BY <1>3, <1>4 DEF IInv, SentKept
<1>6. RunsKept' /\ running' = [t \in Sessions |-> running'[t]]
  BY AnswerRuns
<1>7. TypesKept'
  BY <1>1, <1>3, <1>6 DEF IInv, TypesKept
<1>8. SendersKept'
  BY <1>1, <1>3 DEF IInv, SendersKept
<1> QED
  BY <1>5, <1>6, <1>7, <1>8 DEF IInv

LEMMA StepInv ==
  ASSUME IInv, NEW s \in Sessions, Step(s)
  PROVE  IInv'
<1>1. /\ running[s] # Idle /\ running[s].todo # <<>>
      /\ UNCHANGED <<load, created, setting, sender, handled, started, requested>>
  BY DEF Step
<1>2. CASE StoreSession(s)
  BY <1>1, <1>2, StoreSessionInv
<1>3. CASE /\ Head(running[s].todo) \in {"channel", "encryption", "channelOpen",
                                         "microphone", "noMicrophone"}
           /\ StoreMember(s, Head(running[s].todo))
  BY <1>1, <1>3, StoreMemberInv
<1>4. CASE TestSession(s)
  BY <1>1, <1>4, TestSessionInv
<1>5. CASE Forward(s)
  <2>1. Advance(s) /\ UNCHANGED <<object, queue, sent>>
    BY <1>5 DEF Forward
  <2>2. RunsKept' /\ running' = [t \in Sessions |-> running'[t]]
    BY <1>1, <2>1, AdvanceRuns
  <2>3. Live' = Live /\ Objects' = Objects /\ Messages' = Messages /\ Sessions' = Sessions
    BY <1>1, SameLoad
  <2> QED
    BY <1>1, <1>5, <2>1, <2>2, <2>3
       DEF IInv, TypesKept, SendersKept, SentKept
<1>6. CASE Answer(s, Head(running[s].todo))
  BY <1>1, <1>6, AnswerInv
<1> QED
  BY <1>2, <1>3, <1>4, <1>5, <1>6 DEF Step

LEMMA FinishInv ==
  ASSUME IInv, NEW s \in Sessions, Finish(s)
  PROVE  IInv'
<1>1. /\ running[s] # Idle /\ running' = [running EXCEPT ![s] = Idle]
      /\ queue' = queue \/ Decline(running[s].message)
      /\ UNCHANGED <<load, created, setting, sender, object, handled, sent, started,
                     requested>>
  BY DEF Finish
<1>2. Live' = Live /\ Objects' = Objects /\ Messages' = Messages /\ Sessions' = Sessions
  BY <1>1, SameLoad
<1>3. RunsKept' /\ running' = [t \in Sessions |-> running'[t]]
  BY <1>1, IdleRuns
<1>4. queue' \in Seq(Messages)
  BY <1>1, RunFacts, DeclineTypes DEF IInv, TypesKept
<1>5. TypesKept'
  BY <1>1, <1>2, <1>3, <1>4 DEF IInv, TypesKept
<1>6. SendersKept' /\ SentKept'
  BY <1>1, <1>2 DEF IInv, SendersKept, SentKept
<1> QED
  BY <1>3, <1>5, <1>6 DEF IInv

\* What leaves the handlers, their senders and the queue alone.
LEMMA HandlersStay ==
  ASSUME IInv, SentKept',
         UNCHANGED <<load, created, setting, sender, object, running, handled, started,
                     requested>>,
         queue' \in Seq(Messages)
  PROVE  IInv'
<1>1. Live' = Live /\ Objects' = Objects /\ Messages' = Messages /\ Sessions' = Sessions
  BY SameLoad
<1>2. TypesKept' /\ SendersKept'
  BY <1>1 DEF IInv, TypesKept, SendersKept
<1>3. RunsKept'
  BY <1>1 DEF IInv, RunsKept, RunKept, Reading
<1> QED
  BY <1>2, <1>3 DEF IInv

\* Reports are from nobody.
LEMMA ReportInv ==
  ASSUME IInv, SendReport
  PROVE  IInv'
<1>1. PICK c : c = report.class
  OBVIOUS
<1>2. /\ UNCHANGED <<load, created, setting, sender, object, running, handled, started,
                     requested, queue>>
      /\ \/ sent' = sent
         \/ sent' = [to |-> sender[c], from |-> 0, class |-> c, what |-> "REPORT",
                     encryption |-> object[c].encryption, opened |-> c \in opened,
                     session |-> NoSession, started |-> 0]
  BY <1>1 DEF SendReport, Give
<1>3. SentKept'
  BY <1>2 DEF IInv, SentKept
<1> QED
  BY <1>2, <1>3, HandlersStay DEF IInv, TypesKept

\* The interceptor's other steps.
LEMMA InterceptorInv ==
  ASSUME IInv, InterceptorNext
  PROVE  IInv'
<1>1. ASSUME NEW c, NEW n, BeginReport(c, n)
      PROVE  IInv'
  <2>1. /\ UNCHANGED <<load, created, setting, sender, object, running, handled, started,
                       requested, queue, sent>>
    BY <1>1 DEF BeginReport
  <2>2. SentKept'
    BY <2>1 DEF IInv, SentKept
  <2> QED
    BY <2>1, <2>2, HandlersStay DEF IInv, TypesKept
<1>2. ASSUME NEW t, SplitDone(t)
      PROVE  IInv'
  <2>1. /\ UNCHANGED <<load, created, setting, sender, object, running, handled, started,
                       requested, queue, sent>>
    BY <1>2 DEF SplitDone
  <2>2. SentKept'
    BY <2>1 DEF IInv, SentKept
  <2> QED
    BY <2>1, <2>2, HandlersStay DEF IInv, TypesKept
<1> QED
  BY <1>1, <1>2, CreateSessionInv, SetMessageSenderInv, HandleInv, StepInv, FinishInv,
     ReportInv DEF InterceptorNext

\* The services take from the queue and answer the last session's phone.
LEMMA ServiceInv ==
  ASSUME IInv, Resolve \/ MessageHandler \/ ReceiveFails
                 \/ \E c \in Live \cap DOMAIN Services : \E what \in Services[c].sends :
                      EventReturns(c, what)
  PROVE  IInv'
<1>1. CASE Resolve \/ MessageHandler \/ ReceiveFails
  <2>1. UNCHANGED <<load, created, setting, sender, object, running, handled, started,
                    requested, sent>>
    BY <1>1 DEF Resolve, MessageHandler, ReceiveFails, interceptorVars
  <2>2. queue' \in Seq(Messages)
    <3>1. queue \in Seq(Messages)
      BY DEF IInv, TypesKept
    <3>2. queue' = queue \/ (queue # <<>> /\ queue' = Tail(queue))
      BY <1>1 DEF Resolve, MessageHandler, ReceiveFails
    <3> QED
      BY <3>1, <3>2, HeadTailProperties
  <2>3. SentKept'
    BY <2>1 DEF IInv, SentKept
  <2> QED
    BY <2>1, <2>2, <2>3, HandlersStay
<1>2. ASSUME NEW c, NEW what, EventReturns(c, what)
      PROVE  IInv'
  <2>1. /\ UNCHANGED <<load, created, setting, sender, object, running, handled, started,
                       requested, queue>>
        /\ sent'.from = 0
    BY <1>2 DEF EventReturns
  <2>2. SentKept'
    BY <2>1 DEF IInv, TypesKept, SentKept
  <2> QED
    BY <2>1, <2>2, HandlersStay DEF IInv, TypesKept
<1> QED
  BY <1>1, <1>2

LEMMA StutterInv ==
  ASSUME IInv, UNCHANGED <<interceptorVars, queue, serviceVars>>
  PROVE  IInv'
<1>1. UNCHANGED <<load, created, setting, sender, object, running, handled, started, requested,
                  queue, sent>>
  BY DEF interceptorVars
<1>2. SentKept'
  BY <1>1 DEF IInv, SentKept
<1> QED
  BY <1>1, <1>2, HandlersStay DEF IInv, TypesKept

LEMMA NextInv ==
  ASSUME IInv, [Next]_<<interceptorVars, queue, serviceVars>>
  PROVE  IInv'
BY InterceptorInv, ServiceInv, StutterInv DEF Next

(***************************************************************************)
(* IInv holds in every reachable state, for any loads.                     *)
(***************************************************************************)
THEOREM Invariance == Spec => []IInv
<1>1. Init => IInv
  BY InitInv
<1>2. IInv /\ [Next]_<<interceptorVars, queue, serviceVars>> => IInv'
  BY NextInv
<1> QED
  BY <1>1, <1>2, PTL DEF Spec

(***************************************************************************)
(* An answer never goes to a phone before the one that asked: every object *)
(* has the new sender before the new session reads                         *)
(* (AndroidAutoEntityFactory.cpp:66).                                      *)
(***************************************************************************)
THEOREM AnswersGoForward == Spec => []NoAnswerToEarlierPhone
<1>1. IInv => NoAnswerToEarlierPhone
  BY DEF IInv, SentKept, NoAnswerToEarlierPhone
<1> QED
  BY <1>1, Invariance, PTL

(***************************************************************************)
(* What a step of a handler may be, for the invariants that follow: an     *)
(* effect inside the program, media declined, or an answer.                *)
(***************************************************************************)
Inside(s) ==
    LET e == Head(running[s].todo)
        c == running[s].class
    IN  /\ e \in Effects
        /\ running' = [running EXCEPT ![s] = running'[s]]
        /\ running'[s].class = c /\ running'[s].message = running[s].message
        /\ running'[s].todo = Tail(running[s].todo)
        /\ \E o \in Members :
             /\ object' = [object EXCEPT ![c] = o]
             /\ Changes(s, e, running[s].message, object[c], o)
        /\ e = "testSession" => object[c].session # NoSession
        /\ UNCHANGED <<queue, busy, sent, opened, given>>

MediaDeclined(s) ==
    /\ Head(running[s].todo) = "testSession"
    /\ running' = [running EXCEPT ![s] = Idle]
    /\ Decline(running[s].message)
    /\ UNCHANGED <<object, busy, sent, opened, given>>

LEMMA StepCases ==
  ASSUME IInv, NEW s \in Sessions, Step(s)
  PROVE  /\ running[s] # Idle /\ running[s].todo # <<>>
         /\ UNCHANGED <<load, created, setting, sender, handled, report, reports, late, owed,
                        started, requested>>
         /\ \/ Inside(s)
            \/ MediaDeclined(s)
            \/ /\ Head(running[s].todo) \notin Effects
               /\ Answer(s, Head(running[s].todo))
<1>1. /\ running[s] # Idle /\ running[s].todo # <<>>
      /\ UNCHANGED <<load, created, setting, sender, handled, report, reports, late, owed,
                     started, requested>>
  BY DEF Step
<1>2. PICK c \in Live : c = running[s].class
  BY <1>1, RunFacts
<1>3. ASSUME Head(running[s].todo) = "session", StoreSession(s)
      PROVE  Inside(s)
  <2>1. PICK o \in Members :
          /\ object' = [object EXCEPT ![c] = o] /\ Advance(s)
          /\ Changes(s, "session", running[s].message, object[c], o)
          /\ UNCHANGED <<queue, busy, sent, opened, given>>
    BY <1>1, <1>2, <1>3, SessionStored
  <2> QED
    BY <1>1, <1>2, <1>3, <2>1, AdvanceRuns DEF Inside, Effects
<1>4. ASSUME Head(running[s].todo) \in {"channel", "encryption", "channelOpen",
                                        "microphone", "noMicrophone"},
             StoreMember(s, Head(running[s].todo))
      PROVE  Inside(s)
  <2>1. PICK e : e = Head(running[s].todo)
    OBVIOUS
  <2>2. PICK o \in Members :
          /\ object' = [object EXCEPT ![c] = o] /\ Advance(s)
          /\ Changes(s, e, running[s].message, object[c], o)
          /\ UNCHANGED <<queue, busy, sent, opened, given>>
    BY <1>1, <1>2, <1>4, <2>1, MemberStored
  <2> QED
    BY <1>1, <1>2, <1>4, <2>1, <2>2, AdvanceRuns DEF Inside, Effects
<1>5. ASSUME Head(running[s].todo) = "testSession", TestSession(s)
      PROVE  Inside(s) \/ MediaDeclined(s)
  <2>1. /\ object[c] \in Members /\ object' = object
        /\ object = [object EXCEPT ![c] = object[c]]
    BY <1>5 DEF IInv, TypesKept, TestSession
  <2>2. CASE Advance(s) /\ queue' = queue /\ object[c].session # NoSession
    <3>1. Changes(s, "testSession", running[s].message, object[c], object[c])
      BY DEF Changes
    <3> QED
      BY <1>1, <1>2, <1>5, <2>1, <2>2, <3>1, AdvanceRuns DEF Inside, Effects, TestSession
  <2>3. CASE Decline(running[s].message) /\ running' = [running EXCEPT ![s] = Idle]
    BY <1>5, <2>3 DEF MediaDeclined, TestSession
  <2> QED
    BY <1>2, <1>5, <2>2, <2>3 DEF TestSession
<1>6. ASSUME Head(running[s].todo) = "forward", Forward(s)
      PROVE  Inside(s)
  <2>1. /\ object[c] \in Members /\ object' = object
        /\ object = [object EXCEPT ![c] = object[c]]
    BY <1>6 DEF IInv, TypesKept, Forward
  <2>2. Changes(s, "forward", running[s].message, object[c], object[c])
    BY DEF Changes
  <2> QED
    BY <1>1, <1>2, <1>6, <2>1, <2>2, AdvanceRuns DEF Inside, Effects, Forward
<1> QED
  BY <1>1, <1>3, <1>4, <1>5, <1>6 DEF Step

(***************************************************************************)
(* Sessions.  The readers of several phones store their STARTs in the one  *)
(* member of an object.  What a phone's handler finds there under its own  *)
(* session is the last START of its phone, since its reader runs one       *)
(* handler after the other; and media got as far as the acknowledgement    *)
(* only where a START was stored, which no one takes back.                 *)
(***************************************************************************)
RunStarts(s) ==
    LET r == running[s]
    IN  r # Idle =>
          /\ "session" \in Left(r.todo) =>
               r.todo = <<"session">> /\ r.message.session = started[r.class][s]
          /\ "ACK" \in Left(r.todo) =>
               Head(r.todo) = "testSession" \/ object[r.class].session # NoSession

\* The session's handler is still to store its START.
Starting(s, c) ==
    running[s] # Idle /\ running[s].class = c /\ "session" \in Left(running[s].todo)

OwnStart(s, c) ==
    object[c].session[1] = s => object[c].session[2] = started[c][s] \/ Starting(s, c)

AcksKept ==
    /\ \A s \in Sessions : RunStarts(s) /\ \A c \in Live : OwnStart(s, c)
    /\ AckNamesLastStart

\* A START is stored and nothing else is done; what acknowledges tests first.
LEMMA SessionEntries ==
  ASSUME NEW id, NEW e \in Entries(id)
  PROVE  /\ "session" \in Left(e.does) => e.does = <<"session">>
         /\ "ACK" \in Left(e.does) => Head(e.does) = "testSession"
         /\ Has(e, "session") <=> "session" \in Left(e.does)
         /\ Has(e, "encryption") <=> "encryption" \in Left(e.does)
<1>1. e.does \in Seq(EffectNames)
  BY EntryFacts
<1>2. DOMAIN e.does = 1..Len(e.does)
  BY <1>1
<1>3. /\ Has(e, "session") <=> "session" \in Left(e.does)
      /\ Has(e, "encryption") <=> "encryption" \in Left(e.does)
  BY <1>2 DEF Has, Left
<1>4. \/ e.does \in OtherEffects \/ e.does = <<"session">>
      \/ e.does = <<"testSession", "forward", "ACK">>
      \/ e.does \in {<<"OPEN_RESPONSE">>, <<"channel", "encryption", "OPEN_RESPONSE">>,
                     <<"channel", "encryption", "channelOpen", "OPEN_RESPONSE">>}
  BY DEF Entries, OpenEntries, MediaEntries, OtherEntries, OtherEffects, Request, Raw,
         Declined
<1>5. ASSUME NEW d \in OtherEffects
      PROVE  "session" \notin Left(d) /\ "ACK" \notin Left(d)
  <2>1. d \in {<<>>, <<"CONFIG">>, <<"SETUP">>, <<"KEY_BINDING_RESPONSE">>}
          => "session" \notin Left(d) /\ "ACK" \notin Left(d)
    BY DEF Left
  <2>2. d \in {<<"CONFIG", "VIDEO_FOCUS">>, <<"microphone", "MICROPHONE_RESPONSE">>,
               <<"noMicrophone", "MICROPHONE_RESPONSE">>,
               <<"PAIRING_RESPONSE", "AUTHENTICATION_DATA">>}
          => "session" \notin Left(d) /\ "ACK" \notin Left(d)
    BY DEF Left
  <2>3. d = <<"channel", "encryption", "SENSOR_RESPONSE">>
          => "session" \notin Left(d) /\ "ACK" \notin Left(d)
    BY DEF Left
  <2> QED
    BY <2>1, <2>2, <2>3 DEF OtherEffects
<1>6. ASSUME NEW d \in {<<"OPEN_RESPONSE">>, <<"channel", "encryption", "OPEN_RESPONSE">>,
                        <<"channel", "encryption", "channelOpen", "OPEN_RESPONSE">>}
      PROVE  "session" \notin Left(d) /\ "ACK" \notin Left(d)
  BY DEF Left
<1>7. "ACK" \notin Left(<<"session">>)
  BY DEF Left
<1>8. /\ "session" \notin Left(<<"testSession", "forward", "ACK">>)
      /\ Head(<<"testSession", "forward", "ACK">>) = "testSession"
  BY DEF Left
<1> QED
  BY <1>3, <1>4, <1>5, <1>6, <1>7, <1>8

\* A step that leaves the objects, the handlers and the history alone.
LEMMA AcksStay ==
  ASSUME AcksKept, UNCHANGED <<load, object, running, started>>,
         sent' = sent \/ AckNamesLastStart'
  PROVE  AcksKept'
<1>1. Live' = Live /\ Sessions' = Sessions
  BY SameLoad
<1>2. AckNamesLastStart'
  BY DEF AcksKept, AckNamesLastStart
<1> QED
  BY <1>1, <1>2 DEF AcksKept, RunStarts, OwnStart, Starting

LEMMA HandleAcks ==
  ASSUME IInv, AcksKept, NEW s \in Sessions, NEW c \in Live, NEW id \in load.ids[c],
         NEW p \in Payloads, NEW x \in load.encryptions, NEW n \in Carried(id),
         Handle(s, Message(c, id, p, x, n))
  PROVE  AcksKept'
<1>1. PICK m : m = Message(c, id, p, x, n) /\ m.session = n
  BY DEF Message
<1>2. /\ running[s] = Idle /\ UNCHANGED <<load, object, sent>>
      /\ \/ UNCHANGED <<running, started>>
         \/ /\ c \in Objects /\ Entry(c, id) \in Entries(id)
            /\ running' = [running EXCEPT ![s] =
                             [class |-> c, message |-> m, todo |-> Entry(c, id).does]]
            /\ started' = IF Has(Entry(c, id), "session")
                          THEN [started EXCEPT ![c][s] = n] ELSE started
  BY <1>1, HandleBegins
<1>3. CASE UNCHANGED <<running, started>>
  BY <1>2, <1>3, AcksStay
<1>4. CASE /\ c \in Objects /\ Entry(c, id) \in Entries(id)
           /\ running' = [running EXCEPT ![s] =
                            [class |-> c, message |-> m, todo |-> Entry(c, id).does]]
           /\ started' = IF Has(Entry(c, id), "session")
                         THEN [started EXCEPT ![c][s] = n] ELSE started
  <2>0. PICK d \in Seq(EffectNames) : d = Entry(c, id).does
    BY <1>4, EntryFacts
  <2>1. PICK r : r = [class |-> c, message |-> m, todo |-> d] /\ d = Entry(c, id).does
    BY <2>0
  <2>2. /\ "session" \in Left(d) => d = <<"session">>
        /\ "ACK" \in Left(d) => Head(d) = "testSession"
        /\ Has(Entry(c, id), "session") <=> "session" \in Left(d)
    BY <1>4, <2>1, SessionEntries
  <2>3. /\ running'[s] = r /\ \A t \in Sessions : t # s => running'[t] = running[t]
    BY <1>4, <2>1 DEF IInv, TypesKept
  <2>4. /\ "session" \in Left(d) => started'[c][s] = n
        /\ \A t \in Sessions, b \in Live : t # s => started'[b][t] = started[b][t]
        /\ \A b \in Live : b # c \/ "session" \notin Left(d) => started'[b][s] = started[b][s]
    BY <1>4, <2>2 DEF IInv, TypesKept
  <2>5. RunStarts(s)'
    <3>1. r.class = c /\ r.message = m /\ r.todo = d
      BY <2>1
    <3>2. running'[s].class = c /\ running'[s].message.session = n /\ running'[s].todo = d
      BY <1>1, <2>3, <3>1
    <3> QED
      BY <2>2, <2>4, <3>2 DEF RunStarts
  <2>6. r # Idle /\ r.class = c /\ r.todo = d
    <3>1. r.class = c /\ r.todo = d
      BY <2>1
    <3>2. c # "none"
      BY <1>4 DEF Objects, Table
    <3> QED
      BY <3>1, <3>2 DEF Idle
  <2>7. ASSUME NEW t \in Sessions
        PROVE  RunStarts(t)' /\ \A b \in Live : OwnStart(t, b)'
    <3>1. RunStarts(t) /\ \A b \in Live : OwnStart(t, b)
      BY DEF AcksKept
    <3>2. CASE t # s
      <4>1. running[t] # Idle => running[t].class \in Live
        BY RunFacts
      <4> QED
        BY <1>2, <2>3, <2>4, <3>1, <3>2, <4>1 DEF RunStarts, OwnStart, Starting
    <3>3. CASE t = s
      <4>1. ASSUME NEW b \in Live, object[b].session[1] = s
            PROVE  object[b].session[2] = started'[b][s] \/ Starting(s, b)'
        <5>1. object[b].session[2] = started[b][s]
          BY <1>2, <3>1, <3>3, <4>1 DEF OwnStart, Starting
        <5>2. b = c /\ "session" \in Left(d) => Starting(s, b)'
          BY <2>3, <2>6 DEF Starting
        <5> QED
          BY <2>4, <5>1, <5>2
      <4> QED
        BY <1>2, <2>5, <3>3, <4>1 DEF OwnStart
    <3> QED
      BY <3>2, <3>3
  <2>8. AckNamesLastStart'
    BY <1>2 DEF AcksKept, AckNamesLastStart
  <2> QED
    BY <1>2, <2>7, <2>8, SameLoad DEF AcksKept
<1> QED
  BY <1>2, <1>3, <1>4

LEMMA StepAcks ==
  ASSUME IInv, AcksKept, NEW s \in Sessions, Step(s)
  PROVE  AcksKept'
<1>1. /\ running[s] # Idle /\ running[s].todo # <<>> /\ UNCHANGED <<load, started>>
  BY StepCases
<1>2. PICK c \in Live, t \in Seq(EffectNames), e \in EffectNames :
        /\ c = running[s].class /\ t = running[s].todo /\ t # <<>> /\ e = Head(t)
        /\ Left(t) = {e} \cup Left(Tail(t))
  <2>1. PICK c \in Live, t \in Seq(EffectNames) :
          c = running[s].class /\ t = running[s].todo /\ t # <<>>
    BY <1>1, RunFacts
  <2>2. Head(t) \in EffectNames /\ Left(t) = {Head(t)} \cup Left(Tail(t))
    BY <2>1, RestOfEffects, LeftOfRest
  <2> QED
    BY <2>1, <2>2
<1>3. RunStarts(s) /\ OwnStart(s, c)
  BY <1>2 DEF AcksKept
<1>4. /\ "session" \in Left(t) =>
           t = <<"session">> /\ running[s].message.session = started[c][s]
      /\ "ACK" \in Left(t) => e = "testSession" \/ object[c].session # NoSession
  BY <1>1, <1>2, <1>3 DEF RunStarts
<1>5. "session" \notin Left(Tail(t))
  <2>1. t = <<"session">> => Left(Tail(t)) = {}
    BY DEF Left
  <2> QED
    BY <1>2, <1>4, <2>1
<1>6. /\ \A r \in Sessions : r # s => running'[r] = running[r]
      /\ running'[s] = Idle
           \/ (running'[s].class = c /\ running'[s].todo = Tail(t))
      /\ e # "session" => UNCHANGED object \/ \A b \in Live :
                            object'[b].session = object[b].session
      /\ e = "session" =>
           /\ object'[c].session = <<s, started[c][s]>>
           /\ \A b \in Live \ {c} : object'[b].session = object[b].session
      /\ e = "testSession" /\ running'[s] # Idle => object[c].session # NoSession
  <2>1. CASE Inside(s)
    <3>1. PICK o \in Members :
            /\ object' = [object EXCEPT ![c] = o]
            /\ o.session = IF e = "session" THEN <<s, running[s].message.session>>
                           ELSE object[c].session
      BY <1>2, <2>1 DEF Inside, Changes
    <3>2. \A b \in Live : object'[b] = IF b = c THEN o ELSE object[b]
      BY <3>1 DEF IInv, TypesKept
    <3>3. running' = [running EXCEPT ![s] = running'[s]]
      BY <2>1 DEF Inside
    <3>4. \A r \in Sessions : r # s => running'[r] = running[r]
      BY <3>3 DEF IInv, TypesKept
    <3>5. e = "session" => running[s].message.session = started[c][s]
      BY <1>2, <1>4
    <3> QED
      BY <1>2, <2>1, <3>1, <3>2, <3>4, <3>5 DEF Inside
  <2>2. CASE MediaDeclined(s)
    <3>1. running' = [running EXCEPT ![s] = Idle] /\ object' = object /\ e = "testSession"
      BY <1>2, <2>2 DEF MediaDeclined
    <3> QED
      BY <3>1 DEF IInv, TypesKept
  <2>3. CASE e \notin Effects /\ Answer(s, e)
    <3>1. object' = object
      BY <2>3 DEF Answer
    <3>2. /\ running' = [running EXCEPT ![s] = running'[s]]
          /\ running'[s].class = c /\ running'[s].todo = Tail(t)
      BY <1>1, <1>2, <2>3, StepCases, AnswerRuns
    <3>3. \A r \in Sessions : r # s => running'[r] = running[r]
      BY <3>2 DEF IInv, TypesKept
    <3> QED
      BY <2>3, <3>1, <3>2, <3>3 DEF Effects
  <2> QED
    BY <1>2, <2>1, <2>2, <2>3, StepCases
<1>7. \A b \in Live : object[b].session # NoSession => object'[b].session # NoSession
  <2>1. s # 0
    BY SessionNumbers DEF IInv, TypesKept
  <2>2. <<s, started[c][s]>> # NoSession
    BY <2>1 DEF NoSession
  <2> QED
    BY <1>6, <2>2
<1>8. ASSUME NEW r \in Sessions
      PROVE  RunStarts(r)'
  <2>1. CASE r = s
    <3>1. ASSUME running'[s] # Idle, "ACK" \in Left(Tail(t))
          PROVE  object'[c].session # NoSession
      <4>1. object[c].session # NoSession
        BY <1>2, <1>4, <1>6, <3>1
      <4> QED
        BY <1>7, <4>1
    <3> QED
      BY <1>5, <1>6, <2>1, <3>1 DEF RunStarts
  <2>2. CASE r # s
    <3>1. RunStarts(r) /\ running'[r] = running[r]
      BY <1>6, <2>2 DEF AcksKept
    <3>2. running[r] # Idle => running[r].class \in Live
      BY RunFacts
    <3> QED
      BY <1>1, <1>7, <3>1, <3>2 DEF RunStarts
  <2> QED
    BY <2>1, <2>2
<1>9. ASSUME NEW r \in Sessions, NEW b \in Live
      PROVE  OwnStart(r, b)'
  <2>1. OwnStart(r, b)
    BY DEF AcksKept
  <2>2. CASE e = "session" /\ b = c
    <3>1. object'[b].session = <<s, started'[b][s]>>
      BY <1>1, <1>6, <2>2
    <3> QED
      BY <3>1 DEF OwnStart
  <2>3. CASE e # "session" \/ b # c
    <3>1. object'[b].session = object[b].session
      BY <1>6, <2>3
    <3>2. Starting(r, b) => Starting(r, b)'
      <4>1. CASE r = s
        <5>1. ~Starting(s, b)
          <6>1. "session" \in Left(t) => e = "session"
            BY <1>2, <1>5
          <6> QED
            BY <1>2, <2>3, <6>1 DEF Starting
        <5> QED
          BY <4>1, <5>1
      <4>2. CASE r # s
        BY <1>6, <4>2 DEF Starting
      <4> QED
        BY <4>1, <4>2
    <3> QED
      BY <1>1, <2>1, <3>1, <3>2 DEF OwnStart
  <2> QED
    BY <2>2, <2>3
<1>10. AckNamesLastStart'
  <2>1. CASE sent' = sent
    BY <2>1 DEF AcksKept, AckNamesLastStart
  <2>2. CASE /\ e \notin Effects
             /\ sent' = [to |-> sender[c], from |-> s, class |-> c, what |-> e,
                         encryption |-> running[s].message.encryption, opened |-> TRUE,
                         session |-> object[c].session, started |-> started[c][s]]
    <3>1. /\ sent'.what = e /\ sent'.from = s /\ sent'.session = object[c].session
          /\ sent'.started = started[c][s]
      BY <2>2
    <3>2. e = "ACK" => object[c].session # NoSession
      BY <1>2, <1>4
    <3>3. ~Starting(s, c)
      <4>1. "session" \notin Left(t)
        BY <1>2, <1>5, <2>2 DEF Effects
      <4> QED
        BY <1>2, <4>1 DEF Starting
    <3>4. object[c].session[1] = s => object[c].session[2] = started[c][s]
      BY <1>3, <3>3 DEF OwnStart
    <3> QED
      BY <3>1, <3>2, <3>4 DEF AckNamesLastStart
  <2>3. sent' = sent
          \/ /\ e \notin Effects
             /\ sent' = [to |-> sender[c], from |-> s, class |-> c, what |-> e,
                         encryption |-> running[s].message.encryption, opened |-> TRUE,
                         session |-> object[c].session, started |-> started[c][s]]
    BY <1>2, StepCases DEF Inside, MediaDeclined, Answer, Give
  <2> QED
    BY <2>1, <2>2, <2>3
<1> QED
  BY <1>1, <1>8, <1>9, <1>10, SameLoad DEF AcksKept

LEMMA FinishAcks ==
  ASSUME IInv, AcksKept, NEW s \in Sessions, Finish(s)
  PROVE  AcksKept'
<1>1. /\ running' = [running EXCEPT ![s] = Idle] /\ running[s].todo = <<>>
      /\ UNCHANGED <<load, object, sent, started>>
  BY DEF Finish
<1>2. \A t \in Sessions : running'[t] = IF t = s THEN Idle ELSE running[t]
  BY <1>1 DEF IInv, TypesKept
<1>3. \A b \in Live : ~Starting(s, b)
  <2>1. Left(<<>>) = {}
    BY DEF Left
  <2> QED
    BY <1>1, <2>1 DEF Starting
<1>4. ASSUME NEW r \in Sessions
      PROVE  RunStarts(r)' /\ \A b \in Live : OwnStart(r, b)'
  <2>1. RunStarts(r) /\ \A b \in Live : OwnStart(r, b)
    BY DEF AcksKept
  <2>2. RunStarts(r)'
    BY <1>1, <1>2, <2>1 DEF RunStarts
  <2>3. \A b \in Live : Starting(r, b) => Starting(r, b)'
    BY <1>2, <1>3 DEF Starting
  <2> QED
    BY <1>1, <2>1, <2>2, <2>3 DEF OwnStart
<1>5. AckNamesLastStart'
  BY <1>1 DEF AcksKept, AckNamesLastStart
<1> QED
  BY <1>1, <1>4, <1>5, SameLoad DEF AcksKept

LEMMA NextAcks ==
  ASSUME IInv, AcksKept, [Next]_<<interceptorVars, queue, serviceVars>>
  PROVE  AcksKept'
<1>1. ASSUME \/ CreateSession \/ SetMessageSender \/ \E t \in Sessions : SplitDone(t)
             \/ \E c \in Live : \E n \in Parts(c) : BeginReport(c, n)
             \/ Resolve \/ MessageHandler \/ ReceiveFails
             \/ UNCHANGED <<interceptorVars, queue, serviceVars>>
      PROVE  AcksKept'
  <2>1. UNCHANGED <<load, object, running, started, sent>>
    BY <1>1 DEF CreateSession, SetMessageSender, SplitDone, BeginReport, Resolve,
                MessageHandler, ReceiveFails, interceptorVars
  <2> QED
    BY <2>1, AcksStay
<1>2. CASE SendReport
  <2>1. /\ UNCHANGED <<load, object, running, started>>
        /\ sent' = sent \/ sent'.what = "REPORT"
    BY <1>2 DEF SendReport, Give
  <2>2. sent' = sent \/ AckNamesLastStart'
    BY <2>1 DEF AckNamesLastStart
  <2> QED
    BY <2>1, <2>2, AcksStay
<1>3. ASSUME NEW c, NEW what, EventReturns(c, what)
      PROVE  AcksKept'
  <2>1. UNCHANGED <<load, object, running, started>> /\ sent'.from = 0
    BY <1>3 DEF EventReturns
  <2>2. AckNamesLastStart'
    BY <2>1 DEF AckNamesLastStart
  <2> QED
    BY <2>1, <2>2, AcksStay
<1> QED
  BY <1>1, <1>2, <1>3, HandleAcks, StepAcks, FinishAcks DEF Next, InterceptorNext

(***************************************************************************)
(* Media are acknowledged under a stored START; where it is one of the     *)
(* phone's own, then the last that it sent before these media, whatever    *)
(* the readers of other phones store between the handler's test and its    *)
(* acknowledgement (MediaSinkVideoMessageHandlers.cpp:173-193, 261-276).   *)
(***************************************************************************)
THEOREM AcksNameTheStart == Spec => []AckNamesLastStart
<1>1. Init => AcksKept
  BY SessionNumbers DEF Init, InterceptorInit, AcksKept, RunStarts, OwnStart,
     AckNamesLastStart, NewObject, NoSession
<1>2. IInv /\ AcksKept /\ [Next]_<<interceptorVars, queue, serviceVars>> => AcksKept'
  BY NextAcks
<1>3. AcksKept => AckNamesLastStart
  BY DEF AcksKept
<1> QED
  BY <1>1, <1>2, <1>3, Invariance, PTL DEF Spec

(***************************************************************************)
(* Encryption.  What reports keeps the encryption of the open request      *)
(* before it answers, and before it lets the microphone be heard; and what *)
(* is kept then is always the encryption of some request.                  *)
(***************************************************************************)
Reporters == {"SENSOR", "INPUT_SOURCE", "MEDIA_SOURCE_MICROPHONE"}

MIC == "MEDIA_SOURCE_MICROPHONE"

EncryptsFirst(t) ==
    \A i \in 1..Len(t) :
      t[i] \in {"channelOpen", "OPEN_RESPONSE"} => \E j \in 1..i - 1 : t[j] = "encryption"

Kept(c) == object[c].encryption \in requested[c]

RunEncrypts(s) ==
    LET r == running[s]
    IN  r # Idle /\ r.class \in Reporters =>
          /\ Kept(r.class) \/ EncryptsFirst(r.todo)
          /\ "encryption" \in Left(r.todo) => r.message.encryption \in requested[r.class]

ObjectsKept ==
    \A c \in Reporters \cap Live : c \in opened \/ object[c].channelOpen => Kept(c)

ReportKept ==
    report # Idle =>
      /\ report.class \in Reporters \cap Live
      /\ report.class = MIC => Kept(report.class)

ReportSent ==
    /\ sent # Nothing /\ sent.what = "REPORT" => sent.class \in Live
    /\ ReportsAsRequested

EncryptionKept ==
    ObjectsKept /\ ReportKept /\ ReportSent /\ \A s \in Sessions : RunEncrypts(s)

\* The entries of those that report.
LEMMA ReportersEncrypt ==
  ASSUME NEW c \in Reporters, NEW id \in Named(c)
  PROVE  EncryptsFirst(Entry(c, id).does)
<1>1. c \in DOMAIN Table
  BY DEF Reporters, Table
<1>2. CASE id = "open"
  <2>1. PICK d : d = Table[c]["open"].does
    OBVIOUS
  <2>2. "open" \in DOMAIN Table[c]
    BY <1>1, Cases
  <2>3. Entry(c, id).does = d
    BY <1>2, <2>1, <2>2 DEF Entry
  <2>4. d \in {<<"channel", "encryption", "OPEN_RESPONSE">>,
               <<"channel", "encryption", "channelOpen", "OPEN_RESPONSE">>}
    <3>1. CASE c = "SENSOR"
      <4>1. Table[c] = Sensor
        BY <3>1 DEF Table
      <4>2. Sensor["open"] = Request(<<"channel", "encryption", "OPEN_RESPONSE">>)
        BY DEF Sensor, OpenAndKeep, ++
      <4> QED
        BY <2>1, <4>1, <4>2 DEF Request
    <3>2. CASE c = "INPUT_SOURCE"
      <4>1. Table[c] = InputSource
        BY <3>2 DEF Table
      <4>2. InputSource["open"] = Request(<<"channel", "encryption", "OPEN_RESPONSE">>)
        BY DEF InputSource, InputOpen, OpenAndKeep, ++
      <4> QED
        BY <2>1, <4>1, <4>2 DEF Request
    <3>3. CASE c = "MEDIA_SOURCE_MICROPHONE"
      <4>1. Table[c] = MediaSource
        BY <3>3 DEF Table
      <4>2. MediaSource["open"] =
              Request(<<"channel", "encryption", "channelOpen", "OPEN_RESPONSE">>)
        BY DEF MediaSource, Unknown, MicrophoneRequest, Indications, ++
      <4> QED
        BY <2>1, <4>1, <4>2 DEF Request
    <3> QED
      BY <3>1, <3>2, <3>3 DEF Reporters
  <2>5. Len(d) \in Nat /\ Len(d) > 2 /\ d[1] = "channel" /\ d[2] = "encryption"
    BY <2>4
  <2>6. \A i \in 1..Len(d) : d[i] \in {"channelOpen", "OPEN_RESPONSE"} => 2 \in 1..i - 1
    BY <2>5
  <2> QED
    BY <2>3, <2>5, <2>6 DEF EncryptsFirst
<1>3. CASE id \in {"codec", "data"}
  <2>1. Entry(c, id) = Raw(<<"testSession", "forward", "ACK">>)
    BY <1>1, <1>3, EntryOfNamed DEF Entries, MediaEntries
  <2>2. Entry(c, id).does = <<"testSession", "forward", "ACK">>
    BY <2>1 DEF Raw
  <2> QED
    BY <2>2 DEF EncryptsFirst
<1>4. CASE id \notin {"open", "codec", "data"}
  <2>1. PICK e \in OtherEntries : e = Entry(c, id)
    BY <1>1, <1>4, EntryOfNamed DEF Entries
  <2>2. \/ \E d \in OtherEffects : e = Request(d)
        \/ \E d \in {<<>>, <<"session">>} : e = Raw(d) \/ e = Declined(d)
    BY <2>1 DEF OtherEntries
  <2>3. \/ e.does \in OtherEffects \/ e.does = <<>> \/ e.does = <<"session">>
    BY <2>2 DEF Request, Raw, Declined
  <2>4. \A i \in 1..Len(e.does) : e.does[i] \notin {"channelOpen", "OPEN_RESPONSE"}
    <3>1. CASE e.does \in OtherEffects
      BY <3>1, OtherEffectsAreQuiet DEF Replies
    <3>2. CASE e.does = <<>> \/ e.does = <<"session">>
      BY <3>2
    <3> QED
      BY <2>3, <3>1, <3>2
  <2> QED
    BY <2>1, <2>4 DEF EncryptsFirst
<1> QED
  BY <1>2, <1>3, <1>4

\* What is left of such effects, once the first is not the encryption.
LEMMA StillEncryptsFirst ==
  ASSUME NEW t \in Seq(EffectNames), t # <<>>, EncryptsFirst(t), Head(t) # "encryption"
  PROVE  EncryptsFirst(Tail(t)) /\ Head(t) \notin {"channelOpen", "OPEN_RESPONSE"}
<1>1. Head(t) \notin {"channelOpen", "OPEN_RESPONSE"}
  BY RestOfEffects DEF EncryptsFirst
<1>2. ASSUME NEW i \in 1..Len(Tail(t)), Tail(t)[i] \in {"channelOpen", "OPEN_RESPONSE"}
      PROVE  \E j \in 1..i - 1 : Tail(t)[j] = "encryption"
  <2>1. i + 1 \in 1..Len(t) /\ t[i + 1] \in {"channelOpen", "OPEN_RESPONSE"}
    BY <1>2, RestOfEffects
  <2>2. PICK k \in 1..(i + 1) - 1 : t[k] = "encryption"
    BY <2>1 DEF EncryptsFirst
  <2>3. k # 1
    BY <2>2, RestOfEffects
  <2>4. k - 1 \in 1..i - 1 /\ k - 1 \in 1..Len(Tail(t)) /\ (k - 1) + 1 = k
    BY <2>1, <2>2, <2>3, RestOfEffects
  <2> QED
    BY <2>2, <2>4, RestOfEffects
<1> QED
  BY <1>1, <1>2 DEF EncryptsFirst

\* What was sent stays as requested when there are more requests.
LEMMA SentStays ==
  ASSUME ReportSent, Live' = Live, sent' = sent,
         \A d \in Live : requested[d] \subseteq requested'[d]
  PROVE  ReportSent'
BY DEF ReportSent, ReportsAsRequested

\* A step that leaves the objects, the handlers and what they opened alone.
LEMMA EncryptionStays ==
  ASSUME IInv, EncryptionKept, UNCHANGED <<load, object, running, opened, requested>>,
         ReportKept', sent' = sent \/ ReportSent'
  PROVE  EncryptionKept'
<1>1. Live' = Live /\ Sessions' = Sessions
  BY SameLoad
<1>2. ReportSent'
  BY <1>1, SentStays DEF EncryptionKept
<1> QED
  BY <1>1, <1>2 DEF EncryptionKept, ObjectsKept, RunEncrypts, Kept

LEMMA HandleEncryption ==
  ASSUME IInv, EncryptionKept, NEW s \in Sessions, NEW c \in Live, NEW id \in load.ids[c],
         NEW p \in Payloads, NEW x \in load.encryptions, NEW n \in Carried(id),
         Handle(s, Message(c, id, p, x, n))
  PROVE  EncryptionKept'
<1>1. PICK m : m = Message(c, id, p, x, n) /\ m.encryption = x
  BY DEF Message
<1>2. /\ id \in Named(c) /\ UNCHANGED <<load, object, sent, opened, report>>
      /\ \/ UNCHANGED <<running, requested>>
         \/ /\ Entry(c, id) \in Entries(id)
            /\ running' = [running EXCEPT ![s] =
                             [class |-> c, message |-> m, todo |-> Entry(c, id).does]]
            /\ Has(Entry(c, id), "encryption")
                 => requested' = [requested EXCEPT ![c] = @ \cup {x}]
  BY <1>1, HandleBegins
<1>3. Live' = Live /\ Sessions' = Sessions
  BY <1>2, SameLoad
<1>4. \A d \in Live : requested[d] \subseteq requested'[d]
  BY HandleHistories
<1>5. \A d \in Live : Kept(d) => Kept(d)'
  BY <1>2, <1>4 DEF Kept
<1>6. ObjectsKept' /\ ReportKept' /\ ReportSent'
  BY <1>2, <1>3, <1>4, <1>5, SentStays DEF EncryptionKept, ObjectsKept, ReportKept
<1>7. ASSUME NEW t \in Sessions, running'[t] = running[t]
      PROVE  RunEncrypts(t)'
  <2>1. RunEncrypts(t) /\ (running[t] # Idle => running[t].class \in Live)
    BY RunFacts DEF EncryptionKept
  <2> QED
    BY <1>4, <1>5, <1>7, <2>1 DEF RunEncrypts
<1>8. CASE UNCHANGED <<running, requested>>
  BY <1>3, <1>6, <1>7, <1>8 DEF EncryptionKept
<1>9. CASE /\ Entry(c, id) \in Entries(id)
           /\ running' = [running EXCEPT ![s] =
                            [class |-> c, message |-> m, todo |-> Entry(c, id).does]]
           /\ Has(Entry(c, id), "encryption")
                => requested' = [requested EXCEPT ![c] = @ \cup {x}]
  <2>1. \A t \in Sessions : t # s => running'[t] = running[t]
    BY <1>9 DEF IInv, TypesKept
  <2>2. /\ running'[s].class = c /\ running'[s].message = m
        /\ running'[s].todo = Entry(c, id).does
    BY <1>9 DEF IInv, TypesKept
  <2>3. c \in Reporters => EncryptsFirst(running'[s].todo)
    BY <1>2, <2>2, ReportersEncrypt
  <2>4. "encryption" \in Left(running'[s].todo) => x \in requested'[c]
    <3>1. Has(Entry(c, id), "encryption") <=> "encryption" \in Left(running'[s].todo)
      BY <1>9, <2>2, SessionEntries
    <3>2. Has(Entry(c, id), "encryption") => x \in requested'[c]
      BY <1>9 DEF IInv, TypesKept
    <3> QED
      BY <3>1, <3>2
  <2>5. RunEncrypts(s)'
    BY <1>1, <2>2, <2>3, <2>4 DEF RunEncrypts
  <2> QED
    BY <1>3, <1>6, <1>7, <2>1, <2>5 DEF EncryptionKept
<1> QED
  BY <1>2, <1>8, <1>9

\* An effect: what is kept is the encryption of a request, and stays one.
LEMMA StepEncryption ==
  ASSUME IInv, EncryptionKept, NEW s \in Sessions, Step(s)
  PROVE  EncryptionKept'
<1>1. /\ running[s] # Idle /\ running[s].todo # <<>>
      /\ UNCHANGED <<load, report, created, setting, requested>>
  BY StepCases
<1>2. PICK c \in Live, t \in Seq(EffectNames), e \in EffectNames :
        /\ c = running[s].class /\ t = running[s].todo /\ t # <<>> /\ e = Head(t)
        /\ Left(t) = {e} \cup Left(Tail(t))
  <2>1. PICK c \in Live, t \in Seq(EffectNames) :
          c = running[s].class /\ t = running[s].todo /\ t # <<>>
    BY <1>1, RunFacts
  <2>2. Head(t) \in EffectNames /\ Left(t) = {Head(t)} \cup Left(Tail(t))
    BY <2>1, RestOfEffects, LeftOfRest
  <2> QED
    BY <2>1, <2>2
<1>3. PICK m : m = running[s].message
  OBVIOUS
<1>4. c \in Reporters =>
        /\ Kept(c) \/ EncryptsFirst(t)
        /\ "encryption" \in Left(t) => m.encryption \in requested[c]
  BY <1>1, <1>2, <1>3 DEF EncryptionKept, RunEncrypts
<1>5. c \in Reporters /\ e # "encryption" =>
        /\ Kept(c) \/ EncryptsFirst(Tail(t))
        /\ e \in {"channelOpen", "OPEN_RESPONSE"} => Kept(c)
  BY <1>2, <1>4, StillEncryptsFirst
<1>6. /\ \A d \in Live \ {c} : object'[d] = object[d]
      /\ object'[c].encryption =
           IF e = "encryption" THEN m.encryption ELSE object[c].encryption
      /\ e # "channelOpen" => object'[c].channelOpen = object[c].channelOpen
      /\ running' = [running EXCEPT ![s] = running'[s]]
      /\ \/ running'[s] = Idle
         \/ /\ running'[s].class = c /\ running'[s].todo = Tail(t)
            /\ running'[s].message.encryption = m.encryption
      /\ opened' = opened \/ (e = "OPEN_RESPONSE" /\ opened' = opened \cup {c})
      /\ sent' = sent \/ sent'.what = e
  <2>1. CASE Inside(s)
    <3>1. PICK o \in Members :
            object' = [object EXCEPT ![c] = o] /\ Changes(s, e, m, object[c], o)
      BY <1>2, <1>3, <2>1 DEF Inside
    <3>2. object'[c] = o /\ \A d \in Live \ {c} : object'[d] = object[d]
      BY <3>1 DEF IInv, TypesKept
    <3>3. /\ object'[c].encryption =
               IF e = "encryption" THEN m.encryption ELSE object[c].encryption
          /\ e # "channelOpen" => object'[c].channelOpen = object[c].channelOpen
      BY <3>1, <3>2 DEF Changes
    <3> QED
      BY <1>2, <1>3, <2>1, <3>2, <3>3 DEF Inside
  <2>2. CASE MediaDeclined(s)
    <3>1. /\ running' = [running EXCEPT ![s] = Idle] /\ e = "testSession"
          /\ UNCHANGED <<object, opened, sent>>
      BY <1>2, <2>2 DEF MediaDeclined
    <3> QED
      BY <3>1 DEF IInv, TypesKept
  <2>3. CASE e \notin Effects /\ Answer(s, e)
    <3>1. /\ object' = object /\ (sent' = sent \/ sent'.what = e)
          /\ opened' = opened \/ (e = "OPEN_RESPONSE" /\ opened' = opened \cup {c})
      BY <1>2, <2>3 DEF Answer, Give
    <3>2. /\ running' = [running EXCEPT ![s] = running'[s]]
          /\ running'[s].class = c /\ running'[s].todo = Tail(t)
          /\ running'[s].message = [m EXCEPT !.answered = TRUE]
      BY <1>1, <1>2, <1>3, <2>3, AnswerRuns
    <3>3. running'[s].message.encryption = m.encryption
      <4>1. m \in Messages
        BY <1>1, <1>3, RunFacts
      <4> QED
        BY <3>2, <4>1 DEF Messages
    <3> QED
      BY <2>3, <3>1, <3>2, <3>3 DEF Effects
  <2> QED
    BY <1>2, <2>1, <2>2, <2>3, StepCases
<1>7. \A d \in Reporters \cap Live : Kept(d) => Kept(d)'
  <2>1. c \in Reporters /\ Kept(c) => Kept(c)'
    BY <1>1, <1>2, <1>4, <1>6 DEF Kept
  <2>2. \A d \in Live \ {c} : Kept(d) => Kept(d)'
    BY <1>1, <1>6 DEF Kept
  <2> QED
    BY <2>1, <2>2
<1>8. c \in Reporters /\ e = "encryption" => Kept(c)'
  BY <1>1, <1>2, <1>4, <1>6 DEF Kept
<1>9. Live' = Live /\ Sessions' = Sessions
  BY <1>1, SameLoad
<1>10. ObjectsKept'
  <2>1. ASSUME NEW d \in Reporters \cap Live, d \in opened' \/ object'[d].channelOpen
        PROVE  Kept(d)'
    <3>1. CASE d # c
      <4>1. d \in opened \/ object[d].channelOpen
        BY <1>6, <2>1, <3>1
      <4> QED
        BY <1>7, <4>1 DEF EncryptionKept, ObjectsKept
    <3>2. CASE d = c
      <4>1. d \in opened \/ object[d].channelOpen \/ e \in {"channelOpen", "OPEN_RESPONSE"}
        BY <1>6, <2>1, <3>2
      <4>2. Kept(d)
        BY <1>5, <3>2, <4>1 DEF EncryptionKept, ObjectsKept
      <4> QED
        BY <1>7, <4>2
    <3> QED
      BY <3>1, <3>2
  <2> QED
    BY <1>9, <2>1 DEF ObjectsKept
<1>11. ReportKept'
  BY <1>1, <1>7, <1>9 DEF EncryptionKept, ReportKept
<1>12. ReportSent'
  <2>1. CASE sent' = sent
    BY <1>1, <1>9, <2>1, SentStays DEF EncryptionKept
  <2>2. CASE sent'.what = e
    <3>1. e # "REPORT"
      BY <1>2 DEF EffectNames, Effects, Replies
    <3> QED
      BY <2>2, <3>1 DEF ReportSent, ReportsAsRequested
  <2> QED
    BY <1>6, <2>1, <2>2
<1>13. ASSUME NEW r \in Sessions
       PROVE  RunEncrypts(r)'
  <2>1. CASE r = s
    <3>1. c \in Reporters =>
            /\ Kept(c)' \/ EncryptsFirst(Tail(t))
            /\ "encryption" \in Left(Tail(t)) => m.encryption \in requested'[c]
      BY <1>1, <1>2, <1>4, <1>5, <1>7, <1>8
    <3> QED
      BY <1>6, <2>1, <3>1 DEF RunEncrypts
  <2>2. CASE r # s
    <3>1. running'[r] = running[r]
      BY <1>6, <2>2 DEF IInv, TypesKept
    <3>2. RunEncrypts(r) /\ (running[r] # Idle => running[r].class \in Live)
      BY RunFacts DEF EncryptionKept
    <3> QED
      BY <1>1, <1>7, <3>1, <3>2 DEF RunEncrypts
  <2> QED
    BY <2>1, <2>2
<1> QED
  BY <1>9, <1>10, <1>11, <1>12, <1>13 DEF EncryptionKept

LEMMA FinishEncryption ==
  ASSUME IInv, EncryptionKept, NEW s \in Sessions, Finish(s)
  PROVE  EncryptionKept'
<1>1. /\ running' = [running EXCEPT ![s] = Idle]
      /\ UNCHANGED <<load, object, sent, opened, report, requested>>
  BY DEF Finish
<1>2. \A t \in Sessions : running'[t] = IF t = s THEN Idle ELSE running[t]
  BY <1>1 DEF IInv, TypesKept
<1>3. Live' = Live /\ Sessions' = Sessions
  BY <1>1, SameLoad
<1>4. \A t \in Sessions : RunEncrypts(t)'
  BY <1>1, <1>2 DEF EncryptionKept, RunEncrypts, Kept
<1>5. ObjectsKept' /\ ReportKept' /\ ReportSent'
  BY <1>1, <1>3, SentStays DEF EncryptionKept, ObjectsKept, ReportKept, Kept
<1> QED
  BY <1>3, <1>4, <1>5 DEF EncryptionKept

\* A report goes out as the object keeps it.
LEMMA ReportEncryption ==
  ASSUME IInv, EncryptionKept, SendReport
  PROVE  EncryptionKept'
<1>1. PICK c \in Reporters \cap Live : c = report.class /\ (c = MIC => Kept(c))
  BY DEF SendReport, EncryptionKept, ReportKept
<1>2. /\ UNCHANGED <<load, object, running, opened, requested>>
      /\ report' = IF report.parts = 1 THEN Idle ELSE [report EXCEPT !.parts = @ - 1]
      /\ \/ sent' = sent
         \/ sent' = [to |-> sender[c], from |-> 0, class |-> c, what |-> "REPORT",
                     encryption |-> object[c].encryption, opened |-> c \in opened,
                     session |-> NoSession, started |-> 0]
  BY <1>1 DEF SendReport, Give
<1>3. Live' = Live
  BY <1>2, SameLoad
<1>4. sent' = sent \/ ReportSent'
  <2>1. CASE sent' = [to |-> sender[c], from |-> 0, class |-> c, what |-> "REPORT",
                      encryption |-> object[c].encryption, opened |-> c \in opened,
                      session |-> NoSession, started |-> 0]
    <3>1. /\ sent'.opened <=> c \in opened
          /\ sent'.encryption = object[c].encryption /\ sent'.class = c
      BY <2>1
    <3>2. c \in opened \/ c = MIC => Kept(c)
      BY <1>1 DEF EncryptionKept, ObjectsKept
    <3> QED
      BY <1>1, <1>2, <1>3, <3>1, <3>2 DEF ReportSent, ReportsAsRequested, Kept, MIC
  <2> QED
    BY <1>2, <2>1
<1>5. ReportKept'
  <2>1. report' = Idle \/ report'.class = c
    BY <1>1, <1>2
  <2>2. Kept(c) => Kept(c)'
    BY <1>2 DEF Kept
  <2> QED
    BY <1>1, <1>3, <2>1, <2>2 DEF ReportKept
<1> QED
  BY <1>2, <1>4, <1>5, EncryptionStays

\* A report is made where the object says so.
LEMMA BeginEncryption ==
  ASSUME IInv, EncryptionKept, NEW c \in Live, NEW n \in Parts(c), BeginReport(c, n)
  PROVE  EncryptionKept'
<1>1. /\ UNCHANGED <<load, object, running, opened, sent, requested>>
      /\ report' = [class |-> c, parts |-> n] /\ MaySend(c)
  BY DEF BeginReport
<1>2. c \in Reporters
  BY DEF Parts, Reporters
<1>3. c = MIC => Kept(c)
  BY <1>1, <1>2 DEF MaySend, MIC, EncryptionKept, ObjectsKept
<1>4. ReportKept'
  <2>1. Live' = Live /\ report'.class = c
    BY <1>1, SameLoad
  <2>2. Kept(c) => Kept(c)'
    BY <1>1 DEF Kept
  <2> QED
    BY <1>2, <1>3, <2>1, <2>2 DEF ReportKept
<1> QED
  BY <1>1, <1>4, EncryptionStays

\* The services send no reports of the local transport.
LEMMA ServicesReportNothing ==
  ASSUME NEW c \in DOMAIN Services
  PROVE  "REPORT" \notin Services[c].sends
<1>1. Services[c] \in {AudioMediaSinkService, MediaSourceService, BluetoothService,
                       NavigationStatusService, MediaPlaybackStatusService,
                       SensorSourceService, InputSourceService, WifiProjectionService,
                       RadioService, PhoneStatusService, VendorExtensionService,
                       GenericNotificationService, MediaBrowserService}
  BY DEF Services
<1>2. /\ "REPORT" \notin AudioMediaSinkService.sends
      /\ "REPORT" \notin MediaSourceService.sends /\ "REPORT" \notin BluetoothService.sends
      /\ "REPORT" \notin NavigationStatusService.sends
      /\ "REPORT" \notin MediaPlaybackStatusService.sends
      /\ "REPORT" \notin SensorSourceService.sends
      /\ "REPORT" \notin InputSourceService.sends
  BY DEF AudioMediaSinkService, MediaSourceService, BluetoothService,
         NavigationStatusService, MediaPlaybackStatusService, SensorSourceService,
         InputSourceService
<1>3. /\ "REPORT" \notin WifiProjectionService.sends /\ "REPORT" \notin RadioService.sends
      /\ "REPORT" \notin PhoneStatusService.sends
      /\ "REPORT" \notin VendorExtensionService.sends
      /\ "REPORT" \notin GenericNotificationService.sends
      /\ "REPORT" \notin MediaBrowserService.sends
  BY DEF WifiProjectionService, RadioService, PhoneStatusService, VendorExtensionService,
         GenericNotificationService, MediaBrowserService
<1> QED
  BY <1>1, <1>2, <1>3

LEMMA NextEncryption ==
  ASSUME IInv, EncryptionKept, [Next]_<<interceptorVars, queue, serviceVars>>
  PROVE  EncryptionKept'
<1>1. ASSUME UNCHANGED <<load, object, running, opened, report, requested>>,
             sent' = sent \/ sent'.what # "REPORT"
      PROVE  EncryptionKept'
  <2>1. ReportKept'
    BY <1>1, SameLoad DEF EncryptionKept, ReportKept, Kept
  <2>2. sent' = sent \/ ReportSent'
    BY <1>1 DEF ReportSent, ReportsAsRequested
  <2> QED
    BY <1>1, <2>1, <2>2, EncryptionStays
<1>2. CASE CreateSession \/ SetMessageSender \/ \E t \in Sessions : SplitDone(t)
  <2>1. UNCHANGED <<load, object, running, opened, report, requested, sent>>
    BY <1>2 DEF CreateSession, SetMessageSender, SplitDone
  <2> QED
    BY <1>1, <2>1
<1>3. CASE InterceptorNext
  BY <1>2, <1>3, HandleEncryption, StepEncryption, FinishEncryption, BeginEncryption,
     ReportEncryption DEF InterceptorNext
<1>4. CASE Resolve \/ MessageHandler \/ ReceiveFails
             \/ UNCHANGED <<interceptorVars, queue, serviceVars>>
  <2>1. UNCHANGED <<load, object, running, opened, report, requested, sent>>
    BY <1>4 DEF Resolve, MessageHandler, ReceiveFails, interceptorVars
  <2> QED
    BY <1>1, <2>1
<1>5. ASSUME NEW c \in DOMAIN Services, NEW what \in Services[c].sends, EventReturns(c, what)
      PROVE  EncryptionKept'
  <2>1. UNCHANGED <<load, object, running, opened, report, requested>> /\ sent'.what = what
    BY <1>5 DEF EventReturns
  <2>2. what # "REPORT"
    BY ServicesReportNothing
  <2> QED
    BY <1>1, <2>1, <2>2
<1> QED
  BY <1>3, <1>4, <1>5 DEF Next

(***************************************************************************)
(* Audio, and what is reported on a channel whose open request was         *)
(* answered, goes out with an encryption that a phone requested, in every  *)
(* order of the readers' stores and the report's tests and reads           *)
(* (SensorMessageHandlers.cpp:79-106, InputSourceMessageHandlers.cpp:      *)
(* 142-171, MediaSourceMessageHandlers.cpp:181-230).                       *)
(***************************************************************************)
THEOREM ReportsGoAsRequested == Spec => []ReportsAsRequested
<1>1. Init => EncryptionKept
  BY DEF Init, InterceptorInit, EncryptionKept, ObjectsKept, ReportKept, ReportSent,
         RunEncrypts, ReportsAsRequested, NewObject
<1>2. IInv /\ EncryptionKept /\ [Next]_<<interceptorVars, queue, serviceVars>>
        => EncryptionKept'
  BY NextEncryption
<1>3. EncryptionKept => ReportsAsRequested
  BY DEF EncryptionKept, ReportSent
<1> QED
  BY <1>1, <1>2, <1>3, Invariance, PTL DEF Spec

(***************************************************************************)
(* Answers.  A request that is taken is answered by one effect of its      *)
(* handler; between that effect and the handler's return it is answered    *)
(* and not yet counted as taken.                                           *)
(***************************************************************************)
EntryOf(r) == Entry(r.class, r.message.id)
Requested(r) == Answers(r.message.id, EntryOf(r))
Replying(t) == \E i \in 1..Len(t) : t[i] \in Replies

RunReplies(r) ==
    /\ ~EntryOf(r).taken
         => ~r.message.answered /\ \A i \in 1..Len(r.todo) : r.todo[i] \in Effects
    /\ \A i \in 1..Len(r.todo) :
         r.todo[i] = "testSession" => i = 1 /\ ~r.message.answered /\ Replying(r.todo)
    /\ \A i, j \in 1..Len(r.todo) : r.todo[i] \in Replies /\ r.todo[j] \in Replies => i = j
    /\ Replying(r.todo) => Requested(r)

\* The sessions whose request is answered and not yet counted.
Replied(r) == r # Idle /\ Requested(r) /\ ~Replying(r.todo)
Answered == {s \in Sessions : Replied(running[s])}

AnswersKept ==
    /\ \A s \in Sessions : running[s] # Idle => RunReplies(running[s])
    /\ owed \in Nat /\ given = owed + Cardinality(Answered)
    /\ \A i \in DOMAIN queue : ~queue[i].answered

\* What runs when a message begins.
LEMMA BeginsReplying ==
  ASSUME NEW c, NEW m, ~m.answered, Entry(c, m.id) \in Entries(m.id),
         NEW r, r = [class |-> c, message |-> m, todo |-> Entry(c, m.id).does]
  PROVE  RunReplies(r) /\ (Requested(r) => Replying(r.todo))
<1>1. PICK e \in Entries(m.id) : e = Entry(c, m.id)
  OBVIOUS
<1>2. /\ EntryOf(r) = e /\ r.todo = e.does /\ r.message = m
      /\ Requested(r) <=> Answers(m.id, e)
  BY <1>1 DEF EntryOf, Requested
<1>3. Answers(m.id, e) <=> Replying(e.does)
  BY EntryFacts DEF Replying
<1> QED
  BY <1>2, <1>3, EntryFacts DEF RunReplies

\* What runs after an effect that is no answer, or with it.
LEMMA GoesOnReplying ==
  ASSUME NEW r, NEW q, RunReplies(r), r.todo \in Seq(EffectNames), r.todo # <<>>,
         q.class = r.class, q.message.id = r.message.id, q.todo = Tail(r.todo),
         q.message.answered = r.message.answered \/ Head(r.todo) \notin Effects
  PROVE  /\ RunReplies(q) /\ (Requested(q) <=> Requested(r))
         /\ Head(r.todo) \notin Replies => (Replying(q.todo) <=> Replying(r.todo))
         /\ Head(r.todo) \in Replies => Replying(r.todo) /\ ~Replying(q.todo)
<1>0. PICK e : e = EntryOf(r)
  OBVIOUS
<1>1. PICK t \in Seq(EffectNames) : t = r.todo /\ t # <<>> /\ e = EntryOf(r)
  BY <1>0
<1>2. /\ q.todo = Tail(t) /\ EntryOf(q) = e /\ (Requested(q) <=> Requested(r))
  BY <1>1 DEF EntryOf, Requested
<1>3. /\ Head(t) = t[1] /\ Len(Tail(t)) = Len(t) - 1 /\ Len(t) \in Nat \ {0}
      /\ \A i \in 1..Len(Tail(t)) : i + 1 \in 1..Len(t) /\ Tail(t)[i] = t[i + 1]
  BY <1>1, RestOfEffects
<1>4. \A i \in 2..Len(t) : i - 1 \in 1..Len(Tail(t)) /\ t[i] = Tail(t)[i - 1]
  BY <1>3
<1>5. \A i \in 1..Len(Tail(t)) : Tail(t)[i] # "testSession"
  BY <1>1, <1>3 DEF RunReplies
<1>6. Head(t) \notin Replies => (Replying(Tail(t)) <=> Replying(t))
  <2>1. ASSUME Replying(Tail(t))
        PROVE  Replying(t)
    <3>1. PICK i \in 1..Len(Tail(t)) : Tail(t)[i] \in Replies
      BY <2>1 DEF Replying
    <3>2. i + 1 \in 1..Len(t) /\ t[i + 1] \in Replies
      BY <1>3, <3>1
    <3> QED
      BY <3>2 DEF Replying
  <2>2. ASSUME Head(t) \notin Replies, Replying(t)
        PROVE  Replying(Tail(t))
    <3>1. PICK i \in 1..Len(t) : t[i] \in Replies
      BY <2>2 DEF Replying
    <3>2. i # 1
      BY <1>3, <2>2, <3>1
    <3>3. i \in 2..Len(t)
      BY <1>3, <3>1, <3>2
    <3>4. i - 1 \in 1..Len(Tail(t)) /\ Tail(t)[i - 1] \in Replies
      BY <1>4, <3>1, <3>3
    <3> QED
      BY <3>4 DEF Replying
  <2> QED
    BY <2>1, <2>2
<1>7. Head(t) \in Replies => Replying(t) /\ ~Replying(Tail(t))
  BY <1>1, <1>3 DEF Replying, RunReplies
<1>8. \A i, j \in 1..Len(Tail(t)) :
        Tail(t)[i] \in Replies /\ Tail(t)[j] \in Replies => i = j
  <2>1. ASSUME NEW i \in 1..Len(Tail(t)), NEW j \in 1..Len(Tail(t)),
               Tail(t)[i] \in Replies, Tail(t)[j] \in Replies
        PROVE  i = j
    <3>1. /\ i + 1 \in 1..Len(t) /\ j + 1 \in 1..Len(t)
          /\ t[i + 1] \in Replies /\ t[j + 1] \in Replies
      BY <1>3, <2>1
    <3>2. i + 1 = j + 1
      BY <1>1, <3>1 DEF RunReplies
    <3> QED
      BY <3>2
  <2> QED
    BY <2>1
<1>9. ~e.taken => /\ ~q.message.answered
                  /\ \A i \in 1..Len(Tail(t)) : Tail(t)[i] \in Effects
  <2>1. ~e.taken => ~r.message.answered /\ \A i \in 1..Len(t) : t[i] \in Effects
    BY <1>1 DEF RunReplies
  <2> QED
    BY <1>1, <1>3, <2>1
<1>10. Replying(Tail(t)) => Requested(q)
  <2>1. Replying(Tail(t)) => Replying(t)
    BY <1>6, <1>7
  <2> QED
    BY <1>1, <1>2, <2>1 DEF RunReplies
<1>11. RunReplies(q)
  BY <1>2, <1>5, <1>8, <1>9, <1>10 DEF RunReplies
<1> QED
  BY <1>1, <1>2, <1>6, <1>7, <1>11

\* Sessions are few, and so are those in Answered.
LEMMA AnsweredCount ==
  ASSUME IInv
  PROVE  /\ Cardinality(Answered) \in Nat
         /\ \A s : /\ Cardinality(Answered \cup {s})
                        = IF s \in Answered THEN Cardinality(Answered)
                          ELSE Cardinality(Answered) + 1
                   /\ Cardinality(Answered \ {s})
                        = IF s \in Answered THEN Cardinality(Answered) - 1
                          ELSE Cardinality(Answered)
<1>1. load.sessions \in Nat
  BY LoadsAssumption DEF IInv, TypesKept
<1>2. IsFiniteSet(Sessions)
  BY <1>1, FS_Interval DEF Sessions
<1>3. Answered \in SUBSET Sessions
  BY DEF Answered
<1>4. IsFiniteSet(Answered)
  BY <1>2, <1>3, FS_Subset
<1> QED
  BY <1>4, FS_CardinalityType, FS_AddElement, FS_RemoveElement

\* When what runs in one session changes, the counts change as it did.
LEMMA AnswersAfter ==
  ASSUME IInv, AnswersKept, NEW s \in Sessions, load' = load,
         running' = [running EXCEPT ![s] = running'[s]],
         running'[s] # Idle => RunReplies(running'[s]),
         owed' \in Nat,
         given' = given + (owed' - owed)
                    + (IF Replied(running'[s]) THEN 1 ELSE 0)
                    - (IF Replied(running[s]) THEN 1 ELSE 0),
         \A i \in DOMAIN queue' : ~queue'[i].answered
  PROVE  AnswersKept'
<1>1. Sessions' = Sessions
  BY SameLoad
<1>2. \A t \in Sessions : t # s => running'[t] = running[t]
  BY DEF IInv, TypesKept
<1>3. \A t \in Sessions : running'[t] # Idle => RunReplies(running'[t])
  BY <1>2 DEF AnswersKept
<1>4. Answered' = {t \in Sessions : Replied(running'[t])}
  BY <1>1 DEF Answered
<1>5. s \in Answered <=> Replied(running[s])
  BY DEF Answered
<1>6. Answered' = IF Replied(running'[s]) THEN Answered \cup {s} ELSE Answered \ {s}
  BY <1>2, <1>4 DEF Answered
<1>7. Cardinality(Answered') = Cardinality(Answered)
                                 + (IF Replied(running'[s]) THEN 1 ELSE 0)
                                 - (IF Replied(running[s]) THEN 1 ELSE 0)
  <2>0. PICK n \in Nat : n = Cardinality(Answered)
    BY AnsweredCount
  <2>1. CASE Replied(running'[s])
    <3>1. Answered' = Answered \cup {s}
      BY <1>6, <2>1
    <3>2. Cardinality(Answered') = IF s \in Answered THEN n ELSE n + 1
      BY <3>1, <2>0, AnsweredCount
    <3> QED
      BY <1>5, <2>0, <2>1, <3>2
  <2>2. CASE ~Replied(running'[s])
    <3>1. Answered' = Answered \ {s}
      BY <1>6, <2>2
    <3>2. Cardinality(Answered') = IF s \in Answered THEN n - 1 ELSE n
      BY <3>1, <2>0, AnsweredCount
    <3> QED
      BY <1>5, <2>0, <2>2, <3>2
  <2> QED
    BY <2>1, <2>2
<1>8. owed \in Nat /\ given = owed + Cardinality(Answered) /\ Cardinality(Answered) \in Nat
  BY AnsweredCount DEF AnswersKept
<1>9. given' = owed' + Cardinality(Answered')
  BY <1>7, <1>8
<1> QED
  BY <1>1, <1>3, <1>9 DEF AnswersKept

\* A message that nobody answered may be declined.
LEMMA QueueIsUnanswered ==
  ASSUME IInv, AnswersKept, NEW m \in Messages, ~m.answered, Decline(m)
  PROVE  \A i \in DOMAIN queue' : ~queue'[i].answered
<1>1. queue \in Seq(Messages) /\ \A i \in DOMAIN queue : ~queue[i].answered
  BY DEF IInv, TypesKept, AnswersKept
<1>2. CASE queue' = queue
  BY <1>1, <1>2
<1>3. CASE queue' = Append(queue, m)
  BY <1>1, <1>3, AppendProperties
<1> QED
  BY <1>2, <1>3 DEF Decline

LEMMA HandleAnswers ==
  ASSUME IInv, AnswersKept, NEW s \in Sessions, NEW c \in Live, NEW id \in load.ids[c],
         NEW p \in Payloads, NEW x \in load.encryptions, NEW n \in Carried(id),
         Handle(s, Message(c, id, p, x, n))
  PROVE  AnswersKept'
<1>1. PICK m \in Messages : m = Message(c, id, p, x, n)
  BY HandleBegins
<1>2. m.id = id /\ ~m.answered
  BY <1>1 DEF Message
<1>3. /\ running[s] = Idle /\ load' = load /\ owed' = owed /\ given' = given
      /\ \/ running' = running /\ Decline(m)
         \/ /\ Entry(c, id) \in Entries(id) /\ queue' = queue
            /\ running' = [running EXCEPT ![s] =
                             [class |-> c, message |-> m, todo |-> Entry(c, id).does]]
  BY <1>1, HandleBegins
<1>4. ~Replied(running[s]) /\ owed' \in Nat /\ given' = given + (owed' - owed) + 0 - 0
  <2>1. owed \in Nat /\ given \in Nat
    BY AnsweredCount DEF AnswersKept
  <2> QED
    BY <1>3, <2>1 DEF Replied
<1>5. CASE running' = running /\ Decline(m)
  <2>1. running' = [running EXCEPT ![s] = running'[s]] /\ ~Replied(running'[s])
    BY <1>3, <1>4, <1>5 DEF IInv, TypesKept
  <2>2. \A i \in DOMAIN queue' : ~queue'[i].answered
    BY <1>2, <1>5, QueueIsUnanswered
  <2> QED
    BY <1>3, <1>4, <1>5, <2>1, <2>2, AnswersAfter
<1>6. CASE /\ Entry(c, id) \in Entries(id) /\ queue' = queue
           /\ running' = [running EXCEPT ![s] =
                            [class |-> c, message |-> m, todo |-> Entry(c, id).does]]
  <2>1. PICK r : r = [class |-> c, message |-> m, todo |-> Entry(c, id).does]
    OBVIOUS
  <2>2. RunReplies(r) /\ (Requested(r) => Replying(r.todo))
    BY <1>2, <1>6, <2>1, BeginsReplying
  <2>3. running'[s] = r /\ running' = [running EXCEPT ![s] = running'[s]]
    BY <1>6, <2>1 DEF IInv, TypesKept
  <2>4. RunReplies(running'[s]) /\ ~Replied(running'[s])
    BY <2>2, <2>3 DEF Replied
  <2>5. \A i \in DOMAIN queue' : ~queue'[i].answered
    BY <1>6 DEF AnswersKept
  <2> QED
    BY <1>3, <1>4, <2>3, <2>4, <2>5, AnswersAfter
<1> QED
  BY <1>3, <1>5, <1>6

\* An effect: an answer is counted when it is given, and only then.
LEMMA StepAnswers ==
  ASSUME IInv, AnswersKept, NEW s \in Sessions, Step(s)
  PROVE  AnswersKept'
<1>0. PICK r : r = running[s] /\ r # Idle
  BY StepCases
<1>1. /\ running[s] # Idle /\ running[s].todo # <<>> /\ load' = load /\ owed' = owed
      /\ created' = created /\ setting' = setting
  BY StepCases
<1>2. PICK t \in Seq(EffectNames), e \in EffectNames :
        r = running[s] /\ t = r.todo /\ t # <<>> /\ e = Head(t) /\ r # Idle
  BY <1>0, <1>1, RunFacts, RestOfEffects
<1>3. /\ RunReplies(r) /\ owed \in Nat /\ given \in Nat
      /\ \A i \in DOMAIN queue : ~queue[i].answered
  BY <1>2, AnsweredCount DEF AnswersKept
<1>4. e = t[1] /\ 1 \in 1..Len(t)
  BY <1>2, RestOfEffects
<1>5. CASE MediaDeclined(s)
  <2>1. ~Replied(r) /\ ~r.message.answered
    BY <1>2, <1>3, <1>4, <1>5 DEF MediaDeclined, RunReplies, Replied
  <2>2. running'[s] = Idle /\ running' = [running EXCEPT ![s] = running'[s]]
    BY <1>5 DEF MediaDeclined, IInv, TypesKept
  <2>3. \A i \in DOMAIN queue' : ~queue'[i].answered
    BY <1>1, <1>2, <1>5, <2>1, QueueIsUnanswered, RunFacts DEF MediaDeclined
  <2>4. ~Replied(running'[s]) /\ given' = given
    BY <1>5, <2>2 DEF MediaDeclined, Replied
  <2>5. given' = given + (owed' - owed) + (IF Replied(running'[s]) THEN 1 ELSE 0)
                   - (IF Replied(running[s]) THEN 1 ELSE 0)
    BY <1>1, <1>2, <1>3, <2>1, <2>4
  <2> QED
    BY <1>1, <1>3, <2>2, <2>3, <2>5, AnswersAfter
<1>6. CASE Inside(s) \/ (e \notin Effects /\ Answer(s, e))
  <2>1. PICK q : q = running'[s]
    OBVIOUS
  <2>2. /\ q.class = r.class /\ q.message.id = r.message.id /\ q.todo = Tail(t)
        /\ q.message.answered = r.message.answered \/ e \notin Effects
        /\ running' = [running EXCEPT ![s] = running'[s]] /\ queue' = queue
        /\ given' = IF e \in Replies THEN given + 1 ELSE given
    <3>1. CASE Inside(s)
      BY <1>2, <2>1, <3>1 DEF Inside, Effects, Replies
    <3>2. CASE e \notin Effects /\ Answer(s, e)
      <4>1. queue' = queue /\ given' = IF e \in Replies THEN given + 1 ELSE given
        BY <3>2 DEF Answer, Replies
      <4>2. r.message \in Messages
        BY <1>1, <1>2, RunFacts
      <4>3. [r.message EXCEPT !.answered = TRUE].id = r.message.id
        BY <4>2 DEF Messages
      <4> QED
        BY <1>1, <1>2, <2>1, <3>2, <4>1, <4>3, AnswerRuns
    <3> QED
      BY <1>6, <3>1, <3>2
  <2>3. /\ RunReplies(q) /\ (Requested(q) <=> Requested(r))
        /\ e \notin Replies => (Replying(q.todo) <=> Replying(t))
        /\ e \in Replies => Replying(t) /\ ~Replying(q.todo)
    BY <1>2, <1>3, <2>2, GoesOnReplying
  <2>4. q # Idle
    <3>1. r.class \in DOMAIN Table
      BY <1>1, <1>2, RunFacts DEF Objects
    <3>2. "none" \notin DOMAIN Table
      BY DEF Table
    <3> QED
      BY <2>2, <3>1, <3>2 DEF Idle
  <2>5. /\ e \notin Replies => (Replied(q) <=> Replied(r))
        /\ e \in Replies => Replied(q) /\ ~Replied(r)
    BY <1>2, <1>3, <2>3, <2>4 DEF Replied, RunReplies
  <2>6. given' = given + (owed' - owed) + (IF Replied(running'[s]) THEN 1 ELSE 0)
                   - (IF Replied(running[s]) THEN 1 ELSE 0)
    <3>1. given' = given + (IF Replied(q) THEN 1 ELSE 0) - (IF Replied(r) THEN 1 ELSE 0)
      BY <1>3, <2>2, <2>5
    <3> QED
      BY <1>1, <1>2, <1>3, <2>1, <3>1
  <2> QED
    BY <1>1, <1>3, <2>1, <2>2, <2>3, <2>6, AnswersAfter
<1> QED
  BY <1>2, <1>5, <1>6, StepCases

\* The handler returns: what it answered is what it takes.
LEMMA FinishAnswers ==
  ASSUME IInv, AnswersKept, NEW s \in Sessions, Finish(s)
  PROVE  AnswersKept'
<1>0. PICK r : r = running[s] /\ r # Idle
  BY DEF Finish
<1>1. PICK m \in Messages :
        r = running[s] /\ m = r.message /\ r # Idle /\ m.class = r.class
  BY <1>0, RunFacts
<1>2. PICK entry : entry = Entry(m.class, m.id)
  OBVIOUS
<1>3. /\ r.todo = <<>> /\ load' = load /\ given' = given
      /\ running' = [running EXCEPT ![s] = Idle]
      /\ IF entry.taken THEN queue' = queue ELSE Decline(m)
      /\ owed' = IF Answers(m.id, entry) THEN owed + 1 ELSE owed
  BY <1>1, <1>2 DEF Finish, Answers
<1>4. /\ RunReplies(r) /\ owed \in Nat /\ given \in Nat
      /\ \A i \in DOMAIN queue : ~queue[i].answered
  BY <1>1, AnsweredCount DEF AnswersKept
<1>5. EntryOf(r) = entry /\ (Replied(r) <=> Answers(m.id, entry))
  BY <1>1, <1>2, <1>3 DEF Replied, Replying, Requested, EntryOf
<1>6. ~entry.taken => ~m.answered
  BY <1>1, <1>4, <1>5 DEF RunReplies
<1>7. \A i \in DOMAIN queue' : ~queue'[i].answered
  BY <1>3, <1>4, <1>6, QueueIsUnanswered
<1>8. /\ running'[s] = Idle /\ running' = [running EXCEPT ![s] = running'[s]]
      /\ ~Replied(running'[s])
  BY <1>3 DEF IInv, TypesKept, Replied
<1>9. given' = given + (owed' - owed) + (IF Replied(running'[s]) THEN 1 ELSE 0)
                 - (IF Replied(running[s]) THEN 1 ELSE 0)
  BY <1>1, <1>3, <1>4, <1>5, <1>8
<1>10. owed' \in Nat
  BY <1>3, <1>4
<1> QED
  BY <1>3, <1>7, <1>8, <1>9, <1>10, AnswersAfter

\* The rest takes from the queue at most.
LEMMA AnswersStay ==
  ASSUME IInv, AnswersKept, UNCHANGED <<load, running, owed, given>>,
         queue' = queue \/ (queue # <<>> /\ queue' = Tail(queue))
  PROVE  AnswersKept'
<1>1. Sessions' = Sessions
  BY SameLoad
<1>2. Answered' = Answered
  BY <1>1 DEF Answered
<1>3. \A i \in DOMAIN queue' : ~queue'[i].answered
  <2>1. queue \in Seq(Messages) /\ \A i \in DOMAIN queue : ~queue[i].answered
    BY DEF IInv, TypesKept, AnswersKept
  <2> QED
    BY <2>1, HeadTailProperties
<1> QED
  BY <1>1, <1>2, <1>3 DEF AnswersKept

LEMMA NextAnswers ==
  ASSUME IInv, AnswersKept, [Next]_<<interceptorVars, queue, serviceVars>>
  PROVE  AnswersKept'
<1>1. ASSUME \/ CreateSession \/ SetMessageSender \/ SendReport
             \/ \E c \in Live : \E n \in Parts(c) : BeginReport(c, n)
             \/ \E t \in Sessions : SplitDone(t)
      PROVE  AnswersKept'
  <2>1. UNCHANGED <<load, running, owed, given, queue>>
    BY <1>1 DEF CreateSession, SetMessageSender, SendReport, BeginReport, SplitDone
  <2> QED
    BY <2>1, AnswersStay
<1>2. CASE InterceptorNext
  BY <1>1, <1>2, HandleAnswers, StepAnswers, FinishAnswers DEF InterceptorNext
<1>3. ASSUME Resolve \/ MessageHandler \/ ReceiveFails
               \/ UNCHANGED <<interceptorVars, queue, serviceVars>>
      PROVE  AnswersKept'
  <2>1. /\ UNCHANGED <<load, running, owed, given>>
        /\ queue' = queue \/ (queue # <<>> /\ queue' = Tail(queue))
    BY <1>3 DEF Resolve, MessageHandler, ReceiveFails, interceptorVars
  <2> QED
    BY <2>1, AnswersStay
<1>4. ASSUME NEW c, NEW what, EventReturns(c, what)
      PROVE  AnswersKept'
  <2>1. UNCHANGED <<load, running, owed, given, queue>>
    BY <1>4 DEF EventReturns
  <2> QED
    BY <2>1, AnswersStay
<1> QED
  BY <1>2, <1>3, <1>4 DEF Next

(***************************************************************************)
(* Every open request and every media frame that a handler takes it        *)
(* answers once, and what is left to the service channel it did not answer *)
(* (MediaSinkVideoMessageHandlers.cpp:149-197 and the other handlers),     *)
(* whatever sessions run beside it.                                        *)
(***************************************************************************)
THEOREM RequestsAreAnsweredOnce == Spec => []OneAnswerPerRequest
<1>1. Init => AnswersKept
  <2>1. ASSUME Init
        PROVE  AnswersKept
    <3>1. /\ owed = 0 /\ given = 0 /\ queue = <<>> /\ running = [s \in Sessions |-> Idle]
      BY <2>1 DEF Init, InterceptorInit
    <3>2. Answered = {}
      BY <3>1 DEF Answered, Replied
    <3> QED
      BY <3>1, <3>2, FS_EmptySet DEF AnswersKept
  <2> QED
    BY <2>1
<1>2. IInv /\ AnswersKept /\ [Next]_<<interceptorVars, queue, serviceVars>>
        => AnswersKept'
  BY NextAnswers
<1>3. IInv /\ AnswersKept => OneAnswerPerRequest
  <2>1. ASSUME IInv, AnswersKept, \A s \in Sessions : running[s] = Idle
        PROVE  owed = given
    <3>1. Answered = {}
      BY <2>1 DEF Answered, Replied
    <3> QED
      BY <2>1, <3>1, FS_EmptySet DEF AnswersKept
  <2> QED
    BY <2>1 DEF AnswersKept, OneAnswerPerRequest
<1> QED
  BY <1>1, <1>2, <1>3, Invariance, PTL DEF Spec

(***************************************************************************)
(* The microphone.  Between the phone's close request and its next open    *)
(* request no handler can set the flag that a report tests, so that the    *)
(* audio which is sent was past the test.  With a second session an open   *)
(* request of one could pass the close request of the other.               *)
(***************************************************************************)
\* Only the microphone's channel has a case for its close request.
LEMMA CloseIsTheMicrophones ==
  ASSUME NEW c, "microphoneClose" \in Named(c)
  PROVE  c = MIC
<1>1. /\ "microphoneClose" \notin DOMAIN Video
      /\ "microphoneClose" \notin DOMAIN InputSource
      /\ "microphoneClose" \notin DOMAIN Sensor
      /\ "microphoneClose" \notin DOMAIN Bluetooth
  BY DEF ++, Open, OpenAndKeep, Unknown, Video, InputOpen, InputSource, Sensor, Bluetooth,
         Indications
<1>2. /\ "microphoneClose" \notin DOMAIN PhoneStatus
      /\ "microphoneClose" \notin DOMAIN GenericNotification
      /\ "microphoneClose" \notin DOMAIN NavigationStatus
      /\ "microphoneClose" \notin DOMAIN MediaBrowser
      /\ "microphoneClose" \notin DOMAIN MediaPlaybackStatus
      /\ "microphoneClose" \notin DOMAIN VendorExtension
  BY DEF ++, OpenAndKeep, Unknown, PhoneStatus, GenericNotification, NavigationStatus,
         MediaBrowser, MediaPlaybackStatus, VendorExtension, Indications
<1>3. "microphoneClose" \notin DOMAIN Radio
  BY DEF ++, OpenAndKeep, Unknown, Radio, Indications, RadioTuning, RadioState
<1>4. /\ "microphoneClose" \notin DOMAIN MediaAudio
      /\ "microphoneClose" \notin DOMAIN GuidanceAudio
      /\ "microphoneClose" \notin DOMAIN SystemAudio
      /\ "microphoneClose" \notin DOMAIN TelephonyAudio
  BY DEF ++, Open, Unknown, AudioSink, MediaAudio, GuidanceAudio, SystemAudio,
         TelephonyAudio, MediaAudioMedia, GuidanceMedia, SystemMedia, TelephonyMedia
<1>5. c \in DOMAIN Table /\ c # MIC => "microphoneClose" \notin DOMAIN Table[c]
  <2>1. c \in DOMAIN Table /\ c # MIC =>
          Table[c] \in {Video, InputSource, Sensor, Bluetooth, PhoneStatus,
                        GenericNotification, NavigationStatus, Radio, MediaBrowser,
                        MediaPlaybackStatus, VendorExtension}
            \/ Table[c] \in {MediaAudio, GuidanceAudio, SystemAudio, TelephonyAudio}
    BY DEF Table, MIC
  <2> QED
    BY <1>1, <1>2, <1>3, <1>4, <2>1
<1>6. c \in DOMAIN Services /\ c # MIC => "microphoneClose" \notin DOMAIN Services[c].ids
  <2>1. "microphoneClose" \notin DOMAIN AudioMediaSinkService.ids
    BY DEF AudioMediaSinkService, Events, ++
  <2>2. c \in DOMAIN Services /\ c # MIC =>
          Services[c] \in {BluetoothService, NavigationStatusService,
                           MediaPlaybackStatusService, SensorSourceService,
                           InputSourceService, WifiProjectionService, RadioService,
                           PhoneStatusService, VendorExtensionService,
                           GenericNotificationService, MediaBrowserService}
            \/ Services[c] = AudioMediaSinkService
    BY DEF Services, MIC
  <2>3. \A x \in {BluetoothService, NavigationStatusService, MediaPlaybackStatusService,
                  SensorSourceService, InputSourceService, WifiProjectionService,
                  RadioService, PhoneStatusService, VendorExtensionService,
                  GenericNotificationService, MediaBrowserService} :
          "microphoneClose" \notin DOMAIN x.ids
    BY DEF Events, BluetoothService, NavigationStatusService, MediaPlaybackStatusService,
           SensorSourceService, InputSourceService, WifiProjectionService, RadioService,
           PhoneStatusService, VendorExtensionService, GenericNotificationService,
           MediaBrowserService
  <2> QED
    BY <2>1, <2>2, <2>3
<1> QED
  BY <1>5, <1>6 DEF Named

\* Its open request is the one that sets the flag, its close request resets it.
LEMMA MicrophoneEntries ==
  ASSUME NEW id \in Named(MIC)
  PROVE  /\ "microphone" \in Left(Entry(MIC, id).does) => id = "microphoneOpen"
         /\ id = "microphoneClose" => "noMicrophone" \in Left(Entry(MIC, id).does)
<1>1. MIC \in DOMAIN Table /\ Table[MIC] = MediaSource
  BY DEF Table, MIC
<1>2. DOMAIN MediaSource
        = {"other", "microphoneOpen", "microphoneClose", "ack", "open", "setup"}
  BY DEF MediaSource, Unknown, MicrophoneRequest, Indications, ++
<1>3. /\ MediaSource["other"].does = <<>>
      /\ MediaSource["microphoneClose"].does = <<"noMicrophone", "MICROPHONE_RESPONSE">>
      /\ MediaSource["ack"].does = <<>>
      /\ MediaSource["open"].does = <<"channel", "encryption", "channelOpen", "OPEN_RESPONSE">>
      /\ MediaSource["setup"].does = <<"SETUP">>
  BY DEF MediaSource, Unknown, MicrophoneRequest, Indications, Indication, ++, Request,
         Declined
<1>4. /\ "microphone" \notin Left(<<>>)
      /\ "microphone" \notin Left(<<"noMicrophone", "MICROPHONE_RESPONSE">>)
      /\ "microphone" \notin Left(<<"channel", "encryption", "channelOpen", "OPEN_RESPONSE">>)
      /\ "microphone" \notin Left(<<"SETUP">>)
      /\ "noMicrophone" \in Left(<<"noMicrophone", "MICROPHONE_RESPONSE">>)
  BY DEF Left
<1>5. Entry(MIC, id) = IF id \in DOMAIN MediaSource THEN MediaSource[id] ELSE MediaSource["other"]
  BY <1>1 DEF Entry
<1>6. CASE id = "microphoneOpen"
  BY <1>6
<1>7. CASE id \in {"other", "microphoneClose", "ack", "open", "setup"}
  BY <1>2, <1>3, <1>4, <1>5, <1>7
<1>8. CASE id \notin DOMAIN MediaSource
  <2>1. Entry(MIC, id).does = <<>> /\ id # "microphoneClose"
    BY <1>2, <1>3, <1>5, <1>8
  <2> QED
    BY <1>4, <2>1
<1> QED
  BY <1>2, <1>6, <1>7, <1>8

\* A phone that may close its microphone has one session.
OneSession ==
    \A l \in Loads : \A c \in DOMAIN l.ids : "microphoneClose" \in l.ids[c] => l.sessions <= 1

Closing == MIC \in Live /\ "microphoneClose" \in load.ids[MIC]
Muted == ~object[MIC].microphone

RunOfMicrophone(s) ==
    LET r == running[s]
    IN  r # Idle =>
          /\ r.class = MIC /\ "microphone" \in Left(r.todo) => r.message.id = "microphoneOpen"
          /\ r.message.id = "microphoneClose" =>
               r.class = MIC /\ Closing /\ ("noMicrophone" \in Left(r.todo) \/ Muted)

MicrophoneKept ==
    /\ late \in Int /\ late <= 1
    /\ \A s \in Sessions : RunOfMicrophone(s)
    /\ report # Idle /\ report.class = MIC => report.parts = 1
    /\ late # Unheard =>
         /\ late >= 0 /\ Closing /\ Muted
         /\ \A s \in Sessions : running[s] # Idle => running[s].message.id # "microphoneOpen"
         /\ late = 1 => report = Idle \/ report.class # MIC

LEMMA OnlySession ==
  ASSUME OneSession, IInv, Closing, NEW s \in Sessions, NEW t \in Sessions
  PROVE  s = t
<1>1. load.sessions \in Nat /\ load.sessions <= 1
  BY LoadsAssumption DEF OneSession, Closing, Live, IInv, TypesKept
<1> QED
  BY <1>1 DEF Sessions

\* A step that leaves the objects and the handlers alone.
LEMMA MicrophoneStays ==
  ASSUME IInv, MicrophoneKept, UNCHANGED <<load, object, running, late>>,
         report' # Idle /\ report'.class = MIC => report'.parts = 1 /\ late # 1
  PROVE  MicrophoneKept'
<1>1. Live' = Live /\ Sessions' = Sessions /\ (Closing' <=> Closing) /\ (Muted' <=> Muted)
  BY SameLoad DEF Closing, Muted
<1>2. \A s \in Sessions : RunOfMicrophone(s)'
  BY <1>1 DEF MicrophoneKept, RunOfMicrophone
<1> QED
  BY <1>1, <1>2 DEF MicrophoneKept

LEMMA HandleMicrophone ==
  ASSUME OneSession, IInv, MicrophoneKept, NEW s \in Sessions, NEW c \in Live,
         NEW id \in load.ids[c], NEW p \in Payloads, NEW x \in load.encryptions,
         NEW n \in Carried(id), Handle(s, Message(c, id, p, x, n))
  PROVE  MicrophoneKept'
<1>1. PICK m : m = Message(c, id, p, x, n) /\ m.id = id
  BY DEF Message
<1>2. /\ id \in Named(c) /\ UNCHANGED <<load, object, report>>
      /\ \/ running' = running
         \/ running' = [running EXCEPT ![s] =
                          [class |-> c, message |-> m, todo |-> Entry(c, id).does]]
  BY <1>1, HandleBegins
<1>3. late' = IF id = "microphoneOpen" THEN Unheard ELSE late
  BY <1>1 DEF Handle
<1>4. Live' = Live /\ Sessions' = Sessions /\ (Closing' <=> Closing) /\ (Muted' <=> Muted)
  BY <1>2, SameLoad DEF Closing, Muted
<1>5. ASSUME NEW t \in Sessions
      PROVE  /\ RunOfMicrophone(t)'
             /\ running'[t] # Idle =>
                  running'[t].message.id = id
                    \/ (running[t] # Idle /\ running'[t].message.id = running[t].message.id)
  <2>1. CASE running'[t] = running[t]
    BY <1>2, <1>4, <2>1 DEF MicrophoneKept, RunOfMicrophone
  <2>2. CASE running'[t] = [class |-> c, message |-> m, todo |-> Entry(c, id).does]
    <3>1. PICK r : r = [class |-> c, message |-> m, todo |-> Entry(c, id).does]
      OBVIOUS
    <3>2. r.class = c /\ r.message.id = id /\ r.todo = Entry(c, id).does
      BY <1>1, <3>1
    <3>3. c = MIC => /\ "microphone" \in Left(r.todo) => id = "microphoneOpen"
                     /\ id = "microphoneClose" => "noMicrophone" \in Left(r.todo)
      BY <1>2, <3>2, MicrophoneEntries
    <3>4. id = "microphoneClose" => c = MIC /\ Closing
      BY <1>2, CloseIsTheMicrophones DEF Closing
    <3>5. running'[t] = r
      BY <2>2, <3>1
    <3> QED
      BY <1>4, <3>2, <3>3, <3>4, <3>5 DEF RunOfMicrophone
  <2>3. \/ running'[t] = running[t]
        \/ running'[t] = [class |-> c, message |-> m, todo |-> Entry(c, id).does]
    BY <1>2 DEF IInv, TypesKept
  <2> QED
    BY <2>1, <2>2, <2>3
<1>6. late \in Int /\ Unheard = -1
  BY DEF MicrophoneKept, Unheard
<1>7. CASE id = "microphoneOpen"
  <2>1. late' = Unheard
    BY <1>3, <1>7
  <2> QED
    BY <1>2, <1>4, <1>5, <1>6, <2>1 DEF MicrophoneKept
<1>8. CASE id # "microphoneOpen"
  <2>1. late' = late
    BY <1>3, <1>8
  <2> QED
    BY <1>2, <1>4, <1>5, <1>8, <2>1 DEF MicrophoneKept
<1> QED
  BY <1>7, <1>8

\* An effect: only the open request's handler sets the flag.
LEMMA StepMicrophone ==
  ASSUME OneSession, IInv, MicrophoneKept, NEW s \in Sessions, Step(s)
  PROVE  MicrophoneKept'
<1>0. PICK id : id = running[s].message.id
  OBVIOUS
<1>1. /\ running[s] # Idle /\ running[s].todo # <<>> /\ load' = load /\ report' = report
      /\ created' = created /\ setting' = setting /\ late' = late
  BY StepCases
<1>2. PICK c \in Live, t \in Seq(EffectNames), e \in EffectNames :
        /\ c = running[s].class /\ t = running[s].todo /\ t # <<>> /\ e = Head(t)
        /\ id = running[s].message.id
  BY <1>0, <1>1, RunFacts, RestOfEffects
<1>3. Left(t) = {e} \cup Left(Tail(t))
  BY <1>2, LeftOfRest
<1>4. /\ c = MIC /\ "microphone" \in Left(t) => id = "microphoneOpen"
      /\ id = "microphoneClose" => c = MIC /\ Closing /\ ("noMicrophone" \in Left(t) \/ Muted)
  BY <1>1, <1>2 DEF MicrophoneKept, RunOfMicrophone
<1>5. /\ c = MIC /\ e = "noMicrophone" => Muted'
      /\ MIC \in Live /\ Muted /\ ~(c = MIC /\ e = "microphone") => Muted'
      /\ running' = [running EXCEPT ![s] = running'[s]]
      /\ \/ running'[s] = Idle
         \/ running'[s].class = c /\ running'[s].todo = Tail(t) /\ running'[s].message.id = id
  <2>1. CASE Inside(s)
    <3>1. PICK o \in Members :
            /\ object' = [object EXCEPT ![c] = o]
            /\ o.microphone = IF e = "microphone" THEN TRUE
                              ELSE IF e = "noMicrophone" THEN FALSE ELSE object[c].microphone
      BY <1>2, <2>1 DEF Inside, Changes
    <3>2. \A d \in Live : object'[d] = IF d = c THEN o ELSE object[d]
      BY <3>1 DEF IInv, TypesKept
    <3>3. /\ c = MIC /\ e = "noMicrophone" => Muted'
          /\ MIC \in Live /\ Muted /\ ~(c = MIC /\ e = "microphone") => Muted'
      <4>1. c = MIC /\ e = "noMicrophone" => Muted'
        BY <3>1, <3>2 DEF Muted
      <4>2. ASSUME MIC \in Live, Muted, ~(c = MIC /\ e = "microphone")
            PROVE  Muted'
        <5>1. CASE c = MIC
          BY <3>1, <3>2, <4>2, <5>1 DEF Muted
        <5>2. CASE c # MIC
          BY <3>2, <4>2, <5>2 DEF Muted
        <5> QED
          BY <5>1, <5>2
      <4> QED
        BY <4>1, <4>2
    <3> QED
      BY <1>2, <2>1, <3>3 DEF Inside
  <2>2. CASE MediaDeclined(s)
    <3>1. object' = object /\ running' = [running EXCEPT ![s] = Idle] /\ e = "testSession"
      BY <1>2, <2>2 DEF MediaDeclined
    <3>2. running'[s] = Idle
      BY <3>1 DEF IInv, TypesKept
    <3> QED
      BY <3>1, <3>2 DEF Muted
  <2>3. CASE e \notin Effects /\ Answer(s, e)
    <3>1. object' = object /\ e # "microphone" /\ e # "noMicrophone"
      BY <2>3 DEF Answer, Effects
    <3>2. /\ running' = [running EXCEPT ![s] = running'[s]]
          /\ running'[s].class = c /\ running'[s].todo = Tail(t)
          /\ running'[s].message = [running[s].message EXCEPT !.answered = TRUE]
      BY <1>1, <1>2, <2>3, AnswerRuns
    <3>3. running[s].message \in Messages
      BY <1>1, RunFacts
    <3>4. [running[s].message EXCEPT !.answered = TRUE].id = running[s].message.id
      BY <3>3 DEF Messages
    <3> QED
      BY <1>2, <3>1, <3>2, <3>4 DEF Muted
  <2> QED
    BY <1>2, <2>1, <2>2, <2>3, StepCases
<1>6. Live' = Live /\ Sessions' = Sessions /\ (Closing' <=> Closing)
  BY <1>1, SameLoad DEF Closing
<1>7. RunOfMicrophone(s)'
  <2>1. CASE running'[s] = Idle
    BY <2>1 DEF RunOfMicrophone
  <2>2. CASE /\ running'[s].class = c /\ running'[s].todo = Tail(t)
             /\ running'[s].message.id = id
    <3>1. c = MIC /\ "microphone" \in Left(Tail(t)) => id = "microphoneOpen"
      BY <1>3, <1>4
    <3>2. ASSUME id = "microphoneClose"
          PROVE  c = MIC /\ Closing /\ ("noMicrophone" \in Left(Tail(t)) \/ Muted')
      <4>1. c = MIC /\ Closing /\ MIC \in Live /\ e # "microphone"
        BY <1>2, <1>3, <1>4, <3>2 DEF Closing
      <4> QED
        BY <1>3, <1>4, <1>5, <3>2, <4>1
    <3> QED
      BY <1>6, <2>2, <3>1, <3>2 DEF RunOfMicrophone
  <2> QED
    BY <1>5, <2>1, <2>2
<1>8. ASSUME NEW r \in Sessions
      PROVE  /\ RunOfMicrophone(r)'
             /\ running'[r] # Idle =>
                  running[r] # Idle /\ running'[r].message.id = running[r].message.id
  <2>1. CASE r = s
    BY <1>1, <1>2, <1>5, <1>7, <2>1
  <2>2. CASE r # s
    <3>1. running'[r] = running[r]
      BY <1>5, <2>2 DEF IInv, TypesKept
    <3>2. ~Closing
      BY <2>2, OnlySession
    <3> QED
      BY <1>6, <3>1, <3>2 DEF MicrophoneKept, RunOfMicrophone
  <2> QED
    BY <2>1, <2>2
<1>9. late # Unheard => Muted'
  <2>1. ASSUME late # Unheard
        PROVE  Muted'
    <3>1. MIC \in Live /\ Muted /\ id # "microphoneOpen"
      BY <1>1, <1>2, <2>1 DEF MicrophoneKept, Closing
    <3> QED
      BY <1>3, <1>4, <1>5, <3>1
  <2> QED
    BY <2>1
<1> QED
  BY <1>1, <1>6, <1>8, <1>9 DEF MicrophoneKept

\* When the close request's handler returns, the flag is reset.
LEMMA FinishMicrophone ==
  ASSUME OneSession, IInv, MicrophoneKept, NEW s \in Sessions, Finish(s)
  PROVE  MicrophoneKept'
<1>1. PICK id : id = running[s].message.id
  OBVIOUS
<1>2. /\ running[s] # Idle /\ running[s].todo = <<>>
      /\ running' = [running EXCEPT ![s] = Idle]
      /\ UNCHANGED <<load, object, report>>
      /\ late' = IF id = "microphoneClose" THEN 0 ELSE late
  BY <1>1 DEF Finish
<1>3. \A t \in Sessions : running'[t] = IF t = s THEN Idle ELSE running[t]
  BY <1>2 DEF IInv, TypesKept
<1>4. Live' = Live /\ Sessions' = Sessions /\ (Closing' <=> Closing) /\ (Muted' <=> Muted)
  BY <1>2, SameLoad DEF Closing, Muted
<1>5. \A t \in Sessions : RunOfMicrophone(t)'
  BY <1>3, <1>4 DEF MicrophoneKept, RunOfMicrophone
<1>6. CASE id # "microphoneClose"
  <2>1. late' = late
    BY <1>2, <1>6
  <2> QED
    BY <1>2, <1>3, <1>4, <1>5, <2>1 DEF MicrophoneKept
<1>7. CASE id = "microphoneClose"
  <2>1. Left(running[s].todo) = {}
    BY <1>2 DEF Left
  <2>2. Closing /\ Muted
    BY <1>1, <1>2, <1>7, <2>1 DEF MicrophoneKept, RunOfMicrophone
  <2>3. \A t \in Sessions : running'[t] = Idle
    BY <1>3, <2>2, OnlySession
  <2>4. late' = 0
    BY <1>2, <1>7
  <2> QED
    BY <1>2, <1>4, <1>5, <2>2, <2>3, <2>4 DEF MicrophoneKept
<1> QED
  BY <1>6, <1>7

LEMMA ReportMicrophone ==
  ASSUME IInv, MicrophoneKept, SendReport
  PROVE  MicrophoneKept'
<1>1. /\ UNCHANGED <<load, object, running>> /\ report # Idle
      /\ report' = IF report.parts = 1 THEN Idle ELSE [report EXCEPT !.parts = @ - 1]
      /\ late' = late \/ (report.class = MIC /\ late # Unheard /\ late' = late + 1)
  BY DEF SendReport, MIC
<1>2. CASE report.class = MIC
  <2>1. report' = Idle
    BY <1>1, <1>2 DEF MicrophoneKept
  <2>2. CASE late' = late
    BY <1>1, <2>1, <2>2, MicrophoneStays
  <2>3. CASE late # Unheard /\ late' = late + 1
    <3>1. late = 0
      BY <1>1, <1>2, <2>3 DEF MicrophoneKept
    <3>2. late' = 1
      BY <2>3, <3>1
    <3>3. /\ Live' = Live /\ Sessions' = Sessions
          /\ (Closing' <=> Closing) /\ (Muted' <=> Muted)
      BY <1>1, SameLoad DEF Closing, Muted
    <3>4. \A s \in Sessions : RunOfMicrophone(s)'
      BY <1>1, <3>3 DEF MicrophoneKept, RunOfMicrophone
    <3> QED
      BY <1>1, <2>1, <2>3, <3>2, <3>3, <3>4 DEF MicrophoneKept
  <2> QED
    BY <1>1, <2>2, <2>3
<1>3. CASE report.class # MIC
  <2>1. report' = Idle \/ report'.class = report.class
    BY <1>1
  <2> QED
    BY <1>1, <1>3, <2>1, MicrophoneStays
<1> QED
  BY <1>2, <1>3

LEMMA NextMicrophone ==
  ASSUME OneSession, IInv, MicrophoneKept, [Next]_<<interceptorVars, queue, serviceVars>>
  PROVE  MicrophoneKept'
<1>1. ASSUME \/ CreateSession \/ SetMessageSender \/ \E t \in Sessions : SplitDone(t)
             \/ Resolve \/ MessageHandler \/ ReceiveFails
             \/ UNCHANGED <<interceptorVars, queue, serviceVars>>
      PROVE  MicrophoneKept'
  <2>1. UNCHANGED <<load, object, running, late, report>>
    BY <1>1 DEF CreateSession, SetMessageSender, SplitDone, Resolve, MessageHandler,
       ReceiveFails, interceptorVars
  <2>2. report' # Idle /\ report'.class = MIC => report'.parts = 1 /\ late # 1
    BY <2>1 DEF MicrophoneKept, Unheard
  <2> QED
    BY <2>1, <2>2, MicrophoneStays
<1>2. ASSUME NEW c \in Live, NEW n \in Parts(c), BeginReport(c, n)
      PROVE  MicrophoneKept'
  <2>1. /\ UNCHANGED <<load, object, running, late>> /\ MaySend(c)
        /\ report'.class = c /\ report'.parts = n
    BY <1>2 DEF BeginReport
  <2>2. c = MIC => n = 1 /\ ~Muted
    BY <2>1 DEF Parts, MIC, MaySend, Muted
  <2>3. late = 1 => Muted
    BY DEF MicrophoneKept, Unheard
  <2> QED
    BY <2>1, <2>2, <2>3, MicrophoneStays
<1>3. CASE InterceptorNext
  BY <1>1, <1>2, <1>3, HandleMicrophone, StepMicrophone, FinishMicrophone,
     ReportMicrophone DEF InterceptorNext
<1>4. ASSUME NEW c, NEW what, EventReturns(c, what)
      PROVE  MicrophoneKept'
  <2>1. UNCHANGED <<load, object, running, late, report>>
    BY <1>4 DEF EventReturns
  <2>2. report' # Idle /\ report'.class = MIC => report'.parts = 1 /\ late # 1
    BY <2>1 DEF MicrophoneKept, Unheard
  <2> QED
    BY <2>1, <2>2, MicrophoneStays
<1> QED
  BY <1>1, <1>3, <1>4 DEF Next

(***************************************************************************)
(* After a phone closed its microphone at most the audio that was past the *)
(* test is sent (MediaSourceMessageHandlers.cpp:142-230).                  *)
(***************************************************************************)
THEOREM MicrophoneStops ==
  ASSUME OneSession
  PROVE  Spec => []MicStopsWhenClosed
<1>1. Init => MicrophoneKept
  BY DEF Init, InterceptorInit, MicrophoneKept, RunOfMicrophone, Unheard
<1>2. IInv /\ MicrophoneKept /\ [Next]_<<interceptorVars, queue, serviceVars>>
        => MicrophoneKept'
  BY NextMicrophone
<1>3. MicrophoneKept => MicStopsWhenClosed
  BY DEF MicrophoneKept, MicStopsWhenClosed
<1> QED
  BY <1>1, <1>2, <1>3, Invariance, PTL DEF Spec

(***************************************************************************)
(* The services.  A channel whose messages all have a case of their own    *)
(* asks for the next message exactly when it is done with the last.        *)
(***************************************************************************)
Breaks == load.attached /\ "MEDIA_BROWSER" \notin Live

ServiceKept ==
    Breaks =>
        /\ promises \in Seq({"handler"}) /\ posted \in Seq(Messages \X {"handler"})
        /\ events \in Nat /\ ~fault
        /\ over => Len(promises) + Len(posted) + events = 0
        /\ ~over => Len(promises) + Len(posted) + events = 1

\* What such a service does with a message.
LEMMA KindsBreak ==
  ASSUME NEW m, m.class \in DOMAIN Services, m.class # "MEDIA_BROWSER",
         NEW kind \in Kinds(m), NEW parses \in Parses(m, kind)
  PROVE  kind \in {"event", "raw", "timestamped", "receive"} /\ parses \in BOOLEAN
<1>1. \A id \in DOMAIN Services[m.class].ids :
        Services[m.class].ids[id] \in {"event", "raw", "timestamped"}
  BY ServiceCases
<1>2. kind \in {"event", "raw", "timestamped", "receive"}
  BY <1>1 DEF Kinds
<1>3. parses \in BOOLEAN
  BY DEF Parses
<1> QED
  BY <1>2, <1>3

\* The interceptor does not touch the services.
LEMMA ServiceStays ==
  ASSUME ServiceKept, load' = load, UNCHANGED serviceVars
  PROVE  ServiceKept'
BY SameLoad DEF ServiceKept, Breaks, serviceVars

LEMMA ResolveService ==
  ASSUME IInv, ServiceKept, Resolve
  PROVE  ServiceKept'
<1>1. /\ promises # <<>> /\ queue # <<>> /\ load' = load
      /\ posted' = Append(posted, <<Head(queue), Head(promises)>>)
      /\ promises' = Tail(promises) /\ UNCHANGED <<events, over, fault>>
  BY DEF Resolve, interceptorVars
<1>2. Messages' = Messages /\ (Breaks' <=> Breaks)
  BY <1>1, SameLoad DEF Breaks
<1>3. ASSUME Breaks
      PROVE  /\ promises' \in Seq({"handler"}) /\ posted' \in Seq(Messages \X {"handler"})
             /\ Len(promises') = Len(promises) - 1 /\ Len(posted') = Len(posted) + 1
             /\ Len(promises) \in Nat /\ Len(posted) \in Nat
  <2>1. /\ promises \in Seq({"handler"}) /\ posted \in Seq(Messages \X {"handler"})
        /\ queue \in Seq(Messages)
    BY <1>3 DEF ServiceKept, IInv, TypesKept
  <2>2. Head(queue) \in Messages /\ Head(promises) \in {"handler"}
    BY <1>1, <2>1, HeadTailProperties
  <2>3. <<Head(queue), Head(promises)>> \in Messages \X {"handler"}
    BY <2>2
  <2>4. promises' \in Seq({"handler"}) /\ Len(promises') = Len(promises) - 1
    BY <1>1, <2>1, HeadTailProperties
  <2>5. posted' \in Seq(Messages \X {"handler"}) /\ Len(posted') = Len(posted) + 1
    BY <1>1, <2>1, <2>3, AppendProperties
  <2> QED
    BY <2>1, <2>4, <2>5, LenProperties
<1> QED
  BY <1>1, <1>2, <1>3 DEF ServiceKept

\* The one message of the strand becomes a call, a new promise or the end.
LEMMA MessageHandlerService ==
  ASSUME IInv, ServiceKept, MessageHandler
  PROVE  ServiceKept'
<1>1. posted # <<>> /\ load' = load /\ posted' = Tail(posted)
  BY DEF MessageHandler, interceptorVars
<1>2. Messages' = Messages /\ (Breaks' <=> Breaks)
  BY <1>1, SameLoad DEF Breaks
<1>3. ASSUME Breaks
      PROVE  /\ promises' \in Seq({"handler"}) /\ posted' \in Seq(Messages \X {"handler"})
             /\ events' \in Nat /\ ~fault'
             /\ over' => Len(promises') + Len(posted') + events' = 0
             /\ ~over' => Len(promises') + Len(posted') + events' = 1
  <2>1. /\ promises \in Seq({"handler"}) /\ posted \in Seq(Messages \X {"handler"})
        /\ events \in Nat /\ ~fault
        /\ over => Len(promises) + Len(posted) + events = 0
        /\ ~over => Len(promises) + Len(posted) + events = 1
    BY <1>3 DEF ServiceKept
  <2>2. /\ Head(posted) \in Messages \X {"handler"}
        /\ posted' \in Seq(Messages \X {"handler"}) /\ Len(posted') = Len(posted) - 1
        /\ Len(posted) \in Nat /\ Len(promises) \in Nat /\ Len(posted) # 0
    BY <1>1, <2>1, HeadTailProperties, LenProperties, EmptySeq
  <2>3. ~over /\ Len(posted') = 0 /\ Len(promises) = 0 /\ events = 0
    BY <2>1, <2>2
  <2>4. PICK m \in Messages : m = Head(posted)[1] /\ Head(posted)[2] = "handler"
    BY <2>2
  <2>5. m.class \in DOMAIN Services /\ m.class # "MEDIA_BROWSER"
    <3>1. m.class \in Live /\ Live \subseteq DOMAIN Services
      BY <1>3, LoadsAssumption DEF Messages, Breaks, Live, IInv, TypesKept
    <3> QED
      BY <1>3, <3>1 DEF Breaks
  <2>6. PICK kind \in Kinds(m) : \E parses \in Parses(m, kind) :
          \/ kind = "receive" /\ DefaultCase("handler")
          \/ /\ kind \in {"event", "raw", "timestamped"}
             /\ EventCase("handler", parses) /\ UNCHANGED promises
          \/ kind = "eventAndReceive"
    BY <2>4 DEF MessageHandler
  <2>7. PICK parses \in Parses(m, kind) :
          \/ DefaultCase("handler")
          \/ EventCase("handler", parses) /\ promises' = promises
          \/ kind = "eventAndReceive"
    BY <2>6
  <2>8. kind # "eventAndReceive" /\ parses \in BOOLEAN
    BY <2>5, KindsBreak
  <2>9. CASE DefaultCase("handler")
    <3>1. promises' = Append(promises, "handler") /\ UNCHANGED <<events, over, fault>>
      BY <2>9 DEF DefaultCase, Receive
    <3>2. promises' \in Seq({"handler"}) /\ Len(promises') = Len(promises) + 1
      BY <2>1, <3>1, AppendProperties
    <3>3. ~over' /\ ~fault' /\ events' = 0
      BY <2>1, <2>3, <3>1
    <3> QED
      BY <2>2, <2>3, <3>2, <3>3
  <2>10. CASE EventCase("handler", parses) /\ promises' = promises
    <3>1. /\ parses => events' = events + 1
          /\ ~parses => events' = events
          /\ fault' = fault
      BY <2>10 DEF EventCase
    <3>2. over' <=> over \/ ~parses
      <4>1. over' = (over \/ ~parses)
        BY <2>10 DEF EventCase
      <4> QED
        BY <4>1
    <3>3. CASE parses
      <4>1. ~over'
        BY <2>3, <3>2, <3>3
      <4>2. events' = 1 /\ ~fault' /\ promises' = promises
        BY <2>1, <2>3, <2>10, <3>1, <3>3
      <4> QED
        BY <2>1, <2>2, <2>3, <4>1, <4>2
    <3>4. CASE ~parses
      BY <2>1, <2>2, <2>3, <2>10, <3>1, <3>2, <3>4
    <3> QED
      BY <3>3, <3>4
  <2> QED
    BY <2>7, <2>8, <2>9, <2>10
<1> QED
  BY <1>2, <1>3 DEF ServiceKept

LEMMA EventReturnsService ==
  ASSUME IInv, ServiceKept, NEW c, NEW what, EventReturns(c, what)
  PROVE  ServiceKept'
<1>1. /\ events > 0 /\ events' = events - 1 /\ promises' = Append(promises, "handler")
      /\ UNCHANGED <<load, posted, over, fault>>
  BY DEF EventReturns, Receive
<1>2. Messages' = Messages /\ (Breaks' <=> Breaks)
  BY <1>1, SameLoad DEF Breaks
<1>3. ASSUME Breaks
      PROVE  /\ promises' \in Seq({"handler"}) /\ Len(promises') = Len(promises) + 1
             /\ Len(promises) \in Nat /\ Len(posted) \in Nat
  BY <1>1, <1>3, AppendProperties, LenProperties DEF ServiceKept
<1> QED
  BY <1>1, <1>2, <1>3 DEF ServiceKept

LEMMA ReceiveFailsService ==
  ASSUME IInv, ServiceKept, ReceiveFails
  PROVE  ServiceKept'
<1>1. /\ promises # <<>> /\ promises' = Tail(promises) /\ over' = TRUE
      /\ UNCHANGED <<load, posted, events, fault>>
  BY DEF ReceiveFails, interceptorVars
<1>2. Messages' = Messages /\ (Breaks' <=> Breaks)
  BY <1>1, SameLoad DEF Breaks
<1>3. ASSUME Breaks
      PROVE  /\ promises' \in Seq({"handler"}) /\ Len(promises') = Len(promises) - 1
             /\ Len(promises) \in Nat \ {0} /\ Len(posted) \in Nat
  BY <1>1, <1>3, HeadTailProperties, LenProperties, EmptySeq DEF ServiceKept
<1> QED
  BY <1>1, <1>2, <1>3 DEF ServiceKept

LEMMA NextService ==
  ASSUME IInv, ServiceKept, [Next]_<<interceptorVars, queue, serviceVars>>
  PROVE  ServiceKept'
<1>1. ASSUME InterceptorNext, UNCHANGED serviceVars
      PROVE  ServiceKept'
  <2>1. load' = load
    <3>1. ASSUME NEW s \in Sessions, NEW m, Handle(s, m) \/ Step(s) \/ Finish(s)
          PROVE  load' = load
      BY <3>1 DEF Handle, Step, Finish
    <3>2. ASSUME \/ CreateSession \/ SetMessageSender \/ SendReport
                 \/ \E c \in Live : \E n \in Parts(c) : BeginReport(c, n)
                 \/ \E t \in Sessions : SplitDone(t)
          PROVE  load' = load
      BY <3>2 DEF CreateSession, SetMessageSender, SendReport, BeginReport, SplitDone
    <3> QED
      BY <1>1, <3>1, <3>2 DEF InterceptorNext
  <2> QED
    BY <1>1, <2>1, ServiceStays
<1>2. CASE UNCHANGED <<interceptorVars, queue, serviceVars>>
  <2>1. load' = load /\ UNCHANGED serviceVars
    BY <1>2 DEF interceptorVars
  <2> QED
    BY <2>1, ServiceStays
<1> QED
  BY <1>1, <1>2, ResolveService, MessageHandlerService, EventReturnsService,
     ReceiveFailsService DEF Next

(***************************************************************************)
(* A service whose cases all break has one promise with the messenger, one *)
(* message on its strand or one call of its event handler, until it told   *)
(* that the channel is over (Channel/*/*Service.cpp, messageHandler).      *)
(***************************************************************************)
THEOREM ServicesAskOnce == Spec => []ServiceAsksOnce
<1>1. Init => ServiceKept
  <2> SUFFICES ASSUME Init, Breaks
               PROVE  ServiceKept
    BY DEF ServiceKept
  <2>1. promises = <<"handler">> /\ posted = <<>> /\ events = 0 /\ ~over /\ ~fault
    BY DEF Init, Breaks
  <2>2. /\ <<"handler">> \in Seq({"handler"}) /\ Len(<<"handler">>) = 1
        /\ <<>> \in Seq(Messages \X {"handler"}) /\ Len(<<>>) = 0
    OBVIOUS
  <2> QED
    BY <2>1, <2>2 DEF ServiceKept
<1>2. IInv /\ ServiceKept /\ [Next]_<<interceptorVars, queue, serviceVars>> => ServiceKept'
  BY NextService
<1>3. ServiceKept => ServiceAsksOnce
  BY DEF ServiceKept, Breaks, ServiceAsksOnce
<1> QED
  BY <1>1, <1>2, <1>3, Invariance, PTL DEF Spec
=============================================================================
