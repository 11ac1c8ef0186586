---------------------------- MODULE ServiceChannel -----------------------------
(***************************************************************************)
(* The service channels of the SDK (Channel/*/*Service.cpp): each asks the *)
(* messenger for one message at a time, sorts it by its id, and leaves it  *)
(* to an event handler, which answers and asks for the next one.  What the *)
(* interceptor declined is what is left for them.                          *)
(***************************************************************************)
EXTENDS Interceptor

VARIABLES
    promises,  \* receive promises of the channel with the messenger, by handler
    posted,    \* resolved promises on the channel's strand: <<message, handler>>
    events,    \* event handler calls that have not returned
    over,      \* onChannelError was called
    fault      \* an event handler was called through a null pointer

serviceVars == <<promises, posted, events, over, fault>>

-----------------------------------------------------------------------------
(***************************************************************************)
(* What messageHandler does with an id: "event" parses and calls, "raw"    *)
(* calls, "timestamped" calls if there are eight bytes.  Every other id is *)
(* logged and the channel asks for the next message.                       *)
(***************************************************************************)
Events(ids) == [id \in ids |-> "event"]

AudioMediaSinkService ==
    [ids |-> Events({"open", "setup", "start", "stop"}) ++
             [codec |-> "raw", data |-> "timestamped"],
     sends |-> {"OPEN_RESPONSE", "CONFIG", "ACK"}]

MediaSourceService ==
    [ids |-> Events({"open", "setup", "microphoneOpen", "microphoneClose", "ack"}),
     sends |-> {"OPEN_RESPONSE", "SETUP", "MICROPHONE_RESPONSE", "MEDIA"}]

BluetoothService ==
    [ids |-> Events({"open", "pairing", "authenticationResult"}),
     sends |-> {"OPEN_RESPONSE", "PAIRING_RESPONSE", "AUTHENTICATION_DATA"}]

NavigationStatusService ==
    [ids |-> Events({"open", "status", "turnEvent", "distanceEvent"}),
     sends |-> {"OPEN_RESPONSE"}]

MediaPlaybackStatusService ==
    [ids |-> Events({"open", "status", "metadata"}), sends |-> {"OPEN_RESPONSE"}]

SensorSourceService ==
    [ids |-> Events({"open", "sensorStart"}),
     sends |-> {"OPEN_RESPONSE", "SENSOR_BATCH", "SENSOR_RESPONSE"}]

InputSourceService ==
    [ids |-> Events({"open", "keyBinding"}),
     sends |-> {"OPEN_RESPONSE", "INPUT_REPORT", "KEY_BINDING_RESPONSE"}]

WifiProjectionService ==
    [ids |-> Events({"open", "credentials"}),
     sends |-> {"OPEN_RESPONSE", "CREDENTIALS_RESPONSE"}]

RadioService == [ids |-> Events({"open"}), sends |-> {"OPEN_RESPONSE"}]
PhoneStatusService == [ids |-> Events({"open"}), sends |-> {"OPEN_RESPONSE"}]
VendorExtensionService == [ids |-> Events({"open"}), sends |-> {"OPEN_RESPONSE"}]
GenericNotificationService == [ids |-> Events({"open"}), sends |-> {"OPEN_RESPONSE"}]

\* The open request falls through to the default branch.
MediaBrowserService ==
    [ids |-> [open |-> "eventAndReceive"], sends |-> {"OPEN_RESPONSE"}]

Services ==
    [MEDIA_SINK_MEDIA_AUDIO |-> AudioMediaSinkService,
     MEDIA_SINK_GUIDANCE_AUDIO |-> AudioMediaSinkService,
     MEDIA_SINK_SYSTEM_AUDIO |-> AudioMediaSinkService,
     MEDIA_SINK_TELEPHONY_AUDIO |-> AudioMediaSinkService,
     MEDIA_SOURCE_MICROPHONE |-> MediaSourceService,
     BLUETOOTH |-> BluetoothService,
     NAVIGATION_STATUS |-> NavigationStatusService,
     MEDIA_PLAYBACK_STATUS |-> MediaPlaybackStatusService,
     SENSOR |-> SensorSourceService,
     INPUT_SOURCE |-> InputSourceService,
     WIFI_PROJECTION |-> WifiProjectionService,
     RADIO |-> RadioService,
     PHONE_STATUS |-> PhoneStatusService,
     VENDOR_EXTENSION |-> VendorExtensionService,
     GENERIC_NOTIFICATION |-> GenericNotificationService,
     MEDIA_BROWSER |-> MediaBrowserService]

\* The ids that the handler or the service of a channel names.
Named(c) ==
    (IF c \in DOMAIN Table THEN DOMAIN Table[c] ELSE {}) \cup
    (IF c \in DOMAIN Services THEN DOMAIN Services[c].ids ELSE {})

ASSUME LoadsAssumption ==
    \A l \in Loads :
        /\ l.sessions \in Nat /\ l.messages \in Nat /\ l.attached \in BOOLEAN
        /\ l.encryptions \subseteq Encryptions
        /\ \A c \in DOMAIN l.ids : l.ids[c] \subseteq Named(c)
        /\ l.attached => DOMAIN l.ids \subseteq DOMAIN Services

\* A payload shorter than an id is read past its end: any id may come of it.
Kinds(m) ==
    LET ids == Services[m.class].ids
        any == {ids[id] : id \in DOMAIN ids} \cup {"receive"}
    IN  IF m.payload = "short" THEN any
        ELSE IF m.id \in DOMAIN ids THEN {ids[m.id]} ELSE {"receive"}

\* Whether it parses is open where the bytes are not those that were meant.
Parses(m, kind) ==
    IF kind = "raw" THEN {TRUE}
    ELSE IF m.payload = "short" THEN BOOLEAN ELSE {m.payload = "good"}

-----------------------------------------------------------------------------
\* The messenger resolves the oldest promise with the oldest message.
Resolve ==
    /\ promises # <<>> /\ queue # <<>>
    /\ posted' = Append(posted, <<Head(queue), Head(promises)>>)
    /\ promises' = Tail(promises)
    /\ queue' = Tail(queue)
    /\ UNCHANGED <<interceptorVars, events, over, fault>>

\* receive(): a promise that calls back with the handler it was asked with.
Receive(handler) == Append(promises, handler)

\* Mutant: an id without a case is logged, and that is all.
DefaultCaseForgets(handler) ==
    /\ UNCHANGED <<promises, events, over, fault>>

DefaultCase(handler) ==
    /\ promises' = Receive(handler)
    /\ UNCHANGED <<events, over, fault>>

\* A parsed message goes to the event handler, another ends in onChannelError.
EventCase(handler, parses) ==
    /\ IF handler = "null"
       THEN fault' = TRUE /\ UNCHANGED <<events, over>>
       ELSE /\ events' = IF parses THEN events + 1 ELSE events
            /\ over' = (over \/ ~parses)
            /\ UNCHANGED fault

MessageHandler ==
    /\ posted # <<>>
    /\ LET m == Head(posted)[1]
           handler == Head(posted)[2]
       IN  \E kind \in Kinds(m) : \E parses \in Parses(m, kind) :
             \/ kind = "receive" /\ DefaultCase(handler)
             \/ /\ kind \in {"event", "raw", "timestamped"}
                /\ EventCase(handler, parses)
                /\ UNCHANGED promises
             \/ /\ kind = "eventAndReceive"
                /\ EventCase(handler, parses)
                /\ promises' = Receive("null")
    /\ posted' = Tail(posted)
    /\ UNCHANGED <<interceptorVars, queue>>

\* The event handler answers what it wants to, and asks for the next message.
EventReturns(c, what) ==
    /\ events > 0
    /\ events' = events - 1
    /\ promises' = Receive("handler")
    /\ sent' = [to |-> created, from |-> 0, class |-> c, what |-> what,
                encryption |-> "ENCRYPTED", opened |-> TRUE,
                session |-> NoSession, started |-> 0]
    /\ UNCHANGED <<load, created, setting, sender, object, running, handled, report,
                   reports, busy, queue, started, requested, opened, late, owed, given,
                   posted, over, fault>>

\* The session ends: the messenger rejects what waits.
ReceiveFails ==
    /\ promises # <<>>
    /\ promises' = Tail(promises)
    /\ over' = TRUE
    /\ UNCHANGED <<interceptorVars, queue, posted, events, fault>>

-----------------------------------------------------------------------------
\* A service that was started has asked once.
Init ==
    /\ InterceptorInit
    /\ promises = IF load.attached THEN <<"handler">> ELSE <<>>
    /\ posted = <<>>
    /\ events = 0
    /\ over = FALSE
    /\ fault = FALSE

Next ==
    \/ InterceptorNext /\ UNCHANGED serviceVars
    \/ Resolve \/ MessageHandler \/ ReceiveFails
    \/ \E c \in Live \cap DOMAIN Services : \E what \in Services[c].sends : EventReturns(c, what)

Spec == Init /\ [][Next]_<<interceptorVars, queue, serviceVars>>

-----------------------------------------------------------------------------
\* A channel with a service has one promise with the messenger, one message on
\* its strand or one call of its event handler, until it told that the channel
\* is over: two promises would start a second receive of the in stream
\* (Messenger.cpp:43), none would leave the channel's messages queued.  The
\* media browser's is the exception: MediaBrowserService.cpp:70 has no break.
ServiceAsksOnce ==
    load.attached /\ "MEDIA_BROWSER" \notin Live =>
        /\ Len(promises) + Len(posted) + events = (IF over THEN 0 ELSE 1)
        /\ ~fault
=============================================================================
