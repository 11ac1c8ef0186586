# OpenAutoCore in TLA+

OpenAutoCore is the head unit side of Android Auto: `OpenAutoSDK` (aasdk) speaks
the protocol with the phone over USB or TCP, and the application under `src/`
finds a phone, runs the session and hands media to other processes. This
directory holds TLA+ models of its concurrent core, TLC runs over small
instances and TLAPS proofs. `SDK` stands for `src/OpenAutoSDK/src` and `APP` for
`src/src` below.

Run a check with `tlc -config MCSharedReader.cfg MCReceivePath.tla` and the proofs
of a module with `tlapm ReceivePathProofs.tla`. `PROJECT.json` lists every run, the source
lines of every definition, the mutants and the hazards.

## 1. How the program runs

Four threads run one `io_service` and four more run libusb events
(`APP/autoapp.cpp:79-106`). Three more meet them: the platform's thread that reports
touches, sensor values and microphone audio, the D-Bus main loop of `btservice`
(`APP/Common/EllMainLoop.cpp`) and the reader of its RFCOMM socket. Almost nothing
locks. Every object has one or two *strands*: a handler dispatched on a
strand never runs beside another of it. `Promise` (`IO/Promise.hpp`) carries
results between strands: `resolve` and `reject` always *post* the handler on the
strand the promise was deferred on. Hence the shape of every model here:

- one action is one handler, run to its end on its strand;
- a result under way is an element of a `posted`-like queue, and handlers of
  other strands may run before it is looked at;
- a call on another strand (`dispatch`) may run at once or later: it is a queue of
  calls (`starts`, `calls`) and the step that runs the first of them.

Where one handler touches an object shared by *two* strands (the cryptor, then
the transport), it is split at that point.

## 2. Inventory

| component | state | operations | talks to | correct when |
|---|---|---|---|---|
| `MessageInStream` | `promise_`, `message_`, `messageBuffer_`, `thisFrameType_`, `isValidFrame_` | `startReceive`, header, size and payload handlers | transport, cryptor, interceptor, messenger | messages are reassembled whole per channel; one receive at a time |
| `Messenger` | promise queue and message queue per channel; send queue | `enqueueReceive`, `enqueueSend`, the two message handlers, two rejections, `stop` | both streams, channels | the shared receive is never lost or doubled; order per channel; sends settle |
| `MessageOutStream`, `MessageSender` | `message_`, `offset_`, `remainingSize_`, `promise_` | `stream`, `streamSplittedMessage` | cryptor, transport | split messages add up; never wedged; never mixed |
| interceptor and handlers | process-wide handler objects: `sender_`, channel and session ids | `handleMessage`, one handler per message id | `MessageSender`, media transport | acknowledges the right session; answers every request |
| `Cryptor`, `SSLWrapper` | TLS session, `isActive_` | `init`, handshake, `encrypt`, `decrypt`, `deinit` | both streams, entity | records in order; not used after `deinit` |
| `Transport`, `DataSink` | `receiveQueue_`, `sendQueue_`, byte buffer | `receive`, `send`, `stop` and their handlers | endpoints | byte stream in order; one transfer at a time each way |
| `USBEndpoint`, `TCPEndpoint` | USB transfers in flight | `bulkTransfer`, `cancelTransfers`; `send`, `receive`, `stop` | libusb, asio | every transfer ends with one outcome |
| `ControlServiceChannel` | none | `receive`, `messageHandler`, one send per message | messenger, entity | one receive outstanding until its handler asks again |
| `AndroidAutoEntity` | `eventHandler_`, handshake progress | `start`, `stop`, one handler per control message, `triggerQuit` | control channel, cryptor, `App` | handshake in order; every error ends the session |
| `App` | `androidAutoEntity_`, `isStopped_`, pending accepts | `start`, `stop`, device, client and quit handlers | entity, hub, acceptor | one session at a time; listens again after each |
| `USBHub`, `ConnectedAccessoriesEnumerator`, `AccessoryModeQueryChain` and queries | one promise each, query in progress, device list | `start`, `enumerate`, `cancel` and handlers | libusb, `App` | every promise settled; cancel is effective |
| `Pinger` | counts, timer, `promise_` | `ping`, `pong`, `cancel` | entity | (not started in this build) |
| other `Channel/*` services | none | `receive`, `messageHandler`, sends | messenger, event handler | one receive outstanding per channel (`ServiceFactory` creates none in this build) |
| `Promise`, `PromiseLink` | two handlers, `ioContextWrapper_` | `then`, `resolve`, `reject`, `forward` | every component | at most one outcome, the first, at the end of a chain |
| frame and message encodings | none | `FrameHeader`, `FrameSize`, `MessageId`: to bytes and back | both streams | the reader finds the parts the writer put down |
| `btservice` | `socketFd_`, `reading_`, `buffer_`, `wifiInterface_` | `start`, connection and disconnection, reader thread | BlueZ, phone, `Configuration` | no bytes cross connections; no descriptor is lost; every whole message is handled |
| `Configuration`, `RecentAddressesList` | settings, buttons, addresses; their files | `load`, `save`, look-up of a parameter | `btservice`, services | what is saved is read back |
| `Projection` | D-Bus proxies | pairing | BlueZ | (single calls) |

What is hard here: handlers of several strands in every order (no test runs more
than one thread), one receive shared by all channels, frames of channels
interleaved on the wire, transfers that cut the byte stream anywhere, failures in
the middle of a split message, and pointers that a later handler trusts. Every
such place is a hazard in `PROJECT.json` with the property that watches it, or
the reason why none does yet.

## 3. The modules

```
   phone ──► TransportReceive ──► MessageInStream ──► Messenger ──► channels
                                        └─► interceptor  (ReceivePath composes the two
                                                          and refines ChannelDelivery)
   AndroidAutoEntity ──► one receive and many sends on the control channel,
        └─► Cryptor      its handshake and its records through the two BIOs
   ServiceChannel ──► the other channels' receives;  what they are left by
        └─► Interceptor ──► HandlerTables   the interceptor's handlers
   channels ──► Messenger send queue ─► MessageOutStream ─┐
   handlers ──► MessageSender ──────────────────────────── ┴► TransportSend ──► phone
                (SendPath composes the queue with both writers; WireFormat is the
                 bytes of what they write)
   Transport = TransportReceive, TransportSend and the Promise chains of a message

   USBHub ──► App ◄── acceptor        (App composes the hub with the sessions it
               └─► sessions            starts and stops, seen from outside)
   AccessoryDiscovery ──► AccessoryModeQueryChain    hub and enumerator with their
                                                     chains, queries and transfers
   BluezBluetoothServer               wireless set-up; reads what Configuration keeps
```

| module | models |
|---|---|
| `MessageInStream` | `SDK/Messenger/MessageInStream.cpp`: `StartReceive`, `ReceiveFrameHeaderHandler`, `ReceiveFrameSizeHandler`, `ReceiveFramePayloadHandler` with its four outcomes, `TransportRejects` |
| `Messenger` | receive side of `SDK/Messenger/Messenger.cpp`: `EnqueueReceive`, `InStreamMessageHandler`, `RejectReceivePromiseQueue`, `Stop` |
| `ReceivePath` | the two composed by shared variables (`starts`, `posted`, `got`), with the phone and the session's failures; the properties |
| `ChannelDelivery` | the abstract promise of the receive path: per channel, each message once and in order |
| `TransportReceive` | `Transport::receive` and what it calls, `DataSink` |
| `TransportSend` | `Transport::send`, `USBTransport` and `TCPTransport` |
| `Promise` | `then`, `resolve`, `reject` and the links of a chain of promises, settled from any thread any number of times |
| `Transport` | the three together, one per behaviour (`side`) |
| `MessageOutStream` | a frame writer, instantiated for `MessageOutStream` and `MessageSender` |
| `SendPath` | the messenger's send queue with its iterators, both writers, the transport's queue |
| `WireFormat` | the bytes of a frame: header, short and extended size, payload, message id, and what the reader takes them apart into |
| `Cryptor` | `Cryptor.cpp` over `SSLWrapper.cpp`: the TLS session with its two BIOs, of any suite that may be negotiated; each member an operator of its caller's step |
| `AndroidAutoEntity` | one session: start, stop and every handler of a control message or an error, the dispatch of `ControlServiceChannel`, over `Cryptor`, with the messenger below and the phone |
| `HandlerTables` | what each of the sixteen handlers of the interceptor does with each message id: stores, tests, answers, takes or declines |
| `Interceptor` | the handler objects across sessions: `setMessageSender`, the readers of old and new sessions, the platform's reports, step by step |
| `ServiceChannel` | the thirteen service classes of `SDK/Channel`, each with its ids and the faults of its own switch |
| `USBHub` | `USBHub.cpp`: `start`, `cancel`, `handleDevice` and hotplug events, without the query chains |
| `App` | `App.cpp` with the hub, the acceptor and the sessions it creates; a session is its start, its stop and its quits |
| `AccessoryModeQueryChain` | the chain, its eight queries and `USBEndpoint`'s transfers with their cancellation |
| `AccessoryDiscovery` | the hub's and the enumerator's chains, and the App that enumerates and cancels |
| `BluezBluetoothServer` | `btservice`: start over D-Bus, the connections, both threads that stop the reading, the messages and the interface offered |
| `Configuration` | what is saved to files and read back, and `getParamFromFile`, as operators |
| `MCReceivePath`, `MCSendPath`, `MCEntity`, `MCChannels`, `MCBluetooth` | values for the runs |
| `...Proofs` | the proofs: `EntityProofs` of `AndroidAutoEntity`, `ChannelProofs` of `Interceptor` and `ServiceChannel`, `DiscoveryProofs` of the two modules of the chains, `TransportProofs` also of `WireFormat`, `BluetoothProofs` also of `Configuration`, the others of the module they are named for |

Variables carry the members' names. Data is abstract: a frame is its channel,
type, message number and position; a message is the list of its frames; a byte
of the stream is its number; a size stands for a payload; a record is the name of
the message its bytes belong to. History variables (`got`, `sent`, `handed`,
`out`, `told`, `took`, `handled`, `wire` of `SendPath`, `started` and `requested` of
`Interceptor`) record what the properties talk about and are read by no guard but
those of the bounds.

`fault` in `MessageInStream`, in a query chain and in `ServiceChannel` makes
undefined behaviour visible: a call through a null `promise_` or event handler, or
a handler given bytes of another part, sets it. `Desynchronised` is the step of the
second kind; only `MCTwoPromises` and `MCLossyPhone`, with two promises of a
channel, reach it.

`AndroidAutoEntity` groups handlers that do the same to the state: audio and
navigation focus are both `OnFocusRequest`, the notices that are only logged, and
the message ids that are not known, are `OnNotice`, and everything that ends in
`triggerQuit` is `OnQuit`. `pause` and `resume` have no caller and are left out, as
is the pinger: `schedulePing` is never called. `App` knows of a session what
`AndroidAutoEntity` shows of it: it may be over at any time, says so at least once
(`EventuallyQuits`), possibly several times, and is silent after its stop.

A handler of the interceptor is a row of `HandlerTables`: a list of effects, one
step each, because no lock keeps the other threads out between them. The four
audio sinks share the shape of a row and have rows of their own, as their code
differs; handlers that only log are rows without effects. A message carries what
the handlers take from it: the encryption it came with, which an open request
leaves in the object and an answer goes out with, and the id of a START.

The suite of a TLS session is a version and what it adds to a record.
`TLS_client_method` restricts neither (`SSLWrapper.cpp:65-71`), while `decrypt`
reckons with 29 bytes (`Cryptor.cpp:148`): `Suites` are any, in proportion to
`Overhead`. Not modelled are suites that add less than half of that (there are
none), session tickets of TLS 1.3 beyond a record in front of a message
(`TwoRecords`), and, of a cut message whose rest is read as another, the ids of the
version exchange and the handshake.

The transport layer below `ReceivePath` and `SendPath` is replaced by what
`TransportReceive` and `TransportSend` are checked to provide: the bytes of the
stream in order, each request answered once; elements sent in order, each
settled once. The same goes for `Promise`: the other modules post one outcome on
the owner's strand, which `FirstCallWins` justifies. Two things a `Promise` does
beyond that, seen while modelling: one that is settled before `then` was called
loses its outcome (`Promise.hpp:57-89`), and `then` may be called twice. Every
caller in the repository calls `then` once and before it hands the promise on.

## 4. What the runs show

Deadlock checking is off everywhere: with the bounds used up, and after a failed
or stopped session, the program really has nothing left to do.

| run | instance | shows |
|---|---|---|
| `MCSharedReader` | 3 channels: two receive, one of them messages split in two; the third is intercepted and split in three; `FairSpec` | `NoFault`; `WholeMessages`; `OneReceiveInFlight`; `NoWaiterBesideMessage`; `ImplementsDelivery`; `EventuallyDelivered` |
| `MCLossyPhone` | the phone leaves frames out; 2 promises per channel | `NoStaleHead` |
| `MCTransport` | chunks of 3 bytes, receives of 0 to 5; elements of up to 3 bytes over USB and TCP; chains of 3 promises; `FairSpec` | `OneReadAtATime`; `BytesInOrder`; `ElementsInOrder`; `FirstCallWins`; `EventuallyHanded`; `EventuallySettled` |
| `MCSendPath` | limit 2, the loads of `MCSendPath.tla`, `FairSpec` | `ResolvedMeansWhole`; `NoInterleaving`; `BusyWriterHasFrame`; `IteratorIsValid`; `EventuallySettled` |
| `MCEntity` | a handshake of 2 flights, 2 messages of the phone after it, reads of 2 bytes; suites of both versions that add as much as `decrypt` reckons with, more and less; `FairSpec` | `AsksOnce`; `NeverDeaf`; `DecryptedWhole`; `NothingLeft`; `EventuallyReady`; `EventuallyQuits` |
| `MCApp` | 2 each of sessions, hotplug events, clients and quits of a session, `FairSpec` | `NoOrphanSession`; `AlwaysListening`; `EventuallyEnded`; `EventuallyListens` |
| `MCChannels` | each handler with two sessions, the microphone beside the video sink, each service behind the interceptor | `NoAnswerToEarlierPhone`; `AckNamesLastStart`; `OneAnswerPerRequest`; `ReportsAsRequested`; `MicStopsWhenClosed`; `ServiceAsksOnce` |
| `MCDiscovery` | the enumerator's list of up to 3 devices and 2 plugged in, 2 cancels, `FairSpec` | `OneStepAtATime`; `SwitchedInOrder`; `EventuallySettled` |
| `MCBluetooth` | 2 connections of 2 messages, no adapter or two, no usable interface or a wireless one behind others | `ConnectionsApart`; `NoLeak`; `EventuallyHandled` |

Each module has one type invariant; it was checked on these instances and is
proved where there is a proof (section 5), and no run repeats it. Facts about
operators are named ASSUMEs, which TLC evaluates before the run: `FrameReadsBack`
and `MessageReadsBack` (`MCSendPath`), `SettingsReadBack`, `ButtonsReadBack`,
`AddressesReadBack` and `CredentialFound` (`MCBluetooth`).

Three runs state what a comment or a test of the repository says and find it
violated:

- `MCOrphanFrame`: `MessageInStream.cpp:83-84` says a MIDDLE or LAST frame
  without a beginning is processed but not resolved. It is put in the buffer
  (line 163), and the next LAST of its channel resolves the rest as a message.
- `MCTwoPromises`: the test `Messenger_OnlyOneReceiveAtATime`. The queue's
  `size()` counts channels, so a second promise of one channel starts a second
  receive. No caller of this build does that.
- `MCIntertwined`: the test `MessageInStream_IntertwinedChannels` expects a
  rejection that the code, which buffers one message per channel, never makes.

**Bounds.** Two messages per channel let one be queued or buffered while the
next is under way, and let the number of a message expose a swap or a loss.
Three frames give FIRST, MIDDLE and LAST. One frame in transit is enough for the
interleavings of the reader, which reads one at a time, and two are used where
time allows. A chunk of 3 and requests of 0 to 5 bytes make a request end inside
a chunk, at its end, and span two. A chain of three promises has a first, a link
in the middle and the caller's. `side` of `Transport` explores one of three parts
that share no state; `Apart` of `AccessoryDiscovery` does the same with the chains
of the hub and of the enumerator, which share only the App's cancels. A limit of
2 and sizes 1 to 5 reach BULK, FIRST with an empty LAST (size 2, the exact limit),
full and partial LAST, and MIDDLE. Three messages in one queue have a first, a
middle and a last when one of them fails. The loads of the send path are one
message of each writer that may be split in three, and two or three messages of
one writer. Two flights make a handshake that is not complete at first. With
`MaxRead = 2` the messages after it lie below, at and above one read and two, as they
do to the 2048 bytes of `decrypt`; two of them let the first be answered while the
second ends the session, or be cut and its rest be read as the second. With
`Overhead = 5` a suite that adds 3 cuts messages of 1 to 5 bytes to a part, to
nothing, or below it. 77,692 states. Two sessions, clients and devices
let a client replace a session that ended or runs, and two quits of one session
put a stale one behind the start of the next. At the limit of sessions a creation
still fails in `MCApp`, as it may below it. The loads of `MCChannels` give each
handler every id it knows and one it does not, twice per session, so that START,
data and STOP of two sessions meet; the ids of STARTs are 1 and 2, so that both
phones may choose the same or not. Requests come plain and encrypted where the
object keeps which (input, sensors and microphone, with two sessions), and two
reports (`MaxReports`) may go out between and after them; elsewhere they are
encrypted, since nothing is told apart by it (907,539 states); four messages with one session let the
microphone open, close and open again against two reports. Two connections
let the second take over while the reader of the first still runs, and two
messages of two halves arrive in every split. `IntLimit = 4` gives margins of each
sign at both ends. Each bound is a constant named `Max...` (or `Loads`) and bounds
only what the environment offers.

**Fairness.** `WF` of the handlers: the threads of the pool run what is posted
until the process ends. `WF` of `EnqueueReceive` for the receiving channels: the
control channel's handlers end with the next `receive`
(`AndroidAutoEntity.cpp:60-290`; `NeverDeaf`). In `MCEntity` the messenger
settles sends and receives, as `MCSendPath` and `MCSharedReader` show, and the
phone answers what it is asked; it owes no other message, and none while it still
waits for the last flight of a TLS 1.3 handshake (`Waits`). In `MCApp` a session
that is over says so, and the handlers run only until the signal: `main` stops
the `io_service` right after `App::stop`, so its liveness properties except that
(`Ending`). `SF` of the endpoint's progress in `TransportReceive` and
`TransportSend`: a transfer may end with 0 bytes any number of times, but the
phone does not send nothing for ever, and the device takes bytes or fails (the
USB send has a timeout of 10 s, `USBTransport.hpp:45`). In `MCDiscovery` the
strands of chains and owners run and libusb completes every transfer, at the
latest by its timeout; the App need not enumerate or cancel. In `MCBluetooth` the
two threads go on (`EllMainLoop.cpp:18-35`, `BluezBluetoothServer.cpp:385-465`);
BlueZ, the phone and the main thread owe nothing. Phone, failures, `Stop` and the
callers owe nothing anywhere: `EventuallyDelivered` and `EventuallyHanded` except
a session that failed.

**Record order.** `NoInterleaving` says that the TLS records of *one* writer
reach the transport in the order they were made. With both writers this is all
that holds: a handler of `MessageSender` may encrypt after one of
`MessageOutStream` and hand its frame to the transport before it, since only the
call of the cryptor is locked (`MessageSender.cpp:111-131`,
`MessageOutStream.cpp:76-96`). The phone decrypts records in the order of their
numbers. Nothing in the repository claims otherwise, so no run is listed for it.

**Suites.** `decrypt` takes the data of a message to be its frame less 29 bytes,
which is what TLS 1.2 with AES in mode GCM adds. With a suite that adds less, 21
with ChaCha20 or 22 with TLS 1.3, it stops early: the caller is given the message
without its last bytes and no error, and the next message starts with them
(`Cryptor.cpp:148-180`). A message cut to nothing has no id to read
(`ReadsNoId`). With one that adds more, every decryption throws. So
`DecryptedWhole` states that what is returned, with nothing left of an earlier
message, is the beginning of this one, always, and the whole of it unless the suite adds less (`NothingCut`), and
`NothingLeft` that the read BIO is empty under the same condition.
A TLS 1.3 client ends its handshake with a flight of its own. `doHandshake` returns
true with it in the write BIO, nobody reads it there
(`AndroidAutoEntity.cpp:144-165`), and it goes out in front of the first frame that
is encrypted. A phone that waits for it before it says more, as one that follows
TLS does, waits for ever. `NothingLeft` allows this flight and nothing else;
`EventuallyReady` is stated for TLS 1.2 where nothing is cut: a cut message may be
the one the entity waits for. `EventuallyQuits` holds of a failure with every suite,
unless a message without an id was read, and of a ByeBye where nothing is cut.
Which suite comes about the phone decides as well, and nothing in the repository says that it is any
other than the one reckoned with, so no run is listed as a violation.

**Late handlers of a session.** More that the models show and nothing in the
repository contradicts. A version response, a handshake message, a queued send or
a message to decrypt that is posted before `stop` still reaches the cryptor, whose
TLS session `deinit` has freed (`Cryptor.cpp:89-94`): `MayCrash`, with `crashed`
for the call that does not return. And `onAndroidAutoQuit` does not name its
session: each send that fails and each rejected receive calls it again, so a quit
queued by an old session may end the one that replaced it (`App.cpp:210`). `MCApp`
shows that even so no session is left running and the program listens again. Every
`waitForDevice` starts one more accept, whatever is outstanding (`accepts`).

**Shared handlers.** The interceptor's objects outlive the sessions. An answer of
a handler that an old session still runs may go to the new phone, never the other
way (`NoAnswerToEarlierPhone`). The session id that media is acknowledged with is
that of the last START stored by any phone's reader: a START of the old phone that is
handled late replaces that of the new one, whose media are then acknowledged under
it, and it may come between a handler's test of the member and its acknowledgement.
`AckNamesLastStart` therefore says what holds of every acknowledgement in these
races: that it names a START that was stored, and, where that is one of the phone's
own, the last one that phone sent. The ids of two phones may be equal, which is why
the model keeps with the stored id whose it is; the history `started` is kept per
object and phone, and written when the message comes, not when it is stored.

Reports go out with the encryption that the last open request, or request to start
the sensor, left in the object, and `channel_` is stored before it
(`SensorMessageHandlers.cpp:92-93`). A report between the two stores has the
encryption of before; the first time that is the member's initial value, plain.
`ReportsAsRequested` speaks of the reports built after an open request of the object
was answered, and of all audio, whose flag is stored last: these have an
encryption that some request to the object came with.

An answer that a busy sender refuses (`MessageSender.cpp:73`) counts as given in
`OneAnswerPerRequest`: the handler does not try again, and the phone misses it.

With a second session the microphone may also send
audio on after the phone closed it, as the object keeps `microphoneEnabled_` of
either: `MicStopsWhenClosed` is stated for one session. The media browser's service
falls through from its open request to the default case (`MediaBrowserService.cpp:70`)
and asks twice; `ServiceAsksOnce` names it as the exception, and no build creates it.

**Wireless set-up.** A reply of BlueZ that comes after the time-out is written to a
waiter that left the stack (`EllDbusUtils.cpp:126-147`); `Timely` keeps the two
apart and the model goes no further. `getParamFromFile` takes the first line that
contains the name and "=": `bssid=` will do for `ssid` (`CredentialFound` says when
the phone is still given the right one). A descriptor is named by its connection:
that the kernel may give its number to another while a thread still holds it is not
modelled.

**Settings.** `load` and `reset` disagree on `showCursor`; `save` writes
`hideBrightnessControl_` and `audioOutputBackendType_`, which `load` never reads, so
with a file present they keep whatever the object's memory held; a negative margin
is saved as `uint32_t` and read back as the default; a second `load` appends the
button codes again.

## 5. What is proved

For every value of the constants, under the named assumptions of the modules (TLC
evaluates them on every run):

| module | theorem | establishes |
|---|---|---|
| `ReceivePathProofs` | `Invariance`, `TypeCorrect` | the inductive invariant; `TypeOK` |
| | `ReceiveShared` | `OneReceiveInFlight` |
| | `ReaderDoesNotFault` | `NoFault` |
| | `WaitersAreServed` | `NoWaiterBesideMessage` |
| | `HeadsAreFirst` | `NoStaleHead` |
| | `MessagesAreWhole` | `WholeMessages` |
| | `DeliversInOrder` | `ImplementsDelivery`: `ChannelDelivery` is refined |
| `TransportProofs` | `ReadsOneByOne` | `OneReadAtATime` |
| | `BytesAreInOrder` | `BytesInOrder` |
| | `SendInvariance`, `ElementsAreInOrder` | the invariant of the send side; `ElementsInOrder` |
| | `FirstCallIsTold` | `FirstCallWins` |
| | `TypeCorrect` | `TypeOK` of the three sides |
| | `HeaderReadsBack`, `FrameReadsBack`, `MessageReadsBack` | what is written to the wire is read back |
| `SendPathProofs` | `Invariance`, `NoWriterIsWedged` | the inductive invariant; `BusyWriterHasFrame` |
| | `FramesAreInOrder` | `NoInterleaving` |
| | `IteratorStaysValid` | `IteratorIsValid` |
| | `ResolvedIsOnWire` | `ResolvedMeansWhole` |
| | `TypeCorrect` | `TypeOK`: what is done of a message and what remains add up |
| `EntityProofs` | `Invariance`, `AskedForOnce` | the inductive invariant; `AsksOnce` |
| | `SessionListens` | `NeverDeaf` |
| | `CleanInvariance`, `NothingIsLeft` | what a session holds between the handlers; `NothingLeft` |
| | `DecryptsWhole` | `DecryptedWhole` |
| | `TypeCorrect` | `TypeOK` of the entity and of `Cryptor` |
| `ChannelProofs` | `Invariance` | the inductive invariant of the handlers |
| | `AnswersGoForward` | `NoAnswerToEarlierPhone` |
| | `AcksNameTheStart` | `AckNamesLastStart` |
| | `ReportsGoAsRequested` | `ReportsAsRequested` |
| | `RequestsAreAnsweredOnce` | `OneAnswerPerRequest` |
| | `MicrophoneStops` | `MicStopsWhenClosed` |
| | `ServicesAskOnce` | `ServiceAsksOnce` |
| `AppProofs` | `Invariance`, `TypeCorrect` | the inductive invariant; `TypeOK` |
| | `SessionsAreEnded` | `NoOrphanSession` |
| | `ProgramListens` | `AlwaysListening` |
| `DiscoveryProofs` | `Invariance`, `TypeCorrect` | the inductive invariant; `TypeOK` |
| | `OneDrivesAChain` | `OneStepAtATime` |
| | `PhonesAreSwitchedInOrder` | `SwitchedInOrder` |
| `BluetoothProofs` | `Invariance`, `DescriptorsAreKept` | the inductive invariant; `NoLeak` |
| | `ConnectionsAreApart` | `ConnectionsApart` |
| | `SettingsReadBack`, `InsertKeepsDistinct` | what is saved is loaded; the address list |

Each inductive invariant was an invariant of a run before it was proved.

**Receive path.** The theorems assume `MaxPromises = 1`: a channel has at most one
promise outstanding. The control channel, the only receiver of this build, keeps
to that: each of its handlers asks again, once, after the message was handed over,
which is `AsksOnce`, proved in `EntityProofs`. Without the assumption `OneReceiveInFlight`
is false (`MCTwoPromises`). `OneReceiveInFlight` counts the receives of the in
stream that have not come back: calls to run, the one in progress, outcomes
posted. It is not inductive by itself. Whether a receive in progress ends with
exactly one outcome depends on the transport holding exactly one request for it,
of the part that comes next, and on `message_` being set inside a frame; that is
`RequestsMatch`. That no handler meets a null `promise_` (`NoFault`) follows
from the same count, and `NoWaiterBesideMessage` says which of the two queues a
message handler finds empty. The lemma `InFlightParts` splits the count into its
three parts, one lemma per action shows `IInv` kept, and `NextInv` collects them.

`NoStaleHead` holds whatever frames the phone leaves out: only a FIRST frame starts
what is collected anew, `message_` is what was buffered of the frame's own channel,
and the buffer is empty meanwhile (`FrameInv`). `WholeMessages` and
`ImplementsDelivery` are for a phone that sends every frame (`~LosesFrames`). The
frames of a channel on the wire are a walk over pairs of message and frame number,
from where the reader stands to where the phone stands (`Leads`); what is collected
are the frames of one message up to the reader's place (`Reader`); the messages read
and not seen yet are consecutive, those queued and then the one posted (`Line`). A
session that failed may drop frames, but none between those of a message it collects.
With this (`DeliveryInv`) each step of `ReceivePath` is a step of `ChannelDelivery`
for one channel or changes nothing that it speaks of.

**Transport.** `BytesInOrder` is kept only because the sink holds exactly the bytes
after those handed out, with a reserved chunk at its end while a transfer is
outstanding and the part of it that was filled once it ended: `SinkInv`, by the
cases of where the read stands. `distributeReceivedData` is a recursion in the
code and a choice of how many promises are served in the model; `SubSeq` and `\o`
keep the sink contiguous by the lemmas on `Filled`.

`ElementsInOrder` looks at two bytes at a time, so the invariant only has to say
what the last byte written is: byte `offset`, or `offset + moved` once the transfer
ended, of the first element of the queue, or a byte of an earlier element
(`OffsetInv`). That the queue holds the last elements sent, in their order
(`QueueInv`), makes the next element a later one, also after a failure.

**Send path.** The invariant of `NoWriterIsWedged` places each writer in one of four
states: free, with a frame made and not handed over, with one frame in the transport,
with one outcome posted (`Placed`). Every action moves its writer between them, and
the property, which counts, follows. For `FramesAreInOrder` a number per writer
separates what left it from what is to come (`LevelInv`): no frame gone is of a later
message, no waiting message is earlier, and the one in progress has that number. That
needs the queue of the messenger and the calls to its writer in rising order
(`CallsInv`), and a record for each new frame above those gone (`FramesInv`). Neither
argument looks into the frames, so the queues are only said to be sequences of
something (`IsSequence`), and sizes and types come in with `ResolvedMeansWhole` only.
`IteratorIsValid`
follows one token: while the messenger's queue holds a message, the first of them
has been called, made into frames, passed to the transport, come back or told of,
and in one of these places only (`IteratorInv`); the queue in front of it does not
change until it is told, so the iterator bound to the handlers is the first's.
`ResolvedMeansWhole` follows each message (`Stage`): untouched, with a frame made, in
the transport or back, or over, and then it is complete or its promise is not
resolved. With each place goes how far the writer is: `offset_` and `remainingSize_`
are those after the frames on the wire (`Holds`), so the next frame is the next piece
(`Piece`, `WireInv`), of the type and size `FrameType` gives it there. A message is
complete with its last frame, and how many came before that one follows from its size
by division (`FramesInAll`). A step of one message leaves all others where they are
(`Kept`), since a writer waits for one frame at a time.
`TypeCorrect` then has for every writer that `offset_` and `remainingSize_` add up to
the size of the message (`MessageTypes`). That the frame which came back is no larger
than what remained cannot be told from the types; it is from `Stage` and `Piece`
(`SplitFits`). So the subtraction of two unsigned numbers never wraps.

**Promises.** A promise of the chain has posted nothing or the outcome of the first
call; while it is active it has posted nothing, and until its handler has run those
behind it are untouched (`OneOutcome`). The first call on the first promise makes
it inactive, so later calls post nothing; an induction along the chain is not
needed, since each step moves the outcome by one.

**App.** `AlwaysListening` needs that the hub is cancelled by `Stop` only and that
a promise it holds came with its registration (`HubOrder`). `NoOrphanSession` needs
that nothing is dispatched to a session before it is created and that its start
comes first (`StartsFirst`): else a stop could be queued in front of the start it
is to undo.

**Session.** `AsksOnce` counts: the one receive of the control channel is with the
messenger (`Asked`), has come back and its handler is to run (`Came`), or there is
none (`Nobody`); the count of `AsksOnce` is 0 or 1 in each, and each step moves it
between them. `NeverDeaf` adds that there is none in a running session only while
the shutdown response, or its outcome, is under way, whose handler ends the session.

`NothingLeft` and `DecryptedWhole` are one argument. Between the handlers the read BIO
is empty unless messages may be cut, and the write BIO holds at most a last flight of
TLS 1.3, until the session failed and the App was told, or is freed (`Clean`). Every
step keeps that by the shape of the handlers but `Deliver`, which leaves what
`decrypt` leaves, and that has to be shown of its loop (`Decrypted`). `decrypt`
reckons with a frame of one record of its own overhead. For one record of a suite
that adds no more, it reads as many bytes as it takes the data to have, which are
the first of the message, and stops (`Reading`, `OneRecord`): all of them if the
suite adds as much, and else all but the difference, which stays (`Left`). In every
other case, k # 1 records, a suite that adds more, or a length below nothing, what
it takes the data to be long is never the number of bytes it has read. For k records
that is because two overheads are more than the one it subtracts, so the length it
believes in is beyond the data. So it asks for at least a byte at every turn, finds
the session empty once all is read, and throws (`Misjudged`, `Position`,
`ThrowsUnlessMet`). Both are inductions over the turns, each of which but the last
reads a byte. The library's induction theorems take an operator and cannot be
instantiated here; its theorem on well-founded relations, that a set of naturals that
is not empty has a least element, can, and gives induction for sets (`Induction`):
`LoopInvariant` is that, for a function that names the states each turn may reach.
The hypotheses are those of the modules: `Overhead` is positive (it is 29), every
suite adds more than half of it (21 is the least there is), and no record is empty (a message starts with its id, of two bytes; a lone record without
data would stay in the BIO, as `decrypt` would ask for nothing).

**Channels.** `ChannelProofs` first shows of `HandlerTables`, whatever the channel,
what the entries of an id may be (`Regular`), by the shape of the tables and not
handler by handler; the loads are any that name ids the handler or the service knows
(`LoadsAssumption`). On the types and on which session each object's sender is of
(`SendersKept`: the last one, or the one before while `setMessageSender` is under
way) rest one invariant each: what a handler that runs has left to do, the requests answered and not counted yet, the one promise,
message or call of a service.

`AcksNameTheStart` needs two facts of an object that every reader may store in
(`AcksKept`). What it holds under a phone's own session is the last START of that
phone, or that phone's reader is still to store it (`OwnStart`): a reader runs one
handler at a time, so no acknowledgement to that phone is made meanwhile. And a
handler on its way to an acknowledgement has still to test the member, or the
member holds a START, which nobody takes back (`RunStarts`). `ReportsGoAsRequested`
follows whether an object keeps a requested encryption (`Kept`). It does once an
open request was answered or the audio flag set (`ObjectsKept`), since every
handler stores the encryption before either (`EncryptsFirst`), and from then on, as
only encryptions of requests are stored (`RunEncrypts`). A report of audio that was
begun found the flag set, and builds its message when `Kept` still holds
(`ReportKept`). `MicrophoneStops` has the hypothesis that a phone that
may close its microphone has one session (`OneSession`), as has its property: with
two, the open of one can pass the close of the other.

**Discovery.** A chain is a record, and `ChainOK` says where the one thing that drives
it on may be: the call of `start`, a transfer to ask for, one with libusb, its status,
the outcome of a query on its own strand or on the chain's, or nothing when it is
over. Cancels may wait anywhere beside it (`Driven`, `Quiet`). With each place goes
what the phone has carried out: the queries before the one last started, and that one
once its transfer succeeded. A failed transfer may or may not have been carried out,
which is harmless as the chain then ends. Each step of a chain is proved on the
record alone; hub and enumerator only start, erase and cancel chains. That the hub
never erases a chain it does not hold is `QueueOK`.

**Bluetooth.** The socket is that of the connection with the reader, or none. It is
closed before it is forgotten, and forgotten before the reader is joined; only while
a new connection is taken over (`Taking`) is another descriptor open, the one before.
The buffer goes on where the messages handled end, and the wire where the buffer
ends.

**Encodings.** The readers and writers are operators on sequences of bytes; the
proofs are arithmetic on two and four bytes and on the lengths of concatenations.
`FrameReadsBack` holds for payloads below 65536 bytes, beyond which the size field
of two bytes would wrap; the writers split at `cMaxFramePayloadSize` = 0x4000.

Every safety property and action property of a passing run is proved, and the
refinement. Only model-checked, and why: liveness (fairness and ENABLED are out of
the prover's reach). What `GetParamFromFile` finds rests on CHOOSE over a set of lines and is evaluated.

## 6. Plan

Done: receive path, transport, promises, send path, encodings, cryptor and one
session on the control channel, the sessions of the program, the interceptor and
the service channels, USB discovery, Bluetooth and the settings. What would come
next, in the order of its worth:

1. An abstract specification of `App`: at most one live session, and listening
   between them.
2. Descriptor numbers that are used again in `BluezBluetoothServer`.

Not modelled, and why: `AOAPDevice` and `USBWrapper` (construction over libusb; no
state after it), `Pinger` (`schedulePing` has no caller), `ServiceFactory` (returns
an empty list), `Projection` (single D-Bus calls), `ProtoConfig` and
`readFileContent` (a parser of one message; no caller), `Timestamp` (written, never
read here), logging, start-up, the generated protobuf code and the external media
transport library. The comparison operators of `MessageId`
(`SDK/Messenger/MessageId.cpp`) answer the opposite of their names; they have no
caller.
