-------------------------- MODULE BluezBluetoothServer --------------------------
(***************************************************************************)
(* btservice/: the offer of wireless projection over Bluetooth.  start     *)
(* registers a profile with BlueZ; BlueZ then hands each connection of a   *)
(* phone to the thread of the D-Bus main loop, which starts a reader       *)
(* thread, tells the phone where to connect, and stops both when the next  *)
(* connection or a disconnection comes.  The two threads share socketFd_,  *)
(* reading_ and buffer_ without a lock, and both run stopReadLoop: its     *)
(* steps interleave.                                                       *)
(*                                                                         *)
(* A descriptor is named by its connection; that its number may be used    *)
(* again while a thread still holds it is not modelled.                    *)
(***************************************************************************)
EXTENDS Naturals, Sequences

CONSTANTS
    MaxConnections,   \* bound: connections
    MaxMessages,      \* bound: messages of the phone on one connection
    Objects,          \* the adapters BlueZ may report, as sequences
    Address,          \* address of the configured adapter, or ""
    Interfaces        \* the network interfaces there may be, as sequences

\* The first half of a message names its kind; only the request for the
\* credentials is answered.
Kinds == {"infoRequest", "other", "rest"}

Fds == 1..MaxConnections
NoFd == 0

\* channel_
Channel == 12

VARIABLES
    starting,       \* calls start has yet to make, the adapter, and what it returned
    registered,     \* BlueZ knows the profile
    socketFd,       \* socketFd_
    reading,        \* reading_
    buffer,         \* buffer_, one element for each half of a message
    open,           \* descriptors that are open
    wire,           \* what a connection carries to the reader
    sent,           \* halves of messages the phone sent on a connection
    peerClosed,     \* connections the phone closed
    dbus,           \* the D-Bus thread: where it stands and its new connection
    reader,         \* the reader thread: where it stands and its connection
    handled,        \* messages handled by the reader of a connection
    lastHandled,    \* the halves last handled as a message, and by which reader
    lastWritten,    \* the connection last written for, that of the socket, and the
                    \* interface named
    wifiInterface   \* wifiInterface_

socketVars == <<socketFd, reading, buffer, open>>
phoneVars == <<wire, sent, peerClosed>>
logVars == <<handled, lastHandled, lastWritten>>
startVars == <<starting, registered>>
vars == <<startVars, socketVars, phoneVars, dbus, reader, logVars, wifiInterface>>

-----------------------------------------------------------------------------
\* The main thread.  start makes its calls of BlueZ one by one and waits for
\* each: for an answer, an error, or the end of the time.
StartCalls == <<"NameHasOwner", "GetManagedObjects", "Powered", "Discoverable",
                "Pairable", "DiscoverableTimeout", "PairableTimeout", "RegisterProfile">>
Call == Head(starting.calls)

\* replyHandler: a reply after the timeout is written to the waiter of a call
\* that has returned.  The waiters of start lie one in the place of the other,
\* so that it may be taken for the reply of the call that waits now.
Replies == {"answer", "error", "none"}
Timely(reply) == reply # "none" /\ ~starting.late
SendWithReplySync(reply, adapter) ==
    starting' = [calls |-> Tail(starting.calls), adapter |-> adapter,
                 late |-> starting.late \/ reply = "none"]

\* What start returns, when its waiter and adapterPath_ are no longer used; 0
\* destroys the server.
Return(value) == starting' = [calls |-> <<>>, value |-> value]

NameHasOwner(reply) ==
    /\ Call = "NameHasOwner"
    /\ IF reply = "answer" THEN SendWithReplySync(reply, "none") ELSE Return(0)
    /\ UNCHANGED registered

\* The first adapter, or the first with the configured address; else hci0.
HasAddress(o) == Address \in {"", o.address}
ResolveAdapterPath(reply) ==
    /\ Call = "GetManagedObjects"
    /\ \E objects \in Objects :
         LET matching == SelectSeq(objects, HasAddress)
         IN  SendWithReplySync(reply, IF reply # "answer" \/ matching = <<>> THEN "hci0"
                                      ELSE Head(matching).path)
    /\ UNCHANGED registered

\* A property that is not set is only logged.
SetAdapterProperty(reply) ==
    /\ Call \in {"Powered", "Discoverable", "Pairable", "DiscoverableTimeout",
                 "PairableTimeout"}
    /\ SendWithReplySync(reply, starting.adapter)
    /\ UNCHANGED registered

\* BlueZ may have registered the profile although no reply came in time.
RegisterProfile(reply) ==
    /\ Call = "RegisterProfile"
    /\ registered' \in IF Timely(reply) THEN {reply = "answer"} ELSE BOOLEAN
    /\ Return(IF reply = "answer" THEN Channel ELSE 0)

\* Without a bus there is nothing to call.
NoBus == Call = "NameHasOwner" /\ Return(0) /\ UNCHANGED registered

Start ==
    /\ starting.calls # <<>>
    /\ \/ NoBus
       \/ \E reply \in Replies :
            \/ NameHasOwner(reply) \/ ResolveAdapterPath(reply)
            \/ SetAdapterProperty(reply) \/ RegisterProfile(reply)
    /\ UNCHANGED <<socketVars, phoneVars, dbus, reader, logVars, wifiInterface>>

Failed == starting.calls = <<>> /\ starting.value = 0

\* getWifiInterfaceInfo: of the interfaces that are up, the first that is the
\* preferred one or wireless, else the first.
Up(i) == i.up
Chosen(i) == i.up /\ i.chosen
WifiInterfaceInfo(ifs) ==
    LET candidates == SelectSeq(ifs, Chosen) \o SelectSeq(ifs, Up)
    IN  IF candidates = <<>> THEN "none" ELSE Head(candidates).name

\* sendMessage writes to whatever socketFd_ is, if it is open.
SendMessage(connection, interface) ==
    lastWritten' = IF socketFd \in open
                   THEN [for |-> connection, on |-> socketFd, interface |-> interface]
                   ELSE lastWritten

\* The credentials come from files or are defaults.  With them goes the address
\* of wifiInterface_, or if it is not set of the interface there is now.
HandleWifiInfoRequest(connection) ==
    \E ifs \in Interfaces :
        SendMessage(connection, IF wifiInterface # "none" THEN wifiInterface
                                ELSE WifiInterfaceInfo(ifs))

\* The other messages, known or not, are only logged.
HandleStatus == UNCHANGED lastWritten

-----------------------------------------------------------------------------
\* Mutant: the descriptor is forgotten before it is closed.
StopReadLoopForgetsFirst(at, next) ==
    \/ /\ at = "stop"
       /\ reading' = FALSE
       /\ next = IF socketFd = NoFd THEN "join" ELSE "close"
       /\ UNCHANGED <<socketFd, buffer, open>>
    \/ /\ at = "close"
       /\ socketFd' = NoFd
       /\ next = "forget"
       /\ UNCHANGED <<reading, buffer, open>>
    \/ /\ at = "forget"
       /\ open' = open \ {socketFd}
       /\ next = "join"
       /\ UNCHANGED <<socketFd, reading, buffer>>

\* The steps of stopReadLoop up to the join, by either thread: the descriptor
\* is read again for each call.
StopReadLoop(at, next) ==
    \/ /\ at = "stop"
       /\ reading' = FALSE
       /\ next = IF socketFd = NoFd THEN "join" ELSE "close"
       /\ UNCHANGED <<socketFd, buffer, open>>
    \/ /\ at = "close"
       /\ open' = open \ {socketFd}
       /\ next = "forget"
       /\ UNCHANGED <<socketFd, reading, buffer>>
    \/ /\ at = "forget"
       /\ socketFd' = NoFd
       /\ next = "join"
       /\ UNCHANGED <<reading, buffer, open>>

\* The end of stopReadLoop.
KeepBuffer == buffer' = buffer    \* Mutant: what is left of a message is kept.
ClearBuffer == buffer' = <<>>

\* Where stopReadLoop goes on after each step.
Places == {"close", "forget", "join"}

-----------------------------------------------------------------------------
\* The D-Bus thread.  BlueZ hands over a connection, whose descriptor is
\* duplicated, or ends one; which one is not looked at.
NewConnection(fd) ==
    /\ registered
    /\ ~Failed
    /\ dbus.at = "idle"
    /\ fd = dbus.fd + 1
    /\ dbus' = [at |-> "stop", fd |-> fd, fresh |-> TRUE]
    /\ open' = open \cup {fd}
    /\ UNCHANGED <<startVars, socketFd, reading, buffer, phoneVars, reader, logVars,
                   wifiInterface>>

RequestDisconnection ==
    /\ dbus.at = "idle"
    /\ dbus.fd # NoFd
    /\ dbus' = [dbus EXCEPT !.at = "stop", !.fresh = FALSE]
    /\ UNCHANGED <<startVars, socketVars, phoneVars, reader, logVars, wifiInterface>>

DbusStops ==
    /\ \E next \in Places :
         /\ StopReadLoop(dbus.at, next)
         /\ dbus' = [dbus EXCEPT !.at = next]
    /\ UNCHANGED <<startVars, phoneVars, reader, logVars, wifiInterface>>

\* The join: the reader has ended, or was never started.
DbusJoins ==
    /\ dbus.at = "join"
    /\ reader.at = "ended"
    /\ ClearBuffer
    /\ dbus' = [dbus EXCEPT !.at = IF dbus.fresh THEN "start" ELSE "idle"]
    /\ UNCHANGED <<startVars, socketFd, reading, open, phoneVars, reader, logVars,
                   wifiInterface>>

StartReadLoop ==
    /\ dbus.at = "start"
    /\ socketFd' = dbus.fd
    /\ reading' = TRUE
    /\ reader' = [at |-> "loop", fd |-> dbus.fd]
    /\ dbus' = [dbus EXCEPT !.at = "version"]
    /\ UNCHANGED <<startVars, buffer, open, phoneVars, logVars, wifiInterface>>

SendWifiVersionRequest ==
    /\ dbus.at = "version"
    /\ SendMessage(dbus.fd, "none")
    /\ dbus' = [dbus EXCEPT !.at = "wifi"]
    /\ UNCHANGED <<startVars, socketVars, phoneVars, reader, handled, lastHandled, wifiInterface>>

\* Without an interface the phone is told nothing more.
SendWifiStartRequest ==
    /\ dbus.at = "wifi"
    /\ \E ifs \in Interfaces :
         LET name == WifiInterfaceInfo(ifs)
         IN  IF name = "none" THEN UNCHANGED <<lastWritten, wifiInterface>>
             ELSE wifiInterface' = name /\ SendMessage(dbus.fd, name)
    /\ dbus' = [dbus EXCEPT !.at = "idle"]
    /\ UNCHANGED <<startVars, socketVars, phoneVars, reader, handled, lastHandled>>

DbusStep ==
    DbusStops \/ DbusJoins \/ StartReadLoop \/ SendWifiVersionRequest \/ SendWifiStartRequest

-----------------------------------------------------------------------------
\* The reader thread: readLoop reads, handles every whole message, and stops
\* when the socket fails, the phone closes it or reading_ is reset.
readerUnchanged == <<startVars, phoneVars, dbus, logVars, wifiInterface>>

ReaderLoops ==
    /\ reader.at = "loop"
    /\ reader' = [reader EXCEPT !.at = IF reading THEN "read" ELSE "stop"]
    /\ UNCHANGED <<socketVars, readerUnchanged>>

\* Data; or EAGAIN, when there is none; or the end, or a closed descriptor.
ReaderReads ==
    /\ reader.at = "read"
    /\ LET fd == socketFd
           arrived == IF fd \in open THEN wire[fd] ELSE <<>>
       IN  \/ \E n \in 1..Len(arrived) :
                /\ buffer' = buffer \o SubSeq(arrived, 1, n)
                /\ wire' = [wire EXCEPT ![fd] = SubSeq(arrived, n + 1, Len(arrived))]
                /\ reader' = [reader EXCEPT !.at = "parse"]
           \/ /\ arrived = <<>>
              /\ reader' = [reader EXCEPT
                     !.at = IF fd \in open \ peerClosed THEN "loop" ELSE "stop"]
              /\ UNCHANGED <<buffer, wire>>
    /\ UNCHANGED <<startVars, socketFd, reading, open, sent, peerClosed, dbus, logVars,
                   wifiInterface>>

\* Mutant: one message is handled for each read.
ReaderParsesOne ==
    /\ reader.at = "parse"
    /\ IF Len(buffer) < 2
       THEN reader' = [reader EXCEPT !.at = "loop"] /\ UNCHANGED <<buffer, logVars>>
       ELSE /\ handled' = [handled EXCEPT ![reader.fd] = @ + 1]
            /\ lastHandled' = [by |-> reader.fd, head |-> buffer[1], rest |-> buffer[2]]
            /\ buffer' = SubSeq(buffer, 3, Len(buffer))
            /\ IF buffer[1].kind = "infoRequest" THEN HandleWifiInfoRequest(buffer[1].fd)
               ELSE HandleStatus
            /\ reader' = [reader EXCEPT !.at = "loop"]
    /\ UNCHANGED <<startVars, socketFd, reading, open, phoneVars, dbus, wifiInterface>>

\* What the buffer begins with is taken for the head of a message, which is
\* handled when the rest of it is there too.
ReaderParses ==
    /\ reader.at = "parse"
    /\ IF Len(buffer) < 2
       THEN reader' = [reader EXCEPT !.at = "loop"] /\ UNCHANGED <<buffer, logVars>>
       ELSE /\ handled' = [handled EXCEPT ![reader.fd] = @ + 1]
            /\ lastHandled' = [by |-> reader.fd, head |-> buffer[1], rest |-> buffer[2]]
            /\ buffer' = SubSeq(buffer, 3, Len(buffer))
            /\ IF buffer[1].kind = "infoRequest" THEN HandleWifiInfoRequest(buffer[1].fd)
               ELSE HandleStatus
            /\ UNCHANGED reader
    /\ UNCHANGED <<startVars, socketFd, reading, open, phoneVars, dbus, wifiInterface>>

ReaderStops ==
    /\ \E next \in Places :
         /\ StopReadLoop(reader.at, next)
         /\ reader' = [reader EXCEPT !.at = next]
    /\ UNCHANGED readerUnchanged

ReaderEnds ==
    /\ reader.at = "join"
    /\ ClearBuffer
    /\ reader' = [reader EXCEPT !.at = "ended"]
    /\ UNCHANGED <<socketFd, reading, open, readerUnchanged>>

ReaderStep == ReaderLoops \/ ReaderReads \/ ReaderParses \/ ReaderStops \/ ReaderEnds

-----------------------------------------------------------------------------
\* The phone sends a message in two parts, and closes its connection.
PhoneSends(fd, kind) ==
    LET half == (sent[fd] % 2) + 1
    IN  /\ fd <= dbus.fd
        /\ fd \notin peerClosed
        /\ kind \in IF half = 1 THEN {"infoRequest", "other"} ELSE {"rest"}
        /\ sent[fd] < 2 * MaxMessages
        /\ sent' = [sent EXCEPT ![fd] = @ + 1]
        /\ wire' = [wire EXCEPT ![fd] =
             Append(@, [fd |-> fd, no |-> sent[fd] \div 2 + 1, half |-> half, kind |-> kind])]
        /\ UNCHANGED <<startVars, socketVars, peerClosed, dbus, reader, logVars, wifiInterface>>

PhoneCloses(fd) ==
    /\ fd <= dbus.fd
    /\ fd \notin peerClosed
    /\ peerClosed' = peerClosed \cup {fd}
    /\ UNCHANGED <<startVars, socketVars, wire, sent, dbus, reader, logVars, wifiInterface>>

Init ==
    /\ starting = [calls |-> StartCalls, adapter |-> "none", late |-> FALSE]
    /\ registered = FALSE
    /\ socketFd = NoFd
    /\ reading = FALSE
    /\ buffer = <<>>
    /\ open = {}
    /\ wire = [fd \in Fds |-> <<>>]
    /\ sent = [fd \in Fds |-> 0]
    /\ peerClosed = {}
    /\ dbus = [at |-> "idle", fd |-> NoFd, fresh |-> FALSE]
    /\ reader = [at |-> "ended", fd |-> NoFd]
    /\ handled = [fd \in Fds |-> 0]
    /\ lastHandled = [by |-> NoFd]
    /\ lastWritten = [for |-> NoFd, on |-> NoFd, interface |-> "none"]
    /\ wifiInterface = "none"

Next ==
    \/ Start
    \/ \E fd \in Fds : NewConnection(fd) \/ PhoneCloses(fd)
    \/ \E fd \in Fds, kind \in Kinds : PhoneSends(fd, kind)
    \/ RequestDisconnection
    \/ DbusStep
    \/ ReaderStep

\* Both threads run.
Spec == Init /\ [][Next]_vars /\ WF_vars(DbusStep) /\ WF_vars(ReaderStep)

-----------------------------------------------------------------------------
IsHalf(part, fd, no, half) == part.fd = fd /\ part.no = no /\ part.half = half

(***************************************************************************)
(* Whatever pieces the stream arrives in and whichever thread stops the    *)
(* reading, a message is handled whole, in order, by the reader of its own *)
(* connection, and what is written for a connection goes to its socket     *)
(* (BluezBluetoothServer.cpp:242-279, 385-465, 536-560).                   *)
(***************************************************************************)
ConnectionsApart ==
    /\ lastHandled.by # NoFd =>
         LET fd == lastHandled.by
         IN  /\ IsHalf(lastHandled.head, fd, handled[fd], 1)
             /\ IsHalf(lastHandled.rest, fd, handled[fd], 2)
    /\ lastWritten.for = lastWritten.on

(***************************************************************************)
(* No descriptor is lost: one that is open is the socket in use or is      *)
(* about to become it, in every order of the two threads' stopReadLoop     *)
(* (BluezBluetoothServer.cpp:242-247, 394-406).                            *)
(***************************************************************************)
NoLeak == \A fd \in open : fd = socketFd \/ (fd = dbus.fd /\ dbus.fresh)

(***************************************************************************)
(* A message that arrived whole is handled unless its connection is        *)
(* closed, also when it came in one piece with another                     *)
(* (BluezBluetoothServer.cpp:426-461).                                     *)
(***************************************************************************)
Backlog ==
    \E fd \in Fds \ peerClosed :
        fd = dbus.fd /\ dbus.fresh /\ handled[fd] < sent[fd] \div 2
EventuallyHandled == []<>~Backlog
=============================================================================
