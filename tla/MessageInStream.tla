--------------------------- MODULE MessageInStream ---------------------------
(***************************************************************************)
(* The frame reader of aasdk (Messenger/MessageInStream.cpp).              *)
(*                                                                         *)
(* It asks the transport for the three parts of a frame, one after the     *)
(* other: header, size, payload.  The frames of different channels are     *)
(* interleaved on the wire, so an unfinished message waits in              *)
(* messageBuffer_ until the next frame of its channel.  A finished message *)
(* goes to the interceptor, and, when no handler takes it, to the promise  *)
(* of the one startReceive in progress.                                    *)
(*                                                                         *)
(* Every handler runs on strand_, one at a time, so each is one action.    *)
(* The promise given to startReceive has its handlers on the caller's      *)
(* receive strand: resolving or rejecting it posts an outcome there.       *)
(***************************************************************************)
EXTENDS Naturals, Sequences

CONSTANTS
    Channels,     \* the channel ids in use
    Intercepted   \* those with a handler in interceptor::handleMessage

VARIABLES
    starts,          \* startReceive calls dispatched on strand_ and not run yet
    promise,         \* promise_: "null" or "set"
    requests,        \* the transport receives outstanding, oldest first
    message,         \* message_
    messageBuffer,   \* messageBuffer_, NoMessage where the map has no entry
    thisFrameType,   \* thisFrameType_
    isValidFrame,    \* isValidFrame_
    wire,            \* frames sent by the phone and not yet read
    wireOff,         \* parts of the first of them already read (0, 1 or 2)
    session,         \* "up", "down" (the transport fails), "crypto" (TLS fails)
    posted,          \* outcomes posted on the caller's strand, oldest first
    got,             \* history: number of the last message seen, per channel
    fault            \* what a read of a null promise_ or of the wrong bytes did

streamVars == <<requests, message, messageBuffer, thisFrameType, isValidFrame,
                wire, wireOff>>

FrameTypes == {"FIRST", "MIDDLE", "LAST", "BULK"}
Kinds == {"header", "size", "payload"}

(***************************************************************************)
(* A frame carries a piece of message number msg of its channel; no is its *)
(* position in that message.  A message is its channel and the pieces      *)
(* collected so far: which bytes they hold never matters.                  *)
(***************************************************************************)
Frames == [ch : Channels, type : FrameTypes, msg : Nat, no : Nat]
Messages == [ch : Channels, parts : Seq(Frames)]
Finished == {m \in Messages : m.parts # <<>>}
NoMessage == [ch |-> "none", parts |-> <<>>]
Error == [ch |-> "error", parts |-> <<>>]

Number(m) == m.parts[Len(m.parts)].msg

\* The part of a frame that the next bytes of the stream belong to.
Kind(off) == IF off = 0 THEN "header" ELSE IF off = 1 THEN "size" ELSE "payload"

-----------------------------------------------------------------------------
(***************************************************************************)
(* startReceive: a second call while one is in progress rejects its own    *)
(* promise, and first drops the one in progress.                           *)
(***************************************************************************)
StartReceive ==
    /\ starts > 0
    /\ starts' = starts - 1
    /\ \/ /\ promise = "null"
          /\ promise' = "set"
          /\ requests' = Append(requests, "header")
          /\ UNCHANGED posted
       \/ /\ promise = "set"
          /\ promise' = "null"
          /\ posted' = Append(posted, Error)
          /\ UNCHANGED requests
    /\ UNCHANGED <<message, messageBuffer, thisFrameType, isValidFrame, wire,
                   wireOff, session, got, fault>>

\* The transport resolves its oldest request with the bytes it was made for.
Serves(kind) ==
    /\ session # "down"
    /\ wire # <<>>
    /\ requests # <<>>
    /\ Head(requests) = kind
    /\ Kind(wireOff) = kind

\* The oldest request is done and the handler asks for kind next.
Request(kind) == requests' = Append(Tail(requests), kind)

\* Mutant: only the LAST frame continues the buffered message.
HeaderHandlerForgetsMiddle ==
    LET frame == Head(wire)
        buffered == messageBuffer[frame.ch]
        continues == frame.type = "LAST"
    IN  /\ Serves("header")
        /\ message' = IF buffered # NoMessage /\ continues
                      THEN buffered
                      ELSE [ch |-> frame.ch, parts |-> <<>>]
        /\ isValidFrame' = (continues => buffered # NoMessage)
        /\ messageBuffer' = [messageBuffer EXCEPT ![frame.ch] = NoMessage]
        /\ thisFrameType' = frame.type
        /\ wireOff' = 1
        /\ Request("size")
        /\ UNCHANGED <<starts, promise, wire, session, posted, got, fault>>

\* Mutant: a frame that begins a message is added to what is buffered.
HeaderHandlerKeepsOld ==
    LET frame == Head(wire)
        buffered == messageBuffer[frame.ch]
    IN  /\ Serves("header")
        /\ message' = IF buffered # NoMessage
                      THEN buffered
                      ELSE [ch |-> frame.ch, parts |-> <<>>]
        /\ isValidFrame' = (frame.type \in {"MIDDLE", "LAST"} => buffered # NoMessage)
        /\ messageBuffer' = [messageBuffer EXCEPT ![frame.ch] = NoMessage]
        /\ thisFrameType' = frame.type
        /\ wireOff' = 1
        /\ Request("size")
        /\ UNCHANGED <<starts, promise, wire, session, posted, got, fault>>

ReceiveFrameHeaderHandler ==
    LET frame == Head(wire)
        buffered == messageBuffer[frame.ch]
        continues == frame.type \in {"MIDDLE", "LAST"}
    IN  /\ Serves("header")
        /\ message' = IF buffered # NoMessage /\ continues
                      THEN buffered
                      ELSE [ch |-> frame.ch, parts |-> <<>>]
        /\ isValidFrame' = (continues => buffered # NoMessage)
        /\ messageBuffer' = [messageBuffer EXCEPT ![frame.ch] = NoMessage]
        /\ thisFrameType' = frame.type
        /\ wireOff' = 1
        /\ Request("size")
        /\ UNCHANGED <<starts, promise, wire, session, posted, got, fault>>

ReceiveFrameSizeHandler ==
    /\ Serves("size")
    /\ wireOff' = 2
    /\ Request("payload")
    /\ UNCHANGED <<starts, promise, message, messageBuffer, thisFrameType,
                   isValidFrame, wire, session, posted, got, fault>>

\* What the payload handler does in every case: the frame is read.
ReadPayload ==
    /\ Serves("payload")
    /\ wire' = Tail(wire)
    /\ wireOff' = 0
    /\ UNCHANGED <<starts, thisFrameType, isValidFrame, session>>

\* promise_->resolve or promise_->reject, then promise_.reset().  The pointer
\* is not tested: on a null promise_ the process is lost.
Settle(outcome) ==
    /\ promise' = "null"
    /\ \/ /\ promise = "set"
          /\ posted' = Append(posted, outcome)
          /\ UNCHANGED fault
       \/ /\ promise = "null"
          /\ fault' = "null promise"
          /\ UNCHANGED posted

\* message_ with the payload of the frame being read.
Assembled == [ch |-> message.ch, parts |-> Append(message.parts, Head(wire))]

EndsMessage == thisFrameType \in {"BULK", "LAST"} /\ isValidFrame

\* Mutant: no return after the rejection, the next frame is asked for.
DecryptFailsAndGoesOn ==
    /\ ReadPayload
    /\ session = "crypto"
    /\ message' = NoMessage
    /\ Request("header")
    /\ Settle(Error)
    /\ UNCHANGED <<messageBuffer, got>>

DecryptFails ==
    /\ ReadPayload
    /\ session = "crypto"
    /\ message' = NoMessage
    /\ requests' = Tail(requests)
    /\ Settle(Error)
    /\ UNCHANGED <<messageBuffer, got>>

\* A channel with a handler has every message shown to it, taken or not.
InvokeInterceptor ==
    got' = IF message.ch \in Intercepted
           THEN [got EXCEPT ![message.ch] = Number(Assembled)]
           ELSE got

\* interceptor::handleMessage returned true.
MessageIntercepted ==
    /\ ReadPayload
    /\ session = "up"
    /\ EndsMessage
    /\ message.ch \in Intercepted
    /\ InvokeInterceptor
    /\ message' = NoMessage
    /\ Request("header")
    /\ UNCHANGED <<promise, messageBuffer, posted, fault>>

MessageResolved ==
    /\ ReadPayload
    /\ session = "up"
    /\ EndsMessage
    /\ InvokeInterceptor
    /\ Settle(Assembled)
    /\ message' = NoMessage
    /\ requests' = Tail(requests)
    /\ UNCHANGED messageBuffer

MessageStored ==
    /\ ReadPayload
    /\ session = "up"
    /\ ~EndsMessage
    /\ messageBuffer' = [messageBuffer EXCEPT ![message.ch] = Assembled]
    /\ message' = NoMessage
    /\ Request("header")
    /\ UNCHANGED <<promise, posted, got, fault>>

ReceiveFramePayloadHandler ==
    DecryptFails \/ MessageIntercepted \/ MessageResolved \/ MessageStored

\* The transport rejects every request it holds (Transport::rejectReceivePromises);
\* the handler of each rejects promise_.
TransportRejects ==
    /\ session = "down"
    /\ requests # <<>>
    /\ requests' = Tail(requests)
    /\ message' = NoMessage
    /\ Settle(Error)
    /\ UNCHANGED <<starts, messageBuffer, thisFrameType, isValidFrame, wire,
                   wireOff, session, got>>

\* Two chains of requests on one stream: a handler is given bytes of another part.
Desynchronised ==
    /\ session # "down"
    /\ wire # <<>>
    /\ requests # <<>>
    /\ Head(requests) # Kind(wireOff)
    /\ fault' = "desynchronised"
    /\ UNCHANGED <<starts, promise, requests, message, messageBuffer,
                   thisFrameType, isValidFrame, wire, wireOff, session, posted, got>>

-----------------------------------------------------------------------------
InStreamTypeOK ==
    /\ starts \in Nat
    /\ promise \in {"null", "set"}
    /\ requests \in Seq(Kinds)
    /\ message \in Messages \cup {NoMessage}
    /\ messageBuffer \in [Channels -> Messages \cup {NoMessage}]
    /\ thisFrameType \in FrameTypes
    /\ isValidFrame \in BOOLEAN
    /\ wire \in Seq(Frames)
    /\ wireOff \in 0..2
    /\ session \in {"up", "down", "crypto"}
    /\ posted \in Seq(Finished \cup {Error})
    /\ got \in [Channels -> Nat]
    /\ fault \in {"none", "null promise", "desynchronised"}

InStreamInit ==
    /\ starts = 0
    /\ promise = "null"
    /\ requests = <<>>
    /\ message = NoMessage
    /\ messageBuffer = [c \in Channels |-> NoMessage]
    /\ thisFrameType = "BULK"
    /\ isValidFrame = TRUE
    /\ wire = <<>>
    /\ wireOff = 0
    /\ session = "up"
    /\ posted = <<>>
    /\ got = [c \in Channels |-> 0]
    /\ fault = "none"

InStreamNext ==
    \/ StartReceive
    \/ ReceiveFrameHeaderHandler
    \/ ReceiveFrameSizeHandler
    \/ ReceiveFramePayloadHandler
    \/ TransportRejects
    \/ Desynchronised
=============================================================================
