--------------------------- MODULE MessageOutStream ---------------------------
(***************************************************************************)
(* The frame writers of aasdk.  Messenger/MessageOutStream.cpp writes the  *)
(* messages of the messenger, Messenger/MessageSender.cpp those of the     *)
(* interceptor's handlers; stream and what it calls is the same code, on   *)
(* two objects with a strand each.  They share the cryptor, which numbers  *)
(* the TLS records, and the send queue of the transport.                   *)
(*                                                                         *)
(* A message of cMaxFramePayloadSize or more is split; the next frame is   *)
(* made when the transport has sent the one before.  A handler locks the   *)
(* cryptor and then calls the transport, and the other writer may come in  *)
(* between, so it is two actions: Compound, which ends with the frame      *)
(* encrypted, and TransportSend.                                           *)
(***************************************************************************)
EXTENDS Naturals, Sequences

CONSTANTS
    Writers,      \* the frame writers in use
    MaxPayload    \* cMaxFramePayloadSize

VARIABLES
    calls,        \* stream calls dispatched on strand_ and not run yet
    message,      \* message_
    offset,       \* offset_
    remaining,    \* remainingSize_
    promise,      \* promise_: "null" or "set"
    compounded,   \* the frame of a handler that has not called the transport yet
    acks,         \* outcomes of its frames the transport posted on strand_
    records,      \* records the cryptor has made
    sendQueue,    \* the send queue of the transport: frames, oldest first
    posted        \* outcomes of messages posted to the caller

writerVars == <<calls, message, offset, remaining, promise, compounded, acks,
                records, sendQueue, posted>>

\* A message is its number, unique in its writer, its size and whether it is
\* EncryptionType::ENCRYPTED.
NoMessage == [id |-> 0, size |-> 0, encrypted |-> FALSE]
NoFrame == [id |-> 0, type |-> "none", size |-> 0, record |-> 0]

Put(f, w, x) == [f EXCEPT ![w] = Append(@, x)]
Take(f, w) == [f EXCEPT ![w] = Tail(@)]
Set(f, w, x) == [f EXCEPT ![w] = x]

Ends(frame) == frame.type \in {"BULK", "LAST"}

Idle(w) == compounded[w] = NoFrame

Reset(w) ==
    /\ message' = Set(message, w, NoMessage)
    /\ offset' = Set(offset, w, 0)
    /\ remaining' = Set(remaining, w, 0)

Reject(w, id) ==
    /\ promise' = Set(promise, w, "null")
    /\ posted' = Put(posted, w, [id |-> id, result |-> "rejected"])

\* Mutant: a rest of one byte is forgotten.
FrameTypeOffByOne(m, off, rest, size) ==
    IF m.size < MaxPayload THEN "BULK"
    ELSE IF off = 0 THEN "FIRST"
    ELSE IF rest - size > 1 THEN "MIDDLE" ELSE "LAST"

FrameType(m, off, rest, size) ==
    IF m.size < MaxPayload THEN "BULK"
    ELSE IF off = 0 THEN "FIRST"
    ELSE IF rest - size > 0 THEN "MIDDLE" ELSE "LAST"

(***************************************************************************)
(* compoundFrame of the next frame of m.  The cryptor makes a record of an *)
(* encrypted one, or fails, and then the message is given up.              *)
(***************************************************************************)
Compound(w, m, off, rest) ==
    LET size == IF rest < MaxPayload THEN rest ELSE MaxPayload
    IN  \/ /\ message' = Set(message, w, m)
           /\ offset' = Set(offset, w, off)
           /\ remaining' = Set(remaining, w, IF m.size < MaxPayload THEN 0 ELSE rest)
           /\ promise' = Set(promise, w, "set")
           /\ records' = IF m.encrypted THEN records + 1 ELSE records
           /\ compounded' = Set(compounded, w,
                [id |-> m.id, type |-> FrameType(m, off, rest, size), size |-> size,
                 record |-> IF m.encrypted THEN records' ELSE 0])
           /\ UNCHANGED posted
        \/ /\ m.encrypted
           /\ Reset(w)
           /\ Reject(w, m.id)
           /\ UNCHANGED <<records, compounded>>

-----------------------------------------------------------------------------
\* Mutant: a message takes the place of the one in progress.
StreamReplaces(w) ==
    /\ Idle(w)
    /\ calls[w] # <<>>
    /\ calls' = Take(calls, w)
    /\ Compound(w, Head(calls[w]), 0, Head(calls[w]).size)
    /\ UNCHANGED <<acks, sendQueue>>

Stream(w) ==
    /\ Idle(w)
    /\ calls[w] # <<>>
    /\ calls' = Take(calls, w)
    /\ LET m == Head(calls[w])
       IN  \/ /\ promise[w] = "set"
              /\ posted' = Put(posted, w, [id |-> m.id, result |-> "busy"])
              /\ UNCHANGED <<message, offset, remaining, promise, compounded, records>>
           \/ /\ promise[w] = "null"
              /\ Compound(w, m, 0, m.size)
    /\ UNCHANGED <<acks, sendQueue>>

\* The frame goes to the transport.  With the last frame of a message promise_
\* goes along, and the writer is free for the next.
TransportSend(w) ==
    LET frame == compounded[w]
    IN  /\ ~Idle(w)
        /\ sendQueue' = Append(sendQueue, [writer |-> w, frame |-> frame])
        /\ compounded' = Set(compounded, w, NoFrame)
        /\ IF Ends(frame) THEN Reset(w) /\ promise' = Set(promise, w, "null")
                   ELSE UNCHANGED <<message, offset, remaining, promise>>
        /\ UNCHANGED <<calls, acks, records, posted>>

\* The outcome of a frame is posted on the writer's strand.
Acked(w, ends, result) ==
    /\ Idle(w)
    /\ acks[w] # <<>>
    /\ Head(acks[w]).result = result
    /\ Ends(Head(acks[w]).frame) <=> ends
    /\ acks' = Take(acks, w)
    /\ UNCHANGED <<calls, sendQueue>>

\* The frame before was sent: streamSplittedMessage makes the next one.
StreamSplittedMessage(w) ==
    LET size == Head(acks[w]).frame.size
    IN  /\ Acked(w, FALSE, "resolved")
        /\ Compound(w, message[w], offset[w] + size, remaining[w] - size)

\* Mutant: promise_ is rejected and not reset.
SplitFailsKeepsPromise(w) ==
    /\ Acked(w, FALSE, "rejected")
    /\ Reset(w)
    /\ posted' = Put(posted, w, [id |-> Head(acks[w]).frame.id, result |-> "rejected"])
    /\ UNCHANGED <<promise, compounded, records>>

\* A frame before the last could not be sent: the message is given up.
SplitFails(w) ==
    /\ Acked(w, FALSE, "rejected")
    /\ Reset(w)
    /\ Reject(w, Head(acks[w]).frame.id)
    /\ UNCHANGED <<compounded, records>>

\* PromiseLink: the outcome of the last frame is that of the message.
Forward(w) ==
    \E result \in {"resolved", "rejected"} :
        /\ Acked(w, TRUE, result)
        /\ posted' = Put(posted, w, [id |-> Head(acks[w]).frame.id, result |-> result])
        /\ UNCHANGED <<message, offset, remaining, promise, compounded, records>>

-----------------------------------------------------------------------------
Init ==
    /\ calls = [w \in Writers |-> <<>>]
    /\ message = [w \in Writers |-> NoMessage]
    /\ offset = [w \in Writers |-> 0]
    /\ remaining = [w \in Writers |-> 0]
    /\ promise = [w \in Writers |-> "null"]
    /\ compounded = [w \in Writers |-> NoFrame]
    /\ acks = [w \in Writers |-> <<>>]
    /\ records = 0
    /\ sendQueue = <<>>
    /\ posted = [w \in Writers |-> <<>>]

Next(w) ==
    \/ Stream(w)
    \/ TransportSend(w)
    \/ StreamSplittedMessage(w)
    \/ SplitFails(w)
    \/ Forward(w)
=============================================================================
