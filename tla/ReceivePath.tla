----------------------------- MODULE ReceivePath -----------------------------
(***************************************************************************)
(* From the phone to the channels: the frames the phone sends, the frame   *)
(* reader (MessageInStream) and the messenger that shares it (Messenger).  *)
(* The two run on different strands and meet in two queues: starts, the    *)
(* startReceive calls on the reader's strand, and posted, the outcomes on  *)
(* the messenger's.                                                        *)
(***************************************************************************)
EXTENDS Naturals, Sequences, FiniteSets

CONSTANTS
    Channels, Receivers, Intercepted, MaxPromises,
    MaxMessages,   \* bound: messages the phone sends, per channel
    MaxFrames,     \* bound: frames of one message, per channel
    MaxWire,       \* bound: frames in flight
    LosesFrames    \* the phone may leave out frames of a message

\* A channel has one kind of reader: a handler of the interceptor or a service
\* channel.  (In this build only the control channel is of the second kind.)
ASSUME ReadersAssumption ==
    /\ Receivers \subseteq Channels
    /\ Intercepted \subseteq Channels
    /\ Receivers \cap Intercepted = {}

\* The two values that stand for no channel.
ASSUME ChannelsAssumption == "none" \notin Channels /\ "error" \notin Channels

ASSUME PromisesAssumption == MaxPromises \in Nat \ {0}

ASSUME BoundsAssumption ==
    /\ MaxMessages \in [Channels -> Nat]
    /\ MaxFrames \in [Channels -> Nat \ {0}]
    /\ MaxWire \in Nat
    /\ LosesFrames \in BOOLEAN

VARIABLES
    starts, promise, requests, message, messageBuffer, thisFrameType,
    isValidFrame, wire, wireOff, session, posted, got, fault,
    promiseQueue, messageQueue, closed, stopped,
    sent,          \* messages the phone finished, per channel
    framesSent     \* frames sent of the message in progress, per channel

Stream == INSTANCE MessageInStream
Owner == INSTANCE Messenger

inStreamVars == <<promise, requests, message, messageBuffer, thisFrameType,
                  isValidFrame, wire, wireOff, session, fault>>
ownerVars == <<promiseQueue, messageQueue, closed, stopped>>
phoneVars == <<sent, framesSent>>
vars == <<starts, posted, got, inStreamVars, ownerVars, phoneVars>>

-----------------------------------------------------------------------------
(***************************************************************************)
(* The phone.  It splits a message into FIRST, MIDDLE ..., LAST or sends   *)
(* it as one BULK frame, and interleaves the frames of its channels.       *)
(***************************************************************************)
SendFrame(c, type) ==
    LET no == framesSent[c] + 1
        frame == [ch |-> c, type |-> type, msg |-> sent[c] + 1, no |-> no]
        last == type \in {"LAST", "BULK"}
    IN  /\ sent[c] < MaxMessages[c]
        /\ Len(wire) < MaxWire
        /\ type \in IF no = 1 THEN {"FIRST", "BULK"} ELSE {"MIDDLE", "LAST"}
        /\ last \/ no < MaxFrames[c]
        /\ wire' = Append(wire, frame) \/ (LosesFrames /\ wire' = wire)
        /\ framesSent' = [framesSent EXCEPT ![c] = IF last THEN 0 ELSE no]
        /\ sent' = [sent EXCEPT ![c] = IF last THEN @ + 1 ELSE @]
        /\ UNCHANGED <<starts, promise, requests, message, messageBuffer,
                       thisFrameType, isValidFrame, wireOff, session, posted,
                       got, fault, ownerVars>>

\* The transport or the TLS session fails; neither recovers in a session.
SessionFails ==
    /\ session = "up"
    /\ session' \in {"down", "crypto"}
    /\ UNCHANGED <<starts, promise, requests, message, messageBuffer,
                   thisFrameType, isValidFrame, wire, wireOff, posted, got,
                   fault, ownerVars, phoneVars>>

InStreamStep == Stream!InStreamNext /\ UNCHANGED <<ownerVars, phoneVars>>

MessengerStep == Owner!MessengerNext /\ UNCHANGED <<inStreamVars, phoneVars>>

-----------------------------------------------------------------------------
Init ==
    /\ Stream!InStreamInit
    /\ Owner!MessengerInit
    /\ sent = [c \in Channels |-> 0]
    /\ framesSent = [c \in Channels |-> 0]

Next ==
    /\ fault = "none"    \* a process that faulted does not go on
    /\ \/ \E c \in Channels, type \in Stream!FrameTypes : SendFrame(c, type)
       \/ SessionFails
       \/ InStreamStep
       \/ MessengerStep

Spec == Init /\ [][Next]_vars

(***************************************************************************)
(* The io_service threads run every handler that was posted, and a service *)
(* channel asks for the next message when it has seen one.  The phone, the *)
(* failures and Stop owe nothing.                                          *)
(***************************************************************************)
Fairness ==
    /\ WF_vars(fault = "none" /\ InStreamStep)
    /\ WF_vars(fault = "none" /\ UNCHANGED <<inStreamVars, phoneVars>>
                 /\ (Owner!InStreamMessageHandler \/ Owner!RejectReceivePromiseQueue))
    /\ \A c \in Receivers :
         WF_vars(fault = "none" /\ UNCHANGED <<inStreamVars, phoneVars>>
                   /\ Owner!EnqueueReceive(c))

FairSpec == Spec /\ Fairness

-----------------------------------------------------------------------------
\* Every variable of the reader, the messenger and the phone has its type.
TypeOK ==
    /\ Stream!InStreamTypeOK
    /\ promiseQueue \in [Channels -> 0..MaxPromises]
    /\ messageQueue \in [Channels -> Seq(Stream!Finished)]
    /\ closed \subseteq Channels
    /\ stopped \in BOOLEAN
    /\ sent \in [Channels -> Nat]
    /\ framesSent \in [Channels -> Nat]

\* The receives of the in stream that have not come back to the messenger:
\* called, in progress, or finished with the outcome still posted.
InFlight == starts + (IF promise = "set" THEN 1 ELSE 0) + Len(posted)

(***************************************************************************)
(* While a channel waits exactly one receive of the in stream works for    *)
(* it, and none does when no channel waits: enqueueReceive, the message    *)
(* handler and the rejection, in any order against the frame reader,       *)
(* neither lose the receive (every channel would stall) nor start a second *)
(* one (Messenger.cpp:43-50, 81-88, 110-114).                              *)
(***************************************************************************)
OneReceiveInFlight ==
    InFlight = IF Owner!Waiting(promiseQueue) = {} THEN 0 ELSE 1

\* While a receive is in progress the transport holds one request, for the part
\* of the frame that comes next, and message_ is set inside a frame; otherwise
\* the reader stands before a frame (MessageInStream.cpp:33-182).
RequestsMatch ==
    /\ requests = IF promise = "null" THEN <<>>
                  ELSE IF session = "down" THEN <<Head(requests)>>
                  ELSE <<Stream!Kind(wireOff)>>
    /\ session # "down" => (promise = "set" \/ wireOff = 0)
    /\ session # "down" => (wireOff = 0 \/ message \in Stream!Messages)

(***************************************************************************)
(* The handlers of the frame reader use promise_ without a test and trust  *)
(* that the bytes they are given are the part they asked for: neither goes *)
(* wrong (MessageInStream.cpp:33-182).                                     *)
(***************************************************************************)
NoFault == fault = "none"

(***************************************************************************)
(* A channel never waits while a message for it is queued: the message     *)
(* handler queues only what nobody waits for and enqueueReceive takes from *)
(* the queue first (Messenger.cpp:36-41, 72-79).                           *)
(***************************************************************************)
NoWaiterBesideMessage ==
    \A c \in Channels : promiseQueue[c] = 0 \/ messageQueue[c] = <<>>

\* The inductive invariant behind the safety of the shared reader.
IInv ==
    /\ TypeOK
    /\ OneReceiveInFlight
    /\ RequestsMatch
    /\ NoFault
    /\ NoWaiterBesideMessage

\* The message about to be completed by the payload handler, if there is one.
Completing ==
    IF requests # <<>> /\ Head(requests) = "payload" /\ wire # <<>> /\ Stream!EndsMessage
    THEN {Stream!Assembled} ELSE {}

\* Every message that was, or is about to be, handed out by the frame reader.
HandedOut ==
    Completing
    \cup {posted[i] : i \in {j \in 1..Len(posted) : posted[j] # Stream!Error}}
    \cup UNION {{messageQueue[c][i] : i \in 1..Len(messageQueue[c])} : c \in Channels}

IsWhole(m) ==
    /\ m.parts # <<>>
    /\ \A i \in 1..Len(m.parts) :
         /\ m.parts[i].ch = m.ch
         /\ m.parts[i].msg = m.parts[1].msg
         /\ m.parts[i].no = i
         /\ m.parts[i].type \in {"LAST", "BULK"} <=> i = Len(m.parts)

(***************************************************************************)
(* However the phone interleaves its channels, a message handed to the     *)
(* interceptor or to a channel is one message of that channel: all of its  *)
(* frames, in order, and no other's (MessageInStream.cpp:58-110, 130-182). *)
(***************************************************************************)
WholeMessages == \A m \in HandedOut : IsWhole(m)

(***************************************************************************)
(* Even when the phone leaves frames out, a message that begins discards   *)
(* what was buffered for its channel: the first frame of a message never   *)
(* stands behind another frame (MessageInStream.cpp:75-80).                *)
(***************************************************************************)
NoStaleHead ==
    \A m \in HandedOut :
        \A i \in 2..Len(m.parts) : m.parts[i].type \notin {"FIRST", "BULK"}

(***************************************************************************)
(* MessageInStream.cpp:83-84 of a MIDDLE or LAST frame without a buffered  *)
(* message: "this an error. Still need to process the frame, but we will   *)
(* not resolve at the end".  A message that begins so is never handed out. *)
(***************************************************************************)
OrphanNotResolved ==
    \A m \in HandedOut : m.parts[1].type \in {"FIRST", "BULK"}

(***************************************************************************)
(* The test Messenger_OnlyOneReceiveAtATime (Messenger.ut.cpp:120): the    *)
(* messenger has at most one receive of the in stream at a time.           *)
(***************************************************************************)
OnlyOneReceiveAtATime == InFlight <= 1

(***************************************************************************)
(* The test MessageInStream_IntertwinedChannels                            *)
(* (MessageInStream.ut.cpp:389-393): the header of a frame of another      *)
(* channel than the message in progress rejects the receive.               *)
(***************************************************************************)
IntertwinedRejected ==
    [][(wireOff = 0 /\ wireOff' = 1
          /\ \E c \in Channels \ {Head(wire).ch} : messageBuffer[c] # Stream!NoMessage)
        => posted' = Append(posted, Stream!Error)]_vars

(***************************************************************************)
(* The receive path implements one queue per channel: from the phone       *)
(* through reassembly, the interceptor and the two queues of the messenger *)
(* each message reaches its reader once and in order.                      *)
(***************************************************************************)
Delivery == INSTANCE ChannelDelivery WITH discarded <- stopped
ImplementsDelivery == Delivery!Spec

(***************************************************************************)
(* A message finished by the phone for a channel that receives is seen by  *)
(* it unless the session fails or is stopped: whatever the other channels  *)
(* do, the shared reader is always restarted for it.                       *)
(***************************************************************************)
EventuallyDelivered ==
    \A c \in Receivers : \A n \in 1..MaxMessages[c] :
        sent[c] >= n ~> (got[c] >= n \/ session # "up" \/ stopped)
=============================================================================
