------------------------------- MODULE SendPath -------------------------------
(***************************************************************************)
(* From the channels to the phone: the send queue of the messenger         *)
(* (Messenger/Messenger.cpp), the two frame writers (MessageOutStream) and *)
(* the transport, which sends the frames in the order they come            *)
(* (TransportSend).  The messenger has one message with its writer at a    *)
(* time; the handlers of the interceptor call theirs at any time.          *)
(***************************************************************************)
EXTENDS Naturals, FiniteSets, SequencesExt

CONSTANTS
    Writers,       \* "messenger" (MessageOutStream), "sender" (MessageSender)
    MaxPayload,    \* cMaxFramePayloadSize
    MaxSize,       \* bound: size of a message
    MaxMessages,   \* bound: messages per writer
    Loads          \* bounds: messages per writer and their size, together

ASSUME SendPathAssumption ==
    /\ Writers \subseteq {"messenger", "sender"}
    /\ MaxPayload \in Nat \ {0}
    /\ MaxSize \in Nat
    /\ MaxMessages \in Nat
    /\ Loads \subseteq [count : [Writers -> 0..MaxMessages], size : 0..MaxSize]

VARIABLES
    calls, message, offset, remaining, promise, compounded, acks, records,
    sendQueue, posted,
    channelSendPromiseQueue,   \* channelSendPromiseQueue_: messages, oldest first
    wire,                      \* what reached the phone: frames and their writer
    sent                       \* history: size and promise of each message

Writer == INSTANCE MessageOutStream

vars == <<calls, message, offset, remaining, promise, compounded, acks, records,
          sendQueue, posted, channelSendPromiseQueue, wire, sent>>
framesUnchanged == UNCHANGED <<message, offset, remaining, promise, compounded,
                               acks, records, sendQueue>>

-----------------------------------------------------------------------------
NewMessage(w, size, encrypted) ==
    [id |-> Len(sent[w]) + 1, size |-> size, encrypted |-> encrypted]

\* Bound: what was asked for is within one of the loads.
Within(load) ==
    \A w \in Writers : /\ Len(sent'[w]) <= load.count[w]
                       /\ \A id \in DOMAIN sent'[w] : sent'[w][id].size <= load.size

\* A message is asked for: by a service channel, or by a handler.
Ask(w, size) ==
    /\ sent' = [sent EXCEPT ![w] = Append(@, [size |-> size, promise |-> "waiting"])]
    /\ \E load \in Loads : Within(load)

Settle(w, id, result) ==
    sent' = [sent EXCEPT ![w][id].promise = result]

DoSend(queue) ==
    calls' = IF queue = <<>> THEN calls
             ELSE [calls EXCEPT !["messenger"] = Append(@, Head(queue))]

\* Mutant: the message is streamed also when one is in progress.
EnqueueSendStreams(size, encrypted) ==
    LET m == NewMessage("messenger", size, encrypted)
    IN  /\ "messenger" \in Writers
        /\ Ask("messenger", size)
        /\ channelSendPromiseQueue' = Append(channelSendPromiseQueue, m)
        /\ DoSend(<<m>>)
        /\ framesUnchanged
        /\ UNCHANGED <<posted, wire>>

EnqueueSend(size, encrypted) ==
    LET m == NewMessage("messenger", size, encrypted)
    IN  /\ "messenger" \in Writers
        /\ Ask("messenger", size)
        /\ channelSendPromiseQueue' = Append(channelSendPromiseQueue, m)
        /\ DoSend(IF channelSendPromiseQueue = <<>> THEN <<m>> ELSE <<>>)
        /\ framesUnchanged
        /\ UNCHANGED <<posted, wire>>

\* channelSendPromiseQueue_.erase: the iterator is one to the message, which must
\* still be queued (IteratorIsValid).
Erase(id) ==
    \E i \in DOMAIN channelSendPromiseQueue :
        /\ channelSendPromiseQueue[i].id = id
        /\ channelSendPromiseQueue' = RemoveAt(channelSendPromiseQueue, i)

\* What the messenger is told of the message it streamed.
Outcome(accepted) ==
    /\ "messenger" \in Writers
    /\ posted["messenger"] # <<>>
    /\ (Head(posted["messenger"]).result = "resolved") = accepted
    /\ posted' = [posted EXCEPT !["messenger"] = Tail(@)]

\* Mutant: the message behind is not streamed.
HandlerForgetsNext ==
    /\ Outcome(TRUE)
    /\ Settle("messenger", Head(posted["messenger"]).id, "resolved")
    /\ Erase(Head(posted["messenger"]).id)
    /\ framesUnchanged
    /\ UNCHANGED <<calls, wire>>

OutStreamMessageHandler ==
    /\ Outcome(TRUE)
    /\ Settle("messenger", Head(posted["messenger"]).id, "resolved")
    /\ Erase(Head(posted["messenger"]).id)
    /\ DoSend(channelSendPromiseQueue')
    /\ framesUnchanged
    /\ UNCHANGED wire

RejectSendPromiseQueue ==
    /\ Outcome(FALSE)
    /\ channelSendPromiseQueue' = <<>>
    /\ sent' = [sent EXCEPT !["messenger"] = [id \in DOMAIN @ |->
                  IF @[id].promise = "waiting" THEN [@[id] EXCEPT !.promise = "rejected"]
                  ELSE @[id]]]
    /\ framesUnchanged
    /\ UNCHANGED <<calls, wire>>

\* MessageSender::dispatch: the outcome is only logged.
Dispatch(size, encrypted) ==
    /\ "sender" \in Writers
    /\ Ask("sender", size)
    /\ calls' = [calls EXCEPT !["sender"] =
                    Append(@, NewMessage("sender", size, encrypted))]
    /\ framesUnchanged
    /\ UNCHANGED <<posted, channelSendPromiseQueue, wire>>

LogOutcome ==
    /\ "sender" \in Writers
    /\ posted["sender"] # <<>>
    /\ Settle("sender", Head(posted["sender"]).id, Head(posted["sender"]).result)
    /\ posted' = [posted EXCEPT !["sender"] = Tail(@)]
    /\ framesUnchanged
    /\ UNCHANGED <<calls, channelSendPromiseQueue, wire>>

\* The transport has sent its oldest frame, or failed to.
TransportSends(result) ==
    LET first == Head(sendQueue)
    IN  /\ sendQueue # <<>>
        /\ sendQueue' = Tail(sendQueue)
        /\ wire' = IF result = "resolved" THEN Append(wire, first) ELSE wire
        /\ acks' = [acks EXCEPT ![first.writer] =
                      Append(@, [frame |-> first.frame, result |-> result])]
        /\ UNCHANGED <<calls, message, offset, remaining, promise, compounded,
                       records, posted, channelSendPromiseQueue, sent>>

WriterStep(w) ==
    Writer!Next(w) /\ UNCHANGED <<channelSendPromiseQueue, wire, sent>>

-----------------------------------------------------------------------------
\* Initially nothing is asked for.
Init ==
    /\ Writer!Init
    /\ channelSendPromiseQueue = <<>>
    /\ wire = <<>>
    /\ sent = [w \in Writers |-> <<>>]

Next ==
    \/ \E size \in 1..MaxSize, encrypted \in BOOLEAN :
          EnqueueSend(size, encrypted) \/ Dispatch(size, encrypted)
    \/ OutStreamMessageHandler
    \/ RejectSendPromiseQueue
    \/ LogOutcome
    \/ \E result \in {"resolved", "rejected"} : TransportSends(result)
    \/ \E w \in Writers : WriterStep(w)

Spec == Init /\ [][Next]_vars

\* The threads run what is posted on the strands, and every send of the
\* transport ends (TransportSend!EventuallySettled).
Fairness ==
    /\ WF_vars(OutStreamMessageHandler \/ RejectSendPromiseQueue)
    /\ WF_vars(LogOutcome)
    /\ WF_vars(\E result \in {"resolved", "rejected"} : TransportSends(result))
    /\ \A w \in Writers : WF_vars(WriterStep(w))

FairSpec == Spec /\ Fairness

-----------------------------------------------------------------------------
Messages == [id : 0..MaxMessages, size : 0..MaxSize, encrypted : BOOLEAN]
FrameTypes == {"BULK", "FIRST", "MIDDLE", "LAST"}
Frames == [id : 1..MaxMessages, type : FrameTypes, size : 0..MaxPayload, record : Nat]
Entries == [writer : Writers, frame : Frames]
Acks == [frame : Frames, result : {"resolved", "rejected"}]
Outcomes == [id : 1..MaxMessages, result : {"resolved", "rejected", "busy"}]
Promises == {"waiting", "resolved", "rejected", "busy"}

\* Type invariant of the send path (the members of MessageOutStream,
\* MessageSender and Messenger); no offset goes past the end of its message.
TypeOK ==
    /\ calls \in [Writers -> Seq(Messages)]
    /\ message \in [Writers -> Messages]
    /\ offset \in [Writers -> 0..MaxSize]
    /\ remaining \in [Writers -> 0..MaxSize]
    /\ promise \in [Writers -> {"null", "set"}]
    /\ compounded \in [Writers -> Frames \cup {Writer!NoFrame}]
    /\ acks \in [Writers -> Seq(Acks)]
    /\ records \in Nat
    /\ sendQueue \in Seq(Entries)
    /\ posted \in [Writers -> Seq(Outcomes)]
    /\ channelSendPromiseQueue \in Seq(Messages)
    /\ wire \in Seq(Entries)
    /\ sent \in [Writers -> Seq([size : 1..MaxSize, promise : Promises])]
    /\ \A w \in Writers : offset[w] + remaining[w] = message[w].size
                         \/ message[w].size < MaxPayload

UnderWay(w) ==
    {i \in DOMAIN sendQueue : sendQueue[i].writer = w /\ ~Writer!Ends(sendQueue[i].frame)}
AnswersOf(w) == {i \in DOMAIN acks[w] : ~Writer!Ends(acks[w][i].frame)}

\* A writer that holds a promise, and turns every message away, waits for
\* exactly one frame: one it is about to send, one in the transport, or one
\* whose outcome is posted to it.  A writer without a promise waits for none,
\* so no outcome finds it without its message (MessageOutStream.cpp:71-96).
BusyWriterHasFrame ==
    \A w \in Writers :
        Cardinality(UnderWay(w)) + Cardinality(AnswersOf(w))
            + (IF Writer!Idle(w) THEN 0 ELSE 1)
        = IF promise[w] = "set" THEN 1 ELSE 0

\* The outcome that comes to the messenger is that of the first message of its
\* queue: the iterator doSend bound to the handlers is not one that was erased or
\* dropped with the queue in the meantime (Messenger.cpp:90-122).
IteratorIsValid ==
    "messenger" \in Writers /\ posted["messenger"] # <<>> =>
        /\ channelSendPromiseQueue # <<>>
        /\ Head(channelSendPromiseQueue).id = Head(posted["messenger"]).id

\* Where on the wire the frames of a message are, and those before one of them.
OnWire(w, id) == {i \in DOMAIN wire : wire[i].writer = w /\ wire[i].frame.id = id}
Earlier(places, i) == {j \in places : j < i}

\* The frames of a message: one BULK below cMaxFramePayloadSize; else FIRST,
\* full MIDDLE ones, and LAST with the rest.
Whole(places, size) ==
    IF size < MaxPayload
    THEN /\ Cardinality(places) = 1
         /\ \A i \in places : wire[i].frame.type = "BULK" /\ wire[i].frame.size = size
    ELSE /\ Cardinality(places) = size \div MaxPayload
                         + (IF size % MaxPayload = 0 /\ size # MaxPayload THEN 0 ELSE 1)
         /\ \A i \in places :
                LET f == wire[i].frame
                    n == Cardinality(Earlier(places, i))
                IN  IF n + 1 = Cardinality(places)
                    THEN f.type = "LAST" /\ f.size = size - n * MaxPayload
                    ELSE f.type = (IF n = 0 THEN "FIRST" ELSE "MIDDLE") /\ f.size = MaxPayload

\* When the promise of a message is resolved, the phone has every frame of it,
\* of the right type and size: the pieces add up to the message, also for one of
\* exactly cMaxFramePayloadSize, whose LAST frame is empty
\* (MessageOutStream.cpp:46-49 and 71-96).
ResolvedMeansWhole ==
    \A w \in Writers : \A id \in DOMAIN sent[w] :
        sent[w][id].promise = "resolved" => Whole(OnWire(w, id), sent[w][id].size)

\* The frames of a writer reach the phone in the order of their records, and
\* once a message is begun no other of the same writer comes until it is
\* finished or given up (MessageOutStream.cpp:38-41, 71-96).
NoInterleaving ==
    \A i, j \in DOMAIN wire :
        LET a == wire[i].frame
            b == wire[j].frame
        IN  i < j /\ wire[i].writer = wire[j].writer =>
              /\ a.id <= b.id
              /\ a.record = 0 \/ b.record = 0 \/ a.record < b.record

\* Every message asked for is settled in the end: the queue of the messenger goes
\* on after each success and is emptied on a failure (Messenger.cpp:101-122), and
\* a handler's message is sent or turned away.
EventuallySettled ==
    \A w \in Writers : \A id \in 1..MaxMessages :
        id \in DOMAIN sent[w] ~> id \in DOMAIN sent[w] /\ sent[w][id].promise # "waiting"
=============================================================================
