-------------------------- MODULE ReceivePathProofs --------------------------
(***************************************************************************)
(* Proofs about the receive path, for any channels, frames and messages,   *)
(* when a channel has at most one promise outstanding (MaxPromises = 1).   *)
(* Three invariants are inductive, each on top of the one before:          *)
(* IInv of ReceivePath (the reader and who waits), FrameInv (what          *)
(* reassembly keeps, whatever frames the phone leaves out) and DeliveryInv *)
(* (what delivery keeps when it leaves out none).  One lemma per action    *)
(* shows that the action preserves the invariant.                          *)
(***************************************************************************)
EXTENDS ReceivePath, SequenceTheorems, TLAPS

\* The inductive invariant holds before anything is received.
LEMMA InitInv ==
  ASSUME MaxPromises = 1, Init
  PROVE  IInv
<1>1. /\ requests \in Seq(Stream!Kinds)
      /\ wire \in Seq(Stream!Frames)
      /\ posted \in Seq(Stream!Finished \cup {Stream!Error})
      /\ messageQueue \in [Channels -> Seq(Stream!Finished)]
  <2>1. \A c \in Channels : messageQueue[c] \in Seq(Stream!Finished)
    BY DEF Init, Owner!MessengerInit
  <2> QED
    BY <2>1 DEF Init, Stream!InStreamInit, Owner!MessengerInit
<1>2. /\ message \in Stream!Messages \cup {Stream!NoMessage}
      /\ messageBuffer \in [Channels -> Stream!Messages \cup {Stream!NoMessage}]
      /\ thisFrameType \in Stream!FrameTypes
      /\ isValidFrame \in BOOLEAN
  BY DEF Init, Stream!InStreamInit, Stream!FrameTypes
<1>3. /\ starts = 0 /\ promise = "null" /\ wireOff = 0 /\ session = "up"
      /\ fault = "none" /\ posted = <<>> /\ requests = <<>>
      /\ got \in [Channels -> Nat]
      /\ \A c \in Channels : promiseQueue[c] = 0
  BY DEF Init, Stream!InStreamInit, Owner!MessengerInit
<1>4. /\ promiseQueue \in [Channels -> 0..MaxPromises]
      /\ closed \subseteq Channels
      /\ sent \in [Channels -> Nat] /\ framesSent \in [Channels -> Nat]
  BY DEF Init, Owner!MessengerInit
<1>5. stopped \in BOOLEAN
  BY DEF Init, Owner!MessengerInit
<1>6. Stream!InStreamTypeOK
  BY <1>1, <1>2, <1>3 DEF Stream!InStreamTypeOK
<1>7. Owner!Waiting(promiseQueue) = {}
  BY <1>3 DEF Owner!Waiting
<1>8. OneReceiveInFlight
  BY <1>3, <1>7 DEF OneReceiveInFlight, InFlight
<1>9. RequestsMatch /\ NoFault /\ NoWaiterBesideMessage
  BY <1>3 DEF RequestsMatch, NoFault, NoWaiterBesideMessage
<1> QED
  BY <1>1, <1>4, <1>5, <1>6, <1>8, <1>9 DEF IInv, TypeOK

(***************************************************************************)
(* The counting argument: what InFlight = 0 or 1 says of its three parts.  *)
(***************************************************************************)
LEMMA InFlightParts ==
  ASSUME IInv
  PROVE  /\ starts \in Nat /\ Len(posted) \in Nat /\ promise \in {"null", "set"}
         /\ starts > 0 => promise = "null" /\ posted = <<>> /\ starts = 1
         /\ promise = "set" => starts = 0 /\ posted = <<>>
         /\ posted # <<>> => starts = 0 /\ promise = "null" /\ Len(posted) = 1
         /\ starts > 0 \/ promise = "set" \/ posted # <<>>
              => Owner!Waiting(promiseQueue) # {}
         /\ Owner!Waiting(promiseQueue) = {}
              => starts = 0 /\ promise = "null" /\ posted = <<>>
<1> DEFINE p == IF promise = "set" THEN 1 ELSE 0
           n == IF Owner!Waiting(promiseQueue) = {} THEN 0 ELSE 1
<1>1. starts \in Nat /\ promise \in {"null", "set"}
      /\ posted \in Seq(Stream!Finished \cup {Stream!Error})
  BY DEF IInv, TypeOK, Stream!InStreamTypeOK
<1>2. Len(posted) \in Nat /\ (posted # <<>> <=> Len(posted) > 0)
  BY <1>1, EmptySeq
<1>3. starts + p + Len(posted) = n
  BY DEF IInv, OneReceiveInFlight, InFlight
<1>4. p \in {0, 1} /\ n \in {0, 1} /\ (p = 1 <=> promise = "set")
      /\ (n = 0 <=> Owner!Waiting(promiseQueue) = {})
  OBVIOUS
<1> HIDE DEF p, n
<1>5. n = 0 => starts = 0 /\ p = 0 /\ posted = <<>>
  BY <1>1, <1>2, <1>3, <1>4
<1>6. /\ starts > 0 => p = 0 /\ posted = <<>> /\ starts = 1 /\ n = 1
      /\ p = 1 => starts = 0 /\ posted = <<>> /\ n = 1
      /\ posted # <<>> => starts = 0 /\ p = 0 /\ Len(posted) = 1 /\ n = 1
  <2>1. starts > 0 => p = 0 /\ posted = <<>> /\ starts = 1 /\ n = 1
    BY <1>1, <1>2, <1>3, <1>4
  <2>2. p = 1 => starts = 0 /\ posted = <<>> /\ n = 1
    BY <1>1, <1>2, <1>3, <1>4
  <2>3. posted # <<>> => starts = 0 /\ p = 0 /\ Len(posted) = 1 /\ n = 1
    <3>1. posted # <<>> => Len(posted) > 0
      BY <1>2
    <3>2. Len(posted) > 0 => starts = 0 /\ p = 0 /\ Len(posted) = 1 /\ n = 1
      <4> DEFINE q == Len(posted)
      <4>1. q \in Nat /\ starts + p + q = n /\ starts \in Nat
        BY <1>1, <1>2, <1>3
      <4> HIDE DEF q
      <4>2. q > 0 => starts = 0 /\ p = 0 /\ q = 1 /\ n = 1
        BY <4>1, <1>4
      <4> QED
        BY <4>2 DEF q
    <3> QED
      BY <3>1, <3>2
  <2> QED
    BY <2>1, <2>2, <2>3
<1>7. (p = 0 <=> promise = "null") /\ (starts > 0 \/ starts = 0)
  BY <1>1, <1>4
<1>8. starts > 0 \/ promise = "set" \/ posted # <<>>
        => Owner!Waiting(promiseQueue) # {}
  BY <1>4, <1>6
<1>9. /\ starts > 0 => promise = "null" /\ posted = <<>> /\ starts = 1
      /\ promise = "set" => starts = 0 /\ posted = <<>>
      /\ posted # <<>> => starts = 0 /\ promise = "null" /\ Len(posted) = 1
  BY <1>4, <1>6, <1>7
<1> QED
  BY <1>1, <1>2, <1>4, <1>5, <1>7, <1>8, <1>9

\* startReceive of an idle reader: the count of receives in flight goes from 0
\* to 1, as a call still to run or as a request to the transport.
LEMMA StartReceiveInv ==
  ASSUME IInv, Stream!StartReceive, UNCHANGED <<ownerVars, phoneVars>>
  PROVE  IInv'
<1>1. /\ starts = 1 /\ promise = "null" /\ posted = <<>> /\ starts' = 0
      /\ promise' = "set" /\ requests' = Append(requests, "header")
      /\ posted' = posted
  BY InFlightParts DEF Stream!StartReceive
<1>2. requests' = <<"header">>
  BY <1>1 DEF IInv, RequestsMatch
<1>3. RequestsMatch'
  BY <1>1, <1>2 DEF IInv, RequestsMatch, Stream!StartReceive, Stream!Kind
<1>4. OneReceiveInFlight'
  <2>1. Owner!Waiting(promiseQueue)' # {}
    BY <1>1, InFlightParts DEF ownerVars, Owner!Waiting
  <2>2. InFlight' = 1
    BY <1>1 DEF InFlight
  <2> QED
    BY <2>1, <2>2 DEF OneReceiveInFlight
<1>5. requests' \in Seq(Stream!Kinds)
  BY <1>2 DEF Stream!Kinds
<1>6. Stream!InStreamTypeOK'
  <2>1. /\ starts' \in Nat /\ promise' \in {"null", "set"}
        /\ requests' \in Seq(Stream!Kinds)
    BY <1>1, <1>5
  <2>2. UNCHANGED <<message, messageBuffer, thisFrameType, isValidFrame, wire,
                    wireOff, session, posted, got, fault>>
    BY <1>1 DEF Stream!StartReceive
  <2> QED
    BY <2>1, <2>2 DEF IInv, TypeOK, Stream!InStreamTypeOK
<1>7. TypeOK'
  BY <1>6 DEF IInv, TypeOK, ownerVars, phoneVars
<1>8. NoFault' /\ NoWaiterBesideMessage'
  BY DEF IInv, NoFault, NoWaiterBesideMessage, Stream!StartReceive, ownerVars
<1> QED
  BY <1>3, <1>4, <1>7, <1>8 DEF IInv

(***************************************************************************)
(* Messages: what reassembly and the queues hand on has a number.          *)
(***************************************************************************)
LEMMA FinishedHasNumber ==
  ASSUME NEW m \in Stream!Finished
  PROVE  m.ch \in Channels /\ Stream!Number(m) \in Nat /\ Owner!Number(m) \in Nat
<1>1. m.parts \in Seq(Stream!Frames) /\ m.parts # <<>> /\ m.ch \in Channels
  BY DEF Stream!Finished, Stream!Messages
<1>2. Len(m.parts) \in 1..Len(m.parts)
  BY <1>1, EmptySeq
<1>3. m.parts[Len(m.parts)] \in Stream!Frames
  BY <1>1, <1>2, ElementOfSeq
<1> QED
  BY <1>1, <1>3 DEF Stream!Frames, Stream!Number, Owner!Number

\* An outcome is told from a message and a message from the null pointer: the
\* handlers that test for one never take the other.
LEMMA ErrorIsNoMessage ==
  /\ Stream!Error \notin Stream!Finished
  /\ Stream!NoMessage \notin Stream!Messages
BY ChannelsAssumption DEF Stream!Error, Stream!NoMessage, Stream!Finished, Stream!Messages

\* appending a frame to the message of its channel, or taking the frame alone,
\* makes a message of at least one frame.
LEMMA AssembledIsFinished ==
  ASSUME message \in Stream!Messages, Head(wire) \in Stream!Frames
  PROVE  Stream!Assembled \in Stream!Finished
<1> DEFINE parts == Append(message.parts, Head(wire))
<1>1. message.ch \in Channels /\ message.parts \in Seq(Stream!Frames)
      /\ message = [ch |-> message.ch, parts |-> message.parts]
  BY DEF Stream!Messages
<1>2. parts \in Seq(Stream!Frames) /\ parts # <<>>
  BY <1>1, AppendProperties
<1>3. Stream!Assembled = [ch |-> message.ch, parts |-> parts]
  BY <1>1 DEF Stream!Assembled
<1> QED
  BY <1>1, <1>2, <1>3 DEF Stream!Finished, Stream!Messages

(***************************************************************************)
(* The transport resolves a request: the receive it belongs to is the only *)
(* one in flight and it is the transport's only request.                   *)
(***************************************************************************)
LEMMA ServesFacts ==
  ASSUME IInv, NEW kind \in Stream!Kinds, Stream!Serves(kind)
  PROVE  /\ promise = "set" /\ requests = <<kind>> /\ starts = 0 /\ posted = <<>>
         /\ Stream!Kind(wireOff) = kind /\ session # "down"
         /\ Head(wire) \in Stream!Frames /\ Tail(wire) \in Seq(Stream!Frames)
         /\ kind # "header" => message \in Stream!Messages
         /\ Owner!Waiting(promiseQueue) # {}
<1>1. requests # <<>> /\ session # "down" /\ wire # <<>> /\ Head(requests) = kind
      /\ Stream!Kind(wireOff) = kind
  BY DEF Stream!Serves
<1>2. promise \in {"null", "set"} /\ wire \in Seq(Stream!Frames) /\ wireOff \in 0..2
  BY DEF IInv, TypeOK, Stream!InStreamTypeOK
<1>3. promise = "set" /\ requests = <<kind>>
  BY <1>1, <1>2 DEF IInv, RequestsMatch
<1>4. Head(wire) \in Stream!Frames /\ Tail(wire) \in Seq(Stream!Frames)
  BY <1>1, <1>2, HeadTailProperties
<1>5. kind # "header" => message \in Stream!Messages
  BY <1>1, <1>2 DEF IInv, RequestsMatch, Stream!Kind
<1> QED
  BY <1>1, <1>3, <1>4, <1>5, InFlightParts

\* A step that leaves the parts of InFlight and the promises alone.
LEMMA InFlightKept ==
  ASSUME IInv, UNCHANGED <<starts, promise, posted, ownerVars>>
  PROVE  OneReceiveInFlight' /\ NoWaiterBesideMessage'
<1>1. Owner!Waiting(promiseQueue)' = Owner!Waiting(promiseQueue)
  BY DEF Owner!Waiting, ownerVars
<1>2. InFlight' = InFlight
  BY DEF InFlight
<1>3. OneReceiveInFlight'
  BY <1>1, <1>2 DEF IInv, OneReceiveInFlight
<1>4. NoWaiterBesideMessage'
  BY DEF IInv, NoWaiterBesideMessage, ownerVars
<1> QED
  BY <1>3, <1>4

\* receiveFrameHeaderHandler preserves the invariant: the request for the header
\* is replaced by one for the size, so the receive stays in flight.
LEMMA HeaderHandlerInv ==
  ASSUME IInv, Stream!ReceiveFrameHeaderHandler, UNCHANGED <<ownerVars, phoneVars>>
  PROVE  IInv'
<1> DEFINE frame == Head(wire)
<1>1. Stream!Serves("header") /\ "header" \in Stream!Kinds
  BY DEF Stream!ReceiveFrameHeaderHandler, Stream!Kinds
<1>2. /\ requests = <<"header">> /\ promise = "set" /\ session # "down"
      /\ frame \in Stream!Frames
  BY <1>1, ServesFacts
<1>3. UNCHANGED <<starts, promise, wire, session, posted, got, fault>>
      /\ wireOff' = 1
  BY DEF Stream!ReceiveFrameHeaderHandler
<1>4. requests' = <<"size">>
  BY <1>2 DEF Stream!ReceiveFrameHeaderHandler, Stream!Request
<1>5. frame.ch \in Channels /\ frame.type \in Stream!FrameTypes
  BY <1>2 DEF Stream!Frames
<1>6. messageBuffer \in [Channels -> Stream!Messages \cup {Stream!NoMessage}]
  BY DEF IInv, TypeOK, Stream!InStreamTypeOK
<1>7. message' \in Stream!Messages
  <2>1. [ch |-> frame.ch, parts |-> <<>>] \in Stream!Messages
    BY <1>5 DEF Stream!Messages
  <2> QED
    BY <2>1, <1>5, <1>6 DEF Stream!ReceiveFrameHeaderHandler
<1>8. messageBuffer' \in [Channels -> Stream!Messages \cup {Stream!NoMessage}]
  BY <1>6 DEF Stream!ReceiveFrameHeaderHandler
<1>9. thisFrameType' \in Stream!FrameTypes /\ isValidFrame' \in BOOLEAN
  BY <1>5 DEF Stream!ReceiveFrameHeaderHandler
<1>10. requests' \in Seq(Stream!Kinds)
  BY <1>4 DEF Stream!Kinds
<1>11. Stream!InStreamTypeOK'
  <2>1. /\ starts' \in Nat /\ promise' \in {"null", "set"}
        /\ wire' \in Seq(Stream!Frames) /\ session' \in {"up", "down", "crypto"}
        /\ posted' \in Seq(Stream!Finished \cup {Stream!Error})
        /\ got' \in [Channels -> Nat]
        /\ fault' \in {"none", "null promise", "desynchronised"}
    BY <1>3 DEF IInv, TypeOK, Stream!InStreamTypeOK
  <2>2. wireOff' \in 0..2
    BY <1>3
  <2> QED
    BY <2>1, <2>2, <1>7, <1>8, <1>9, <1>10 DEF Stream!InStreamTypeOK
<1>12. TypeOK'
  BY <1>11 DEF IInv, TypeOK, ownerVars, phoneVars
<1>13. RequestsMatch'
  BY <1>2, <1>3, <1>4, <1>7 DEF RequestsMatch, Stream!Kind
<1> QED
  BY <1>3, <1>12, <1>13, InFlightKept DEF IInv, NoFault

\* receiveFrameSizeHandler preserves the invariant: the request for the size is
\* replaced by one for the payload.
LEMMA SizeHandlerInv ==
  ASSUME IInv, Stream!ReceiveFrameSizeHandler, UNCHANGED <<ownerVars, phoneVars>>
  PROVE  IInv'
<1>1. Stream!Serves("size") /\ "size" \in Stream!Kinds
  BY DEF Stream!ReceiveFrameSizeHandler, Stream!Kinds
<1>2. /\ requests = <<"size">> /\ promise = "set" /\ session # "down"
      /\ message \in Stream!Messages
  BY <1>1, ServesFacts
<1>3. UNCHANGED <<starts, promise, message, messageBuffer, thisFrameType,
                  isValidFrame, wire, session, posted, got, fault>>
      /\ wireOff' = 2
  BY DEF Stream!ReceiveFrameSizeHandler
<1>4. requests' = <<"payload">>
  BY <1>2 DEF Stream!ReceiveFrameSizeHandler, Stream!Request
<1>5. requests' \in Seq(Stream!Kinds) /\ wireOff' \in 0..2
  BY <1>3, <1>4 DEF Stream!Kinds
<1>6. Stream!InStreamTypeOK'
  BY <1>3, <1>5 DEF IInv, TypeOK, Stream!InStreamTypeOK
<1>7. TypeOK'
  BY <1>6 DEF IInv, TypeOK, ownerVars, phoneVars
<1>8. RequestsMatch'
  BY <1>2, <1>3, <1>4 DEF RequestsMatch, Stream!Kind
<1> QED
  BY <1>3, <1>7, <1>8, InFlightKept DEF IInv, NoFault

(***************************************************************************)
(* What the payload handler does in each of its four cases.                *)
(***************************************************************************)
LEMMA ReadPayloadFacts ==
  ASSUME IInv, Stream!ReadPayload
  PROVE  /\ requests = <<"payload">> /\ promise = "set" /\ session # "down"
         /\ starts = 0 /\ posted = <<>> /\ fault = "none"
         /\ message \in Stream!Messages /\ Stream!Assembled \in Stream!Finished
         /\ wire' \in Seq(Stream!Frames) /\ wireOff' = 0
         /\ UNCHANGED <<starts, thisFrameType, isValidFrame, session>>
         /\ Owner!Waiting(promiseQueue) # {}
<1>1. Stream!Serves("payload") /\ "payload" \in Stream!Kinds
  BY DEF Stream!ReadPayload, Stream!Kinds
<1>2. /\ requests = <<"payload">> /\ promise = "set" /\ session # "down"
      /\ starts = 0 /\ posted = <<>>
      /\ message \in Stream!Messages /\ Head(wire) \in Stream!Frames
      /\ Tail(wire) \in Seq(Stream!Frames) /\ Owner!Waiting(promiseQueue) # {}
  BY <1>1, ServesFacts
<1>3. Stream!Assembled \in Stream!Finished
  BY <1>2, AssembledIsFinished
<1> QED
  BY <1>2, <1>3 DEF Stream!ReadPayload, IInv, NoFault

(***************************************************************************)
(* The receive in progress ends with one outcome: it stays in flight, now  *)
(* posted, and nothing is left of it in the reader.                        *)
(***************************************************************************)
LEMMA SettleKeeps ==
  ASSUME IInv, promise = "set", starts = 0, posted = <<>>, starts' = starts,
         NEW outcome \in Stream!Finished \cup {Stream!Error},
         Stream!Settle(outcome), UNCHANGED <<ownerVars, phoneVars>>
  PROVE  /\ promise' = "null" /\ fault' = fault
         /\ posted' \in Seq(Stream!Finished \cup {Stream!Error})
         /\ OneReceiveInFlight' /\ NoWaiterBesideMessage'
<1>1. promise' = "null" /\ fault' = fault /\ posted' = <<outcome>>
  BY DEF Stream!Settle
<1>2. Owner!Waiting(promiseQueue)' # {}
  BY InFlightParts DEF Owner!Waiting, ownerVars
<1>3. InFlight' = 1
  BY <1>1 DEF InFlight
<1>4. OneReceiveInFlight'
  BY <1>2, <1>3 DEF OneReceiveInFlight
<1>5. NoWaiterBesideMessage'
  BY DEF IInv, NoWaiterBesideMessage, ownerVars
<1> QED
  BY <1>1, <1>4, <1>5

\* The interceptor hands on the message or nothing.
LEMMA InterceptorKeepsType ==
  ASSUME IInv, Stream!ReadPayload, Stream!InvokeInterceptor
  PROVE  got' \in [Channels -> Nat]
<1>1. got \in [Channels -> Nat]
  BY DEF IInv, TypeOK, Stream!InStreamTypeOK
<1>2. Stream!Number(Stream!Assembled) \in Nat
  BY ReadPayloadFacts, FinishedHasNumber
<1> QED
  BY <1>1, <1>2 DEF Stream!InvokeInterceptor

\* receiveFramePayloadHandler preserves the invariant in its four cases: the
\* receive goes on with the next header, or ends with one outcome posted.
LEMMA PayloadHandlerInv ==
  ASSUME IInv, Stream!ReceiveFramePayloadHandler, UNCHANGED <<ownerVars, phoneVars>>
  PROVE  IInv'
<1>1. Stream!ReadPayload
  BY DEF Stream!ReceiveFramePayloadHandler, Stream!DecryptFails,
         Stream!MessageIntercepted, Stream!MessageResolved, Stream!MessageStored
<1>2. /\ requests = <<"payload">> /\ promise = "set" /\ session # "down"
      /\ starts = 0 /\ posted = <<>> /\ fault = "none"
      /\ message \in Stream!Messages /\ Stream!Assembled \in Stream!Finished
      /\ wire' \in Seq(Stream!Frames) /\ wireOff' = 0
      /\ UNCHANGED <<starts, thisFrameType, isValidFrame, session>>
  BY <1>1, ReadPayloadFacts
<1>3. message' \in Stream!Messages \cup {Stream!NoMessage}
  BY DEF Stream!ReceiveFramePayloadHandler, Stream!DecryptFails,
         Stream!MessageIntercepted, Stream!MessageResolved, Stream!MessageStored
<1>4. messageBuffer' \in [Channels -> Stream!Messages \cup {Stream!NoMessage}]
  <2>1. messageBuffer \in [Channels -> Stream!Messages \cup {Stream!NoMessage}]
    BY DEF IInv, TypeOK, Stream!InStreamTypeOK
  <2>2. Stream!Assembled \in Stream!Messages
    BY <1>2 DEF Stream!Finished
  <2> QED
    BY <2>1, <2>2 DEF Stream!ReceiveFramePayloadHandler, Stream!DecryptFails,
         Stream!MessageIntercepted, Stream!MessageResolved, Stream!MessageStored
<1>5. got' \in [Channels -> Nat]
  <2>1. got \in [Channels -> Nat]
    BY DEF IInv, TypeOK, Stream!InStreamTypeOK
  <2> QED
    BY <1>1, <2>1, InterceptorKeepsType DEF Stream!ReceiveFramePayloadHandler,
         Stream!DecryptFails, Stream!MessageIntercepted, Stream!MessageResolved,
         Stream!MessageStored
<1>6. /\ promise' \in {"null", "set"} /\ fault' = "none"
      /\ posted' \in Seq(Stream!Finished \cup {Stream!Error})
      /\ OneReceiveInFlight' /\ NoWaiterBesideMessage'
      /\ requests' = IF promise' = "null" THEN <<>> ELSE <<"header">>
  <2>1. CASE Stream!DecryptFails
    BY <2>1, <1>2, SettleKeeps DEF Stream!DecryptFails
  <2>2. CASE Stream!MessageResolved
    BY <2>2, <1>2, SettleKeeps DEF Stream!MessageResolved
  <2>3. CASE Stream!MessageIntercepted \/ Stream!MessageStored
    <3>1. UNCHANGED <<promise, posted, fault>> /\ requests' = <<"header">>
      BY <2>3, <1>2 DEF Stream!MessageIntercepted, Stream!MessageStored, Stream!Request
    <3>2. posted' \in Seq(Stream!Finished \cup {Stream!Error})
      BY <3>1 DEF IInv, TypeOK, Stream!InStreamTypeOK
    <3> QED
      BY <1>2, <3>1, <3>2, InFlightKept
  <2> QED
    BY <2>1, <2>2, <2>3 DEF Stream!ReceiveFramePayloadHandler
<1>7. requests' \in Seq(Stream!Kinds)
  <2>1. <<>> \in Seq(Stream!Kinds) /\ <<"header">> \in Seq(Stream!Kinds)
    BY DEF Stream!Kinds
  <2> QED
    BY <1>6, <2>1
<1>8. Stream!InStreamTypeOK'
  <2>1. /\ starts' \in Nat /\ thisFrameType' \in Stream!FrameTypes
        /\ session' \in {"up", "down", "crypto"} /\ wireOff' \in 0..2
    BY <1>2 DEF IInv, TypeOK, Stream!InStreamTypeOK
  <2>2. isValidFrame' \in BOOLEAN
    BY <1>2 DEF IInv, TypeOK, Stream!InStreamTypeOK
  <2> QED
    BY <1>2, <1>3, <1>4, <1>5, <1>6, <1>7, <2>1, <2>2 DEF Stream!InStreamTypeOK
<1>9. TypeOK'
  BY <1>8 DEF IInv, TypeOK, ownerVars, phoneVars
<1>10. RequestsMatch'
  BY <1>2, <1>6 DEF RequestsMatch, Stream!Kind
<1> QED
  BY <1>6, <1>9, <1>10 DEF IInv, NoFault

\* A read the transport rejects ends the receive with one error posted, and
\* promise_ is reset.
LEMMA TransportRejectsInv ==
  ASSUME IInv, Stream!TransportRejects, UNCHANGED <<ownerVars, phoneVars>>
  PROVE  IInv'
<1>1. /\ requests # <<>> /\ session = "down" /\ requests' = Tail(requests)
      /\ message' = Stream!NoMessage /\ Stream!Settle(Stream!Error)
      /\ UNCHANGED <<starts, messageBuffer, thisFrameType, isValidFrame, wire,
                     wireOff, session, got>>
  BY DEF Stream!TransportRejects
<1>2. promise = "set" /\ requests = <<Head(requests)>>
  BY <1>1 DEF IInv, RequestsMatch, TypeOK, Stream!InStreamTypeOK
<1>3. starts = 0 /\ posted = <<>>
  BY <1>2, InFlightParts
<1>4. requests' = <<>>
  <2>1. PICK x : requests = <<x>>
    BY <1>2
  <2> QED
    BY <1>1, <2>1
<1>5. /\ promise' = "null" /\ fault' = fault
      /\ posted' \in Seq(Stream!Finished \cup {Stream!Error})
      /\ OneReceiveInFlight' /\ NoWaiterBesideMessage'
  BY <1>1, <1>2, <1>3, SettleKeeps
<1>6. Stream!InStreamTypeOK'
  <2>1. requests' \in Seq(Stream!Kinds)
    BY <1>4
  <2>2. /\ starts' \in Nat /\ thisFrameType' \in Stream!FrameTypes
        /\ messageBuffer' \in [Channels -> Stream!Messages \cup {Stream!NoMessage}]
        /\ wire' \in Seq(Stream!Frames) /\ wireOff' \in 0..2
        /\ session' \in {"up", "down", "crypto"} /\ got' \in [Channels -> Nat]
        /\ fault' \in {"none", "null promise", "desynchronised"}
    BY <1>1, <1>5 DEF IInv, TypeOK, Stream!InStreamTypeOK
  <2>3. isValidFrame' \in BOOLEAN
    BY <1>1 DEF IInv, TypeOK, Stream!InStreamTypeOK
  <2>4. message' \in Stream!Messages \cup {Stream!NoMessage}
    BY <1>1
  <2> QED
    BY <1>5, <2>1, <2>2, <2>3, <2>4 DEF Stream!InStreamTypeOK
<1>7. TypeOK'
  BY <1>6 DEF IInv, TypeOK, ownerVars, phoneVars
<1>8. RequestsMatch'
  BY <1>1, <1>4, <1>5 DEF RequestsMatch
<1> QED
  BY <1>5, <1>7, <1>8 DEF IInv, NoFault

\* With one receive in flight the reader is always given the bytes it asked for,
\* so the branch that reads a header out of step is never taken.
LEMMA NotDesynchronised ==
  ASSUME IInv
  PROVE  ~Stream!Desynchronised
<1> SUFFICES ASSUME Stream!Desynchronised PROVE FALSE
  OBVIOUS
<1>1. session # "down" /\ requests # <<>> /\ Head(requests) # Stream!Kind(wireOff)
  BY DEF Stream!Desynchronised
<1> QED
  BY <1>1 DEF IInv, RequestsMatch

\* A frame of the phone on the wire changes nothing of the receive in flight.
LEMMA SendFrameInv ==
  ASSUME IInv, NEW c \in Channels, NEW type \in Stream!FrameTypes, SendFrame(c, type)
  PROVE  IInv'
<1> DEFINE frame == [ch |-> c, type |-> type, msg |-> sent[c] + 1,
                     no |-> framesSent[c] + 1]
<1>1. /\ UNCHANGED <<starts, promise, requests, message, messageBuffer,
                     thisFrameType, isValidFrame, wireOff, session, posted,
                     got, fault, ownerVars>>
      /\ wire' \in {wire, Append(wire, frame)}
  BY DEF SendFrame
<1>2. sent[c] \in Nat /\ framesSent[c] \in Nat /\ wire \in Seq(Stream!Frames)
  BY DEF IInv, TypeOK, Stream!InStreamTypeOK
<1>3. frame \in Stream!Frames
  BY <1>2 DEF Stream!Frames
<1>4. wire' \in Seq(Stream!Frames)
  BY <1>1, <1>2, <1>3, AppendProperties
<1>5. sent' \in [Channels -> Nat] /\ framesSent' \in [Channels -> Nat]
  BY <1>2 DEF SendFrame, IInv, TypeOK
<1>6. Stream!InStreamTypeOK'
  BY <1>1, <1>4 DEF IInv, TypeOK, Stream!InStreamTypeOK
<1>7. TypeOK'
  BY <1>1, <1>5, <1>6 DEF IInv, TypeOK, ownerVars
<1>8. RequestsMatch'
  BY <1>1 DEF IInv, RequestsMatch
<1> QED
  BY <1>1, <1>7, <1>8, InFlightKept DEF IInv, NoFault

\* The end of the connection changes nothing of the receive in flight.
LEMMA SessionFailsInv ==
  ASSUME IInv, SessionFails
  PROVE  IInv'
<1>1. /\ session = "up" /\ session' \in {"down", "crypto"}
      /\ UNCHANGED <<starts, promise, requests, message, messageBuffer,
                     thisFrameType, isValidFrame, wire, wireOff, posted, got,
                     fault, ownerVars, phoneVars>>
  BY DEF SessionFails
<1>2. Stream!InStreamTypeOK'
  <2>1. session' \in {"up", "down", "crypto"}
    BY <1>1
  <2>2. isValidFrame' \in BOOLEAN
    BY <1>1 DEF IInv, TypeOK, Stream!InStreamTypeOK
  <2>3. /\ starts' \in Nat /\ promise' \in {"null", "set"}
        /\ requests' \in Seq(Stream!Kinds)
        /\ message' \in Stream!Messages \cup {Stream!NoMessage}
        /\ messageBuffer' \in [Channels -> Stream!Messages \cup {Stream!NoMessage}]
        /\ thisFrameType' \in Stream!FrameTypes
        /\ wire' \in Seq(Stream!Frames) /\ wireOff' \in 0..2
        /\ posted' \in Seq(Stream!Finished \cup {Stream!Error})
        /\ got' \in [Channels -> Nat]
        /\ fault' \in {"none", "null promise", "desynchronised"}
    BY <1>1 DEF IInv, TypeOK, Stream!InStreamTypeOK
  <2> QED
    BY <2>1, <2>2, <2>3 DEF Stream!InStreamTypeOK
<1>3. TypeOK'
  BY <1>1, <1>2 DEF IInv, TypeOK, ownerVars, phoneVars
<1>4. RequestsMatch'
  <2>1. /\ requests = IF promise = "null" THEN <<>> ELSE <<Stream!Kind(wireOff)>>
        /\ promise = "set" \/ wireOff = 0
        /\ wireOff = 0 \/ message \in Stream!Messages
    BY <1>1 DEF IInv, RequestsMatch
  <2>2. promise # "null" => requests = <<Head(requests)>>
    BY <2>1
  <2> QED
    BY <1>1, <2>1, <2>2 DEF RequestsMatch, Stream!Kind
<1> QED
  BY <1>1, <1>3, <1>4, InFlightKept DEF IInv, NoFault

(***************************************************************************)
(* A step of the messenger leaves the reader alone: only the types of what *)
(* the messenger writes are left to show.                                  *)
(***************************************************************************)
LEMMA TypeKept ==
  ASSUME MaxPromises = 1, IInv,
         UNCHANGED <<promise, requests, message, messageBuffer, thisFrameType,
                     isValidFrame, wire, wireOff, session, fault, sent, framesSent>>,
         starts' \in Nat,
         posted' \in Seq(Stream!Finished \cup {Stream!Error}),
         got' \in [Channels -> Nat],
         promiseQueue' \in [Channels -> 0..1],
         messageQueue' \in [Channels -> Seq(Stream!Finished)],
         closed' \subseteq Channels,
         stopped' \in BOOLEAN
  PROVE  TypeOK'
<1>1. isValidFrame' \in BOOLEAN
  BY DEF IInv, TypeOK, Stream!InStreamTypeOK
<1>2. /\ promise' \in {"null", "set"} /\ requests' \in Seq(Stream!Kinds)
      /\ message' \in Stream!Messages \cup {Stream!NoMessage}
      /\ messageBuffer' \in [Channels -> Stream!Messages \cup {Stream!NoMessage}]
      /\ thisFrameType' \in Stream!FrameTypes
      /\ wire' \in Seq(Stream!Frames) /\ wireOff' \in 0..2
      /\ session' \in {"up", "down", "crypto"}
      /\ fault' \in {"none", "null promise", "desynchronised"}
      /\ sent' \in [Channels -> Nat] /\ framesSent' \in [Channels -> Nat]
  BY DEF IInv, TypeOK, Stream!InStreamTypeOK
<1>3. Stream!InStreamTypeOK'
  BY <1>1, <1>2 DEF Stream!InStreamTypeOK
<1> QED
  BY <1>2, <1>3 DEF TypeOK

\* enqueueReceive preserves the invariant: a queued message answers the promise,
\* or the first promise to wait, and only the first, starts a receive.
LEMMA EnqueueReceiveInv ==
  ASSUME MaxPromises = 1, IInv, NEW c \in Receivers, Owner!EnqueueReceive(c),
         UNCHANGED <<inStreamVars, phoneVars>>
  PROVE  IInv'
<1>1. /\ UNCHANGED <<closed, stopped, posted, promise, requests, message,
                     messageBuffer, thisFrameType, isValidFrame, wire, wireOff,
                     session, fault, sent, framesSent>>
  BY DEF Owner!EnqueueReceive, inStreamVars, phoneVars
<1>2. /\ c \in Channels /\ promiseQueue \in [Channels -> 0..1]
      /\ messageQueue \in [Channels -> Seq(Stream!Finished)]
      /\ got \in [Channels -> Nat] /\ starts \in Nat
  BY ReadersAssumption DEF IInv, TypeOK, Stream!InStreamTypeOK
<1>3. promiseQueue[c] = 0
  BY <1>2 DEF Owner!EnqueueReceive
<1>4. RequestsMatch' /\ NoFault'
  BY <1>1 DEF IInv, RequestsMatch, NoFault
<1>5. /\ starts' \in Nat /\ got' \in [Channels -> Nat]
      /\ promiseQueue' \in [Channels -> 0..1]
      /\ messageQueue' \in [Channels -> Seq(Stream!Finished)]
      /\ OneReceiveInFlight' /\ NoWaiterBesideMessage'
  <2>1. CASE messageQueue[c] # <<>>
    <3>1. /\ got' = [got EXCEPT ![c] = Owner!Number(Head(messageQueue[c]))]
          /\ messageQueue' = [messageQueue EXCEPT ![c] = Tail(@)]
          /\ UNCHANGED <<promiseQueue, starts>>
      BY <2>1 DEF Owner!EnqueueReceive
    <3>2. /\ Head(messageQueue[c]) \in Stream!Finished
          /\ Tail(messageQueue[c]) \in Seq(Stream!Finished)
      BY <1>2, <2>1, HeadTailProperties
    <3>3. Owner!Number(Head(messageQueue[c])) \in Nat
      BY <3>2, FinishedHasNumber
    <3>4. OneReceiveInFlight'
      <4>1. InFlight' = InFlight
        BY <1>1, <3>1 DEF InFlight
      <4>2. Owner!Waiting(promiseQueue)' = Owner!Waiting(promiseQueue)
        BY <3>1 DEF Owner!Waiting
      <4> QED
        BY <4>1, <4>2 DEF IInv, OneReceiveInFlight
    <3>5. NoWaiterBesideMessage'
      BY <1>2, <1>3, <3>1 DEF IInv, NoWaiterBesideMessage
    <3> QED
      BY <1>2, <3>1, <3>2, <3>3, <3>4, <3>5
  <2>2. CASE messageQueue[c] = <<>>
    <3>1. /\ promiseQueue' = [promiseQueue EXCEPT ![c] = @ + 1]
          /\ starts' = IF Owner!Waiting(promiseQueue') = {c} THEN starts + 1 ELSE starts
          /\ UNCHANGED <<messageQueue, got>>
      BY <2>2 DEF Owner!EnqueueReceive
    <3>2. promiseQueue' \in [Channels -> 0..1] /\ starts' \in Nat
      BY <1>2, <1>3, <3>1
    <3>3. Owner!Waiting(promiseQueue') = Owner!Waiting(promiseQueue) \cup {c}
      BY <1>2, <1>3, <3>1 DEF Owner!Waiting
    <3>4. c \notin Owner!Waiting(promiseQueue)
      BY <1>3 DEF Owner!Waiting
    <3>5. OneReceiveInFlight'
      <4>1. CASE Owner!Waiting(promiseQueue) = {}
        <5>1. starts = 0 /\ promise = "null" /\ posted = <<>>
          BY <4>1, InFlightParts
        <5>2. starts' = 1
          <6>1. Owner!Waiting(promiseQueue') = {c}
            BY <4>1, <3>3
          <6> QED
            BY <5>1, <6>1, <3>1
        <5>3. InFlight' = 1
          BY <5>1, <5>2, <1>1 DEF InFlight
        <5> QED
          BY <5>3, <3>3 DEF OneReceiveInFlight
      <4>2. CASE Owner!Waiting(promiseQueue) # {}
        <5>1. starts' = starts
          BY <4>2, <3>1, <3>3, <3>4
        <5>2. InFlight' = InFlight
          BY <5>1, <1>1 DEF InFlight
        <5>3. InFlight = 1
          BY <4>2 DEF IInv, OneReceiveInFlight
        <5> QED
          BY <5>2, <5>3, <3>3 DEF OneReceiveInFlight
      <4> QED
        BY <4>1, <4>2
    <3>6. NoWaiterBesideMessage'
      BY <1>2, <2>2, <3>1 DEF IInv, NoWaiterBesideMessage
    <3> QED
      BY <1>2, <3>1, <3>2, <3>5, <3>6
  <2> QED
    BY <2>1, <2>2
<1>6. TypeOK'
  <2>1. closed' \subseteq Channels
    BY <1>1 DEF IInv, TypeOK
  <2>2. stopped' \in BOOLEAN
    BY <1>1 DEF IInv, TypeOK
  <2>3. posted' \in Seq(Stream!Finished \cup {Stream!Error})
    BY <1>1 DEF IInv, TypeOK, Stream!InStreamTypeOK
  <2> QED
    BY <1>1, <1>5, <2>1, <2>2, <2>3, TypeKept
<1> QED
  BY <1>4, <1>5, <1>6 DEF IInv

\* inStreamMessageHandler preserves the invariant: the receive that ended is
\* replaced by one new one exactly when promises are left.
LEMMA InStreamMessageHandlerInv ==
  ASSUME MaxPromises = 1, IInv, Owner!InStreamMessageHandler,
         UNCHANGED <<inStreamVars, phoneVars>>
  PROVE  IInv'
<1> DEFINE m == Head(posted)
<1>1. /\ UNCHANGED <<closed, stopped, promise, requests, message,
                     messageBuffer, thisFrameType, isValidFrame, wire, wireOff,
                     session, fault, sent, framesSent>>
      /\ posted # <<>> /\ m # Stream!Error /\ posted' = Tail(posted)
  BY DEF Owner!InStreamMessageHandler, inStreamVars, phoneVars, Owner!Error, Stream!Error
<1>2. /\ promiseQueue \in [Channels -> 0..1]
      /\ messageQueue \in [Channels -> Seq(Stream!Finished)]
      /\ got \in [Channels -> Nat] /\ starts \in Nat
      /\ posted \in Seq(Stream!Finished \cup {Stream!Error})
  BY DEF IInv, TypeOK, Stream!InStreamTypeOK
<1>3. m \in Stream!Finished /\ m.ch \in Channels /\ Owner!Number(m) \in Nat
  <2>1. m \in Stream!Finished
    BY <1>1, <1>2, HeadTailProperties
  <2> QED
    BY <2>1, FinishedHasNumber
<1>4. starts = 0 /\ promise = "null" /\ Len(posted) = 1
  BY <1>1, InFlightParts
<1>5. posted' = <<>>
  BY <1>1, <1>2, <1>4, HeadTailProperties, EmptySeq
<1>6. starts' = IF Owner!Waiting(promiseQueue') # {} THEN 1 ELSE 0
  BY <1>4 DEF Owner!InStreamMessageHandler
<1>7. OneReceiveInFlight'
  <2>1. Owner!Waiting(promiseQueue)' = Owner!Waiting(promiseQueue')
    BY DEF Owner!Waiting
  <2>2. InFlight' = starts'
    <3>1. starts' \in {0, 1} /\ posted' = <<>> /\ promise' = "null"
      BY <1>1, <1>4, <1>5, <1>6
    <3>2. CASE starts' = 0
      BY <3>1, <3>2 DEF InFlight
    <3>3. CASE starts' = 1
      BY <3>1, <3>3 DEF InFlight
    <3> QED
      BY <3>1, <3>2, <3>3
  <2> QED
    BY <1>6, <2>1, <2>2 DEF OneReceiveInFlight
<1>8. /\ promiseQueue' \in [Channels -> 0..1]
      /\ messageQueue' \in [Channels -> Seq(Stream!Finished)]
      /\ got' \in [Channels -> Nat]
      /\ NoWaiterBesideMessage'
  <2>1. CASE promiseQueue[m.ch] > 0
    <3>1. /\ promiseQueue' = [promiseQueue EXCEPT ![m.ch] = @ - 1]
          /\ got' = [got EXCEPT ![m.ch] = Owner!Number(m)]
          /\ UNCHANGED messageQueue
      BY <2>1 DEF Owner!InStreamMessageHandler
    <3>2. promiseQueue' \in [Channels -> 0..1]
      BY <1>2, <1>3, <2>1, <3>1
    <3>3. NoWaiterBesideMessage'
      BY <1>2, <1>3, <2>1, <3>1 DEF IInv, NoWaiterBesideMessage
    <3> QED
      BY <1>2, <1>3, <3>1, <3>2, <3>3
  <2>2. CASE promiseQueue[m.ch] = 0
    <3>1. /\ messageQueue' = [messageQueue EXCEPT ![m.ch] = Append(@, m)]
          /\ UNCHANGED <<promiseQueue, got>>
      BY <2>2 DEF Owner!InStreamMessageHandler
    <3>2. Append(messageQueue[m.ch], m) \in Seq(Stream!Finished)
      BY <1>2, <1>3, AppendProperties
    <3>3. NoWaiterBesideMessage'
      BY <1>2, <1>3, <2>2, <3>1 DEF IInv, NoWaiterBesideMessage
    <3> QED
      BY <1>2, <3>1, <3>2, <3>3
  <2> QED
    BY <1>2, <1>3, <2>1, <2>2
<1>9. TypeOK'
  <2>1. starts' \in Nat /\ posted' \in Seq(Stream!Finished \cup {Stream!Error})
    BY <1>5, <1>6
  <2>2. closed' \subseteq Channels
    BY <1>1 DEF IInv, TypeOK
  <2>3. stopped' \in BOOLEAN
    BY <1>1 DEF IInv, TypeOK
  <2> QED
    BY <1>1, <1>8, <2>1, <2>2, <2>3, TypeKept
<1>10. RequestsMatch' /\ NoFault'
  BY <1>1 DEF IInv, RequestsMatch, NoFault
<1> QED
  BY <1>7, <1>8, <1>9, <1>10 DEF IInv

\* rejectReceivePromiseQueue preserves the invariant: no receive is in flight and
\* no promise is left waiting.
LEMMA RejectReceivePromiseQueueInv ==
  ASSUME MaxPromises = 1, IInv, Owner!RejectReceivePromiseQueue,
         UNCHANGED <<inStreamVars, phoneVars>>
  PROVE  IInv'
<1>1. /\ UNCHANGED <<messageQueue, stopped, starts, got, promise, requests, message,
                     messageBuffer, thisFrameType, isValidFrame, wire, wireOff,
                     session, fault, sent, framesSent>>
      /\ posted # <<>> /\ posted' = Tail(posted)
      /\ promiseQueue' = [c \in Channels |-> 0]
  BY DEF Owner!RejectReceivePromiseQueue, inStreamVars, phoneVars
<1>2. starts = 0 /\ promise = "null" /\ Len(posted) = 1
  BY <1>1, InFlightParts
<1>3. posted' = <<>>
  <2>1. posted \in Seq(Stream!Finished \cup {Stream!Error})
    BY DEF IInv, TypeOK, Stream!InStreamTypeOK
  <2> QED
    BY <1>1, <1>2, <2>1, HeadTailProperties, EmptySeq
<1>4. OneReceiveInFlight'
  <2>1. Owner!Waiting(promiseQueue)' = {}
    BY <1>1 DEF Owner!Waiting
  <2>2. InFlight' = 0
    BY <1>1, <1>2, <1>3 DEF InFlight
  <2> QED
    BY <2>1, <2>2 DEF OneReceiveInFlight
<1>5. NoWaiterBesideMessage'
  BY <1>1 DEF NoWaiterBesideMessage
<1>6. TypeOK'
  <2>1. closed' \subseteq Channels
    BY DEF Owner!RejectReceivePromiseQueue, Owner!Waiting, IInv, TypeOK
  <2>2. stopped' \in BOOLEAN
    BY <1>1 DEF IInv, TypeOK
  <2>3. /\ starts' \in Nat /\ got' \in [Channels -> Nat]
        /\ messageQueue' \in [Channels -> Seq(Stream!Finished)]
    BY <1>1 DEF IInv, TypeOK, Stream!InStreamTypeOK
  <2>4. promiseQueue' \in [Channels -> 0..1]
    BY <1>1
  <2>5. posted' \in Seq(Stream!Finished \cup {Stream!Error})
    BY <1>3
  <2> QED
    BY <1>1, <2>1, <2>2, <2>3, <2>4, <2>5, TypeKept
<1>7. RequestsMatch' /\ NoFault'
  BY <1>1 DEF IInv, RequestsMatch, NoFault
<1> QED
  BY <1>4, <1>5, <1>6, <1>7 DEF IInv

\* stop clears the message queue only, and the invariant does not need it.
LEMMA StopInv ==
  ASSUME MaxPromises = 1, IInv, Owner!Stop, UNCHANGED <<inStreamVars, phoneVars>>
  PROVE  IInv'
<1>1. /\ UNCHANGED <<starts, posted, got, promiseQueue, closed, promise, requests,
                     message, messageBuffer, thisFrameType, isValidFrame, wire,
                     wireOff, session, fault, sent, framesSent>>
      /\ messageQueue' = [c \in Channels |-> <<>>]
  BY DEF Owner!Stop, inStreamVars, phoneVars
<1>2. stopped' \in BOOLEAN
  BY DEF Owner!Stop
<1>3. /\ starts' \in Nat /\ got' \in [Channels -> Nat]
      /\ promiseQueue' \in [Channels -> 0..1] /\ closed' \subseteq Channels
      /\ posted' \in Seq(Stream!Finished \cup {Stream!Error})
  BY <1>1 DEF IInv, TypeOK, Stream!InStreamTypeOK
<1>4. messageQueue' \in [Channels -> Seq(Stream!Finished)]
  BY <1>1
<1>5. TypeOK'
  BY <1>1, <1>2, <1>3, <1>4, TypeKept
<1>6. OneReceiveInFlight'
  <2>1. Owner!Waiting(promiseQueue)' = Owner!Waiting(promiseQueue)
    BY <1>1 DEF Owner!Waiting
  <2>2. InFlight' = InFlight
    BY <1>1 DEF InFlight
  <2> QED
    BY <2>1, <2>2 DEF IInv, OneReceiveInFlight
<1>7. RequestsMatch' /\ NoFault'
  BY <1>1 DEF IInv, RequestsMatch, NoFault
<1>8. NoWaiterBesideMessage'
  BY <1>1 DEF NoWaiterBesideMessage
<1> QED
  BY <1>5, <1>6, <1>7, <1>8 DEF IInv

\* A step that changes no variable preserves the invariant.
LEMMA StutterInv ==
  ASSUME MaxPromises = 1, IInv, UNCHANGED vars
  PROVE  IInv'
<1>1. /\ UNCHANGED <<starts, posted, got, ownerVars, promise, requests, message,
                     messageBuffer, thisFrameType, isValidFrame, wire, wireOff,
                     session, fault, sent, framesSent>>
      /\ UNCHANGED <<promiseQueue, messageQueue, closed, stopped>>
  BY DEF vars, inStreamVars, ownerVars, phoneVars
<1>2. stopped' \in BOOLEAN
  BY <1>1 DEF IInv, TypeOK
<1>3. /\ starts' \in Nat /\ got' \in [Channels -> Nat]
      /\ promiseQueue' \in [Channels -> 0..1] /\ closed' \subseteq Channels
      /\ messageQueue' \in [Channels -> Seq(Stream!Finished)]
      /\ posted' \in Seq(Stream!Finished \cup {Stream!Error})
  BY <1>1 DEF IInv, TypeOK, Stream!InStreamTypeOK
<1>4. TypeOK'
  BY <1>1, <1>2, <1>3, TypeKept
<1>5. RequestsMatch' /\ NoFault'
  BY <1>1 DEF IInv, RequestsMatch, NoFault
<1> QED
  BY <1>1, <1>4, <1>5, InFlightKept DEF IInv

\* Every step of the receive path preserves the invariant: one case per action.
LEMMA NextInv ==
  ASSUME MaxPromises = 1, IInv, [Next]_vars
  PROVE  IInv'
<1>1. CASE \E c \in Channels, type \in Stream!FrameTypes : SendFrame(c, type)
  BY <1>1, SendFrameInv
<1>2. CASE SessionFails
  BY <1>2, SessionFailsInv
<1>3. CASE InStreamStep
  BY <1>3, StartReceiveInv, HeaderHandlerInv, SizeHandlerInv, PayloadHandlerInv,
     TransportRejectsInv, NotDesynchronised
     DEF InStreamStep, Stream!InStreamNext
<1>4. CASE MessengerStep
  BY <1>4, EnqueueReceiveInv, InStreamMessageHandlerInv,
     RejectReceivePromiseQueueInv, StopInv
     DEF MessengerStep, Owner!MessengerNext
<1>5. CASE UNCHANGED vars
  BY <1>5, StutterInv
<1> QED
  BY <1>1, <1>2, <1>3, <1>4, <1>5 DEF Next

(***************************************************************************)
(* The receive path, whatever its channels and the bounds of a run are,    *)
(* when a service channel keeps one receive outstanding, as the control    *)
(* channel does: its inductive invariant holds in every reachable state.   *)
(***************************************************************************)
THEOREM Invariance ==
  ASSUME MaxPromises = 1
  PROVE  Spec => []IInv
<1>1. Init => IInv
  BY InitInv
<1>2. IInv /\ [Next]_vars => IInv'
  BY NextInv
<1> QED
  BY <1>1, <1>2, PTL DEF Spec

(***************************************************************************)
(* Every variable keeps its type: in particular what is posted, queued or  *)
(* handed out always holds at least one frame.                             *)
(***************************************************************************)
THEOREM TypeCorrect ==
  ASSUME MaxPromises = 1
  PROVE  Spec => []TypeOK
<1>1. IInv => TypeOK
  BY DEF IInv
<1> QED
  BY <1>1, Invariance, PTL

(***************************************************************************)
(* The channels that wait share exactly one receive of the in stream: it   *)
(* is never lost and never doubled (Messenger.cpp:43-50, 81-88, 110-114).  *)
(***************************************************************************)
THEOREM ReceiveShared ==
  ASSUME MaxPromises = 1
  PROVE  Spec => []OneReceiveInFlight
<1>1. IInv => OneReceiveInFlight
  BY DEF IInv
<1> QED
  BY <1>1, Invariance, PTL

(***************************************************************************)
(* The frame reader never uses a null promise_ and is never given bytes it *)
(* did not ask for (MessageInStream.cpp:33-182).                           *)
(***************************************************************************)
THEOREM ReaderDoesNotFault ==
  ASSUME MaxPromises = 1
  PROVE  Spec => []NoFault
<1>1. IInv => NoFault
  BY DEF IInv
<1> QED
  BY <1>1, Invariance, PTL

(***************************************************************************)
(* No channel waits beside a message queued for it (Messenger.cpp:36-41,   *)
(* 72-79).                                                                 *)
(***************************************************************************)
THEOREM WaitersAreServed ==
  ASSUME MaxPromises = 1
  PROVE  Spec => []NoWaiterBesideMessage
<1>1. IInv => NoWaiterBesideMessage
  BY DEF IInv
<1> QED
  BY <1>1, Invariance, PTL

(***************************************************************************)
(* What reassembly keeps, whatever the phone leaves out.                   *)
(***************************************************************************)
\* The header of the first frame on the wire is read, its payload is not.
InFrame == requests \in {<<"size">>, <<"payload">>}

\* message_ is what was buffered of the frame's channel when the frame goes on
\* with it, and empty when it begins a message; the buffer of the channel is empty.
FrameKept ==
    InFrame =>
        /\ wire # <<>> /\ message \in Stream!Messages
        /\ message.ch = Head(wire).ch /\ thisFrameType = Head(wire).type
        /\ messageBuffer[message.ch] = Stream!NoMessage
        /\ thisFrameType \in {"FIRST", "BULK"} => message.parts = <<>>
        /\ isValidFrame <=>
             (thisFrameType \in {"MIDDLE", "LAST"} => message.parts # <<>>)

BufferKept ==
    \A c \in Channels :
        messageBuffer[c] # Stream!NoMessage
            => messageBuffer[c].ch = c /\ messageBuffer[c].parts # <<>>

\* The outcomes that wait for the messenger, and the messages it queues.
Posted == {posted[i] : i \in 1..Len(posted)}
Queued(c) == {messageQueue[c][i] : i \in 1..Len(messageQueue[c])}

FreshHead(parts) == \A i \in 2..Len(parts) : parts[i].type \notin {"FIRST", "BULK"}

\* Only the first frame of what is collected, posted or queued begins a message.
HeadsKept ==
    /\ InFrame => FreshHead(message.parts)
    /\ \A c \in Channels : FreshHead(messageBuffer[c].parts)
    /\ \A m \in Posted : FreshHead(m.parts)
    /\ \A c \in Channels : \A m \in Queued(c) : FreshHead(m.parts)

FrameInv == FrameKept /\ BufferKept /\ HeadsKept

(***************************************************************************)
(* What delivery keeps, when the phone sends every frame.  The frames of a *)
(* channel on the wire are a walk over positions, a message number and a   *)
(* frame number, which begins where the reader stands and ends where the   *)
(* phone stands.                                                           *)
(***************************************************************************)
Positions == Nat \X Nat
Ends(frame) == frame.type \in {"LAST", "BULK"}
At(frame) == <<frame.msg, frame.no>>
After(frame) == IF Ends(frame) THEN <<frame.msg + 1, 1>> ELSE <<frame.msg, frame.no + 1>>
WellBegun(frame) == frame.no = 1 <=> frame.type \in {"FIRST", "BULK"}

Leads(w, c, from, to) ==
    \E at \in [0..Len(w) -> Positions] :
        /\ at[0] = from /\ at[Len(w)] = to
        /\ \A i \in 1..Len(w) :
             IF w[i].ch = c
             THEN at[i - 1] = At(w[i]) /\ at[i] = After(w[i]) /\ WellBegun(w[i])
             ELSE at[i] = at[i - 1]

\* parts are the first frames of one message of c, and not all of them.
Unfinished(parts, c) ==
    \A i \in 1..Len(parts) :
        /\ parts[i].ch = c /\ parts[i].msg = parts[1].msg /\ parts[i].no = i
        /\ ~Ends(parts[i])

\* The reader has read d messages of c and parts of the next one, and w is still
\* to be read up to where the phone stands.  Once a session has failed the reader
\* may have dropped frames, but never between those of a message it collects.
Reader(w, c, parts, to, d, s) ==
    /\ Unfinished(parts, c)
    /\ \E from \in Positions :
         /\ Leads(w, c, from, to)
         /\ parts # <<>> => from = <<parts[1].msg, Len(parts) + 1>>
         /\ s = "up" => from = <<d + 1, Len(parts) + 1>>

\* The frames collected of the message of c that the reader is at.
Begun(c) == IF InFrame /\ message.ch = c THEN message.parts ELSE messageBuffer[c].parts

Phone(c) == <<sent[c] + 1, framesSent[c] + 1>>

\* The messages of c that are read and not yet seen are the last ones of the d
\* that were read: first those queued, then the one posted.
Here(c) == IF posted # <<>> /\ Head(posted).ch = c THEN 1 ELSE 0

Line(c, d) ==
    LET b == d - Len(messageQueue[c]) - Here(c)
    IN  /\ got[c] <= b
        /\ ~stopped => got[c] = b
        /\ \A i \in 1..Len(messageQueue[c]) : Stream!Number(messageQueue[c][i]) = b + i
        /\ Here(c) = 1 => Stream!Number(Head(posted)) = d

\* The interceptor sees a message when it is read.
Lined(c, d) == IF c \in Intercepted THEN got[c] = d ELSE Line(c, d)

ChannelKept ==
    \A c \in Channels : \E d \in Nat :
        Lined(c, d) /\ Reader(wire, c, Begun(c), Phone(c), d, session)

\* A frame that ends a message is on the wire once the message is sent.
WireKept ==
    \A i \in 1..Len(wire) : Ends(wire[i]) => wire[i].msg <= sent[wire[i].ch]

Complete(m) == IsWhole(m) /\ Stream!Number(m) <= sent[m.ch]

\* What is posted or queued is a whole message that the phone sent.
HandedKept ==
    /\ \A m \in Posted : m # Stream!Error => Complete(m)
    /\ \A c \in Channels : \A m \in Queued(c) : m.ch = c /\ Complete(m)

\* Only a channel that receives waits.
WaitersReceive == \A c \in Channels \ Receivers : promiseQueue[c] = 0

DeliveryInv == ChannelKept /\ WireKept /\ HandedKept /\ WaitersReceive

(***************************************************************************)
(* Walks: what a frame sent at one end and a frame read at the other do.   *)
(***************************************************************************)
LEMMA PositionsOfFrames ==
  ASSUME NEW frame \in Stream!Frames
  PROVE  At(frame) \in Positions /\ After(frame) \in Positions
<1>1. frame.msg \in Nat /\ frame.no \in Nat
  BY DEF Stream!Frames
<1> QED
  BY <1>1 DEF At, After, Positions

\* Nothing on the wire: the walk does not move.
LEMMA LeadsNowhere ==
  ASSUME NEW c, NEW p \in Positions
  PROVE  Leads(<<>>, c, p, p)
<1> DEFINE at == [i \in 0..0 |-> p]
<1>1. at \in [0..Len(<<>>) -> Positions] /\ at[0] = p /\ Len(<<>>) = 0
  OBVIOUS
<1>2. 1..Len(<<>>) = {}
  OBVIOUS
<1> HIDE DEF at
<1>3. at \in [0..Len(<<>>) -> Positions] /\ at[0] = p /\ at[Len(<<>>)] = p
  BY <1>1
<1> QED
  BY <1>2, <1>3 DEF Leads

\* A frame sent where the walk ends prolongs it; one of another channel does not.
LEMMA LeadsFurther ==
  ASSUME NEW w \in Seq(Stream!Frames), NEW x \in Stream!Frames, NEW c, NEW from, NEW to,
         Leads(w, c, from, to),
         x.ch = c => to = At(x) /\ WellBegun(x)
  PROVE  Leads(Append(w, x), c, from, IF x.ch = c THEN After(x) ELSE to)
<1> DEFINE end == IF x.ch = c THEN After(x) ELSE to
<1>1. PICK at \in [0..Len(w) -> Positions] :
        /\ at[0] = from /\ at[Len(w)] = to
        /\ \A i \in 1..Len(w) :
             IF w[i].ch = c
             THEN at[i - 1] = At(w[i]) /\ at[i] = After(w[i]) /\ WellBegun(w[i])
             ELSE at[i] = at[i - 1]
  BY DEF Leads
<1>2. Len(w) \in Nat
  BY LenProperties
<1>3. end \in Positions
  BY <1>1, <1>2, PositionsOfFrames
<1>4. PICK n \in Nat : n = Len(w)
  BY <1>2
<1>5. PICK v : v = Append(w, x)
  OBVIOUS
<1>6. Len(v) = n + 1 /\ v[n + 1] = x /\ \A i \in 1..n : v[i] = w[i]
  BY <1>4, <1>5, AppendProperties
<1> DEFINE go == [i \in 0..n + 1 |-> IF i = n + 1 THEN end ELSE at[i]]
<1>7. go \in [0..Len(v) -> Positions] /\ go[0] = from /\ go[Len(v)] = end
  BY <1>1, <1>3, <1>4, <1>6
<1>8. \A i \in 1..Len(v) :
        IF v[i].ch = c
        THEN go[i - 1] = At(v[i]) /\ go[i] = After(v[i]) /\ WellBegun(v[i])
        ELSE go[i] = go[i - 1]
  <2> SUFFICES ASSUME NEW i \in 1..n + 1
               PROVE  IF v[i].ch = c
                      THEN go[i - 1] = At(v[i]) /\ go[i] = After(v[i]) /\ WellBegun(v[i])
                      ELSE go[i] = go[i - 1]
    BY <1>6
  <2>1. CASE i = n + 1
    <3>1. go[i] = end /\ go[i - 1] = to /\ v[i] = x
      BY <2>1, <1>1, <1>4, <1>6
    <3> QED
      BY <3>1
  <2>2. CASE i # n + 1
    <3>1. i \in 1..n /\ go[i] = at[i] /\ go[i - 1] = at[i - 1] /\ v[i] = w[i]
      BY <2>2, <1>6
    <3> QED
      BY <3>1, <1>1, <1>4
  <2> QED
    BY <2>1, <2>2
<1>9. Leads(v, c, from, end)
  <2> HIDE DEF go, end
  <2> QED
    BY <1>7, <1>8 DEF Leads
<1> QED
  BY <1>5, <1>9

\* The first frame stands where the walk begins, and what follows it goes on from
\* there; a frame of another channel is not part of the walk.
LEMMA LeadsOn ==
  ASSUME NEW w \in Seq(Stream!Frames), w # <<>>, NEW c, NEW from, NEW to,
         Leads(w, c, from, to)
  PROVE  /\ Head(w).ch = c => /\ from = At(Head(w)) /\ WellBegun(Head(w))
                              /\ Leads(Tail(w), c, After(Head(w)), to)
         /\ Head(w).ch # c => Leads(Tail(w), c, from, to)
<1>1. PICK at \in [0..Len(w) -> Positions] :
        /\ at[0] = from /\ at[Len(w)] = to
        /\ \A i \in 1..Len(w) :
             IF w[i].ch = c
             THEN at[i - 1] = At(w[i]) /\ at[i] = After(w[i]) /\ WellBegun(w[i])
             ELSE at[i] = at[i - 1]
  BY DEF Leads
<1>2. Len(w) \in Nat \ {0}
  BY EmptySeq
<1>3. PICK n \in Nat \ {0} : n = Len(w)
  BY <1>2
<1>4. PICK v : v = Tail(w)
  OBVIOUS
<1>5. PICK x : x = Head(w)
  OBVIOUS
<1>6. Len(v) = n - 1 /\ \A i \in 1..n - 1 : v[i] = w[i + 1]
  BY <1>3, <1>4, HeadTailProperties
<1>7. x = w[1]
  BY <1>5
<1>8. IF x.ch = c THEN from = At(x) /\ at[1] = After(x) /\ WellBegun(x) ELSE at[1] = from
  <2>1. 1 \in 1..Len(w)
    BY <1>3
  <2>2. 1 - 1 = 0
    OBVIOUS
  <2> QED
    BY <2>1, <2>2, <1>1, <1>7
<1> DEFINE go == [i \in 0..n - 1 |-> at[i + 1]]
<1>9. go \in [0..Len(v) -> Positions] /\ go[0] = at[1] /\ go[Len(v)] = to
  BY <1>1, <1>3, <1>6
<1>10. \A i \in 1..Len(v) :
        IF v[i].ch = c
        THEN go[i - 1] = At(v[i]) /\ go[i] = After(v[i]) /\ WellBegun(v[i])
        ELSE go[i] = go[i - 1]
  <2> SUFFICES ASSUME NEW i \in 1..n - 1
               PROVE  IF v[i].ch = c
                      THEN go[i - 1] = At(v[i]) /\ go[i] = After(v[i]) /\ WellBegun(v[i])
                      ELSE go[i] = go[i - 1]
    BY <1>6
  <2>1. v[i] = w[i + 1] /\ go[i] = at[i + 1] /\ go[i - 1] = at[i]
    BY <1>6
  <2>2. i + 1 \in 1..Len(w) /\ (i + 1) - 1 = i
    BY <1>3
  <2> QED
    BY <2>1, <2>2, <1>1
<1>11. Leads(v, c, at[1], to)
  <2> HIDE DEF go
  <2> QED
    BY <1>9, <1>10 DEF Leads
<1> QED
  BY <1>4, <1>5, <1>8, <1>11

\* The first frame of a wire has the types of its fields, what is behind it is a wire.
LEMMA FirstFrame ==
  ASSUME NEW w \in Seq(Stream!Frames), w # <<>>
  PROVE  /\ Head(w) \in Stream!Frames /\ Tail(w) \in Seq(Stream!Frames)
         /\ Head(w).ch \in Channels /\ Head(w).type \in Stream!FrameTypes
         /\ Head(w).msg \in Nat /\ Head(w).no \in Nat
<1>1. Head(w) \in Stream!Frames /\ Tail(w) \in Seq(Stream!Frames)
  BY HeadTailProperties
<1> QED
  BY <1>1 DEF Stream!Frames

(***************************************************************************)
(* The reader of one channel: what becomes of it when a frame is sent or   *)
(* read, on its channel or on another.                                     *)
(***************************************************************************)
LEMMA ReaderAtStart ==
  ASSUME NEW c, NEW s
  PROVE  Reader(<<>>, c, <<>>, <<1, 1>>, 0, s)
<1>1. <<1, 1>> \in Positions /\ 0 + 1 = 1
  BY DEF Positions
<1>2. Leads(<<>>, c, <<1, 1>>, <<1, 1>>)
  BY <1>1, LeadsNowhere
<1>3. Len(<<>>) = 0
  OBVIOUS
<1> QED
  BY <1>1, <1>2, <1>3 DEF Reader, Unfinished

\* A frame sent prolongs the walk of its channel.
LEMMA ReaderSent ==
  ASSUME NEW w \in Seq(Stream!Frames), NEW x \in Stream!Frames, NEW c, NEW parts,
         NEW to, NEW d, NEW s, Reader(w, c, parts, to, d, s),
         x.ch = c => to = At(x) /\ WellBegun(x)
  PROVE  Reader(Append(w, x), c, parts, IF x.ch = c THEN After(x) ELSE to, d, s)
BY LeadsFurther DEF Reader

\* A frame of another channel is read.
LEMMA ReaderOfAnother ==
  ASSUME NEW w \in Seq(Stream!Frames), w # <<>>, NEW c, Head(w).ch # c, NEW parts,
         NEW to, NEW d, NEW s, Reader(w, c, parts, to, d, s)
  PROVE  Reader(Tail(w), c, parts, to, d, s)
BY LeadsOn DEF Reader

\* Once the session fails less is known.
LEMMA ReaderFails ==
  ASSUME NEW w, NEW c, NEW parts, NEW to, NEW d, NEW s, NEW t,
         Reader(w, c, parts, to, d, s), t # "up"
  PROVE  Reader(w, c, parts, to, d, t)
BY DEF Reader

\* What was collected is dropped when the session has failed.
LEMMA ReaderForgets ==
  ASSUME NEW w, NEW c, NEW parts, NEW to, NEW d, NEW s,
         Reader(w, c, parts, to, d, s), s # "up"
  PROVE  Reader(w, c, <<>>, to, d, s)
BY DEF Reader, Unfinished

\* A frame is read and dropped when the session has failed.
LEMMA ReaderDrops ==
  ASSUME NEW w \in Seq(Stream!Frames), w # <<>>, NEW c, NEW parts, NEW to,
         NEW d, NEW s, Reader(w, c, parts, to, d, s), s # "up"
  PROVE  Reader(Tail(w), c, <<>>, to, d, s)
<1>1. PICK from \in Positions : Leads(w, c, from, to)
  BY DEF Reader
<1>2. Head(w) \in Stream!Frames
  BY HeadTailProperties
<1>3. \E p \in Positions : Leads(Tail(w), c, p, to)
  BY <1>1, <1>2, LeadsOn, PositionsOfFrames
<1>4. Unfinished(<<>>, c)
  BY DEF Unfinished
<1> QED
  BY <1>3, <1>4 DEF Reader

(***************************************************************************)
(* The next frame of the channel: it begins a message exactly when nothing *)
(* is collected, and otherwise it is the next one of what is collected.    *)
(***************************************************************************)
LEMMA ReaderNext ==
  ASSUME NEW w \in Seq(Stream!Frames), w # <<>>, NEW parts \in Seq(Stream!Frames),
         NEW to, NEW d \in Nat, NEW s,
         Reader(w, Head(w).ch, parts, to, d, s)
  PROVE  /\ parts # <<>> =>
              /\ Head(w).msg = parts[1].msg /\ Head(w).no = Len(parts) + 1
              /\ Head(w).type \notin {"FIRST", "BULK"}
         /\ s = "up" =>
              /\ Head(w).msg = d + 1 /\ Head(w).no = Len(parts) + 1
              /\ parts = <<>> <=> Head(w).type \in {"FIRST", "BULK"}
         /\ WellBegun(Head(w))
<1> DEFINE x == Head(w)
<1>1. PICK from \in Positions :
        /\ Leads(w, x.ch, from, to)
        /\ parts # <<>> => from = <<parts[1].msg, Len(parts) + 1>>
        /\ s = "up" => from = <<d + 1, Len(parts) + 1>>
  BY DEF Reader
<1>2. from = <<x.msg, x.no>> /\ WellBegun(x)
  BY <1>1, LeadsOn DEF At
<1>3. Len(parts) \in Nat /\ (parts = <<>> <=> Len(parts) = 0)
  BY EmptySeq, LenProperties
<1>4. parts # <<>> => x.msg = parts[1].msg /\ x.no = Len(parts) + 1
  BY <1>1, <1>2
<1>5. s = "up" => x.msg = d + 1 /\ x.no = Len(parts) + 1
  BY <1>1, <1>2
<1>6. parts # <<>> => x.no # 1
  BY <1>3, <1>4
<1>7. s = "up" => (x.no = 1 <=> parts = <<>>)
  BY <1>3, <1>5
<1> QED
  BY <1>2, <1>4, <1>5, <1>6, <1>7 DEF WellBegun

\* Frames appended: the parts before are as they were.
LEMMA Appended ==
  ASSUME NEW S, NEW seq \in Seq(S), NEW x \in S
  PROVE  /\ Append(seq, x) \in Seq(S) /\ Len(Append(seq, x)) = Len(seq) + 1
         /\ Append(seq, x)[Len(seq) + 1] = x
         /\ \A i \in 1..Len(seq) : Append(seq, x)[i] = seq[i]
         /\ Len(seq) \in Nat /\ Append(seq, x) # <<>>
BY AppendProperties, LenProperties

\* A frame that does not end the message is added to what is collected.
LEMMA ReaderCollects ==
  ASSUME NEW w \in Seq(Stream!Frames), w # <<>>, NEW parts \in Seq(Stream!Frames),
         NEW to, NEW d \in Nat, Reader(w, Head(w).ch, parts, to, d, "up"),
         ~Ends(Head(w))
  PROVE  Reader(Tail(w), Head(w).ch, Append(parts, Head(w)), to, d, "up")
<1> DEFINE x == Head(w)
<1>1. x \in Stream!Frames /\ x.msg \in Nat /\ x.no \in Nat
  BY FirstFrame
<1>2. PICK v : v = Append(parts, x)
  OBVIOUS
<1>3. PICK n \in Nat : n = Len(parts)
  BY LenProperties
<1>4. /\ Len(v) = n + 1 /\ v[n + 1] = x /\ v # <<>>
      /\ \A i \in 1..n : v[i] = parts[i]
  BY <1>1, <1>2, <1>3, Appended
<1>5. x.msg = d + 1 /\ x.no = n + 1 /\ (n > 0 => x.msg = parts[1].msg)
  <2>1. x.msg = d + 1 /\ x.no = Len(parts) + 1 /\ (parts # <<>> => x.msg = parts[1].msg)
    BY ReaderNext
  <2>2. n > 0 => parts # <<>>
    BY <1>3
  <2> QED
    BY <2>1, <2>2, <1>3
<1>6. v[1].msg = d + 1
  <2>1. CASE n = 0
    BY <2>1, <1>4, <1>5
  <2>2. CASE n > 0
    <3>1. 1 \in 1..n
      BY <2>2
    <3> QED
      BY <3>1, <2>2, <1>4, <1>5
  <2> QED
    BY <2>1, <2>2
<1>7. Unfinished(v, x.ch)
  <2>1. \A i \in 1..n : /\ parts[i].ch = x.ch /\ parts[i].msg = parts[1].msg
                        /\ parts[i].no = i /\ ~Ends(parts[i])
    BY <1>3 DEF Reader, Unfinished
  <2> SUFFICES ASSUME NEW i \in 1..n + 1
               PROVE  /\ v[i].ch = x.ch /\ v[i].msg = v[1].msg /\ v[i].no = i
                      /\ ~Ends(v[i])
    BY <1>4 DEF Unfinished
  <2>2. CASE i = n + 1
    BY <2>2, <1>4, <1>5, <1>6
  <2>3. CASE i # n + 1
    <3>1. i \in 1..n /\ 1 \in 1..n /\ n > 0
      BY <2>3
    <3> QED
      BY <3>1, <2>1, <1>4
  <2> QED
    BY <2>2, <2>3
<1>8. PICK from \in Positions : Leads(w, x.ch, from, to)
  BY DEF Reader
<1>9. Leads(Tail(w), x.ch, After(x), to)
  BY <1>8, LeadsOn
<1>10. After(x) = <<v[1].msg, Len(v) + 1>> /\ After(x) = <<d + 1, Len(v) + 1>>
  BY <1>4, <1>5, <1>6 DEF After
<1>11. After(x) \in Positions
  BY <1>1, PositionsOfFrames
<1>12. Reader(Tail(w), x.ch, v, to, d, "up")
  BY <1>7, <1>9, <1>10, <1>11 DEF Reader
<1> QED
  BY <1>2, <1>12

\* A frame that ends the message: one more message of the channel is read.
LEMMA ReaderReads ==
  ASSUME NEW w \in Seq(Stream!Frames), w # <<>>, NEW parts \in Seq(Stream!Frames),
         NEW to, NEW d \in Nat, Reader(w, Head(w).ch, parts, to, d, "up"),
         Ends(Head(w))
  PROVE  Reader(Tail(w), Head(w).ch, <<>>, to, d + 1, "up")
<1> DEFINE x == Head(w)
<1>1. x \in Stream!Frames
  BY HeadTailProperties
<1>2. x.msg = d + 1
  BY ReaderNext
<1>3. PICK from \in Positions : Leads(w, x.ch, from, to)
  BY DEF Reader
<1>4. Leads(Tail(w), x.ch, After(x), to)
  BY <1>3, LeadsOn
<1>5. After(x) = <<d + 1 + 1, Len(<<>>) + 1>>
  BY <1>2 DEF After
<1>6. After(x) \in Positions
  BY <1>1, PositionsOfFrames
<1>7. Unfinished(<<>>, x.ch)
  BY DEF Unfinished
<1> QED
  BY <1>4, <1>5, <1>6, <1>7 DEF Reader

\* The frame that ends a message makes it whole, if it continues what is collected.
LEMMA WholeWithLast ==
  ASSUME NEW w \in Seq(Stream!Frames), w # <<>>, NEW parts \in Seq(Stream!Frames),
         NEW to, NEW d \in Nat, NEW s, Reader(w, Head(w).ch, parts, to, d, s),
         Ends(Head(w)), Head(w).type = "LAST" => parts # <<>>
  PROVE  IsWhole([ch |-> Head(w).ch, parts |-> Append(parts, Head(w))])
<1> DEFINE x == Head(w)
<1>1. x \in Stream!Frames /\ x.no \in Nat
  BY FirstFrame
<1>2. PICK v : v = Append(parts, x)
  OBVIOUS
<1>3. PICK n \in Nat : n = Len(parts)
  BY LenProperties
<1>4. /\ Len(v) = n + 1 /\ v[n + 1] = x /\ v # <<>>
      /\ \A i \in 1..n : v[i] = parts[i]
  BY <1>1, <1>2, <1>3, Appended
<1>5. (n = 0 <=> parts = <<>>) /\ (n > 0 <=> parts # <<>>)
  BY <1>3, EmptySeq
<1>6. /\ n > 0 => x.msg = parts[1].msg /\ x.no = n + 1
      /\ WellBegun(x)
  BY <1>3, <1>5, ReaderNext
<1>7. x.no = n + 1
  <2>1. CASE n = 0
    <3>1. x.type = "BULK"
      BY <2>1, <1>5 DEF Ends
    <3>2. x.no = 1
      BY <3>1, <1>6 DEF WellBegun
    <3> QED
      BY <3>2, <2>1
  <2>2. CASE n > 0
    BY <2>2, <1>6
  <2> QED
    BY <2>1, <2>2
<1>8. \A i \in 1..n : /\ parts[i].ch = x.ch /\ parts[i].msg = parts[1].msg
                      /\ parts[i].no = i /\ ~Ends(parts[i])
  BY <1>3 DEF Reader, Unfinished
<1>9. v[1].msg = x.msg
  <2>1. CASE n = 0
    BY <2>1, <1>4
  <2>2. CASE n > 0
    <3>1. 1 \in 1..n
      BY <2>2
    <3> QED
      BY <3>1, <2>2, <1>4, <1>6
  <2> QED
    BY <2>1, <2>2
<1>10. \A i \in 1..n + 1 : /\ v[i].ch = x.ch /\ v[i].msg = v[1].msg /\ v[i].no = i
                           /\ v[i].type \in {"LAST", "BULK"} <=> i = n + 1
  <2> SUFFICES ASSUME NEW i \in 1..n + 1
               PROVE  /\ v[i].ch = x.ch /\ v[i].msg = v[1].msg /\ v[i].no = i
                      /\ v[i].type \in {"LAST", "BULK"} <=> i = n + 1
    OBVIOUS
  <2>1. CASE i = n + 1
    BY <2>1, <1>4, <1>7, <1>9 DEF Ends
  <2>2. CASE i # n + 1
    <3>1. i \in 1..n /\ 1 \in 1..n /\ n > 0
      BY <2>2
    <3> QED
      BY <3>1, <2>2, <1>4, <1>8 DEF Ends
  <2> QED
    BY <2>1, <2>2
<1>11. IsWhole([ch |-> x.ch, parts |-> v])
  BY <1>4, <1>10 DEF IsWhole
<1> QED
  BY <1>2, <1>11

(***************************************************************************)
(* What the messenger does with the outcomes and messages: an outcome goes,*)
(* and it is queued for its channel at most.                               *)
(***************************************************************************)
LEMMA OutcomeTaken ==
  ASSUME IInv, posted # <<>>, posted' = Tail(posted)
  PROVE  /\ posted' = <<>> /\ Posted' = {} /\ Head(posted) \in Posted
         /\ Head(posted) # Stream!Error => Head(posted) \in Stream!Finished
<1>1. posted \in Seq(Stream!Finished \cup {Stream!Error}) /\ Len(posted) = 1
  <2>1. Len(posted) = 1
    BY InFlightParts
  <2> QED
    BY <2>1 DEF IInv, TypeOK, Stream!InStreamTypeOK
<1>2. posted' = <<>>
  BY <1>1, HeadTailProperties, EmptySeq
<1>3. Posted' = {}
  <2>1. Posted' = {posted'[i] : i \in 1..Len(posted')}
    BY DEF Posted
  <2>2. 1..Len(posted') = {}
    BY <1>2
  <2> QED
    BY <2>1, <2>2
<1>4. Head(posted) = posted[1] /\ 1 \in 1..Len(posted)
  BY <1>1
<1>5. Head(posted) \in Stream!Finished \cup {Stream!Error}
  BY <1>1, HeadTailProperties
<1> QED
  BY <1>2, <1>3, <1>4, <1>5 DEF Posted

\* An outcome is given away or queued, or a queued message is given away.
LEMMA QueueMoves ==
  ASSUME IInv, NEW c \in Channels
  PROVE  /\ messageQueue'[c] = messageQueue[c] => Queued(c)' = Queued(c)
         /\ messageQueue'[c] = <<>> => Queued(c)' = {}
         /\ messageQueue[c] # <<>> =>
              /\ Head(messageQueue[c]) \in Queued(c)
              /\ messageQueue'[c] = Tail(messageQueue[c]) => Queued(c)' \subseteq Queued(c)
         /\ \A m \in Stream!Finished :
              messageQueue'[c] = Append(messageQueue[c], m)
                => Queued(c)' = Queued(c) \cup {m}
<1>1. PICK q \in Seq(Stream!Finished) : q = messageQueue[c]
  BY DEF IInv, TypeOK
<1>2. PICK n \in Nat : n = Len(q)
  BY LenProperties
<1>3. Queued(c) = {q[i] : i \in 1..n}
  BY <1>1, <1>2 DEF Queued
<1>4. messageQueue'[c] = messageQueue[c] => Queued(c)' = Queued(c)
  BY DEF Queued
<1>5. messageQueue'[c] = <<>> => Queued(c)' = {}
  BY DEF Queued
<1>6. ASSUME q # <<>>
      PROVE  /\ Head(q) \in Queued(c)
             /\ messageQueue'[c] = Tail(q) => Queued(c)' \subseteq Queued(c)
  <2>1. n > 0 /\ Head(q) = q[1]
    BY <1>2, <1>6, EmptySeq
  <2>2. Len(Tail(q)) = n - 1 /\ \A i \in 1..n - 1 : Tail(q)[i] = q[i + 1]
    BY <1>2, <1>6, HeadTailProperties
  <2>3. messageQueue'[c] = Tail(q) => Queued(c)' = {Tail(q)[i] : i \in 1..n - 1}
    BY <2>2 DEF Queued
  <2>4. {Tail(q)[i] : i \in 1..n - 1} \subseteq Queued(c)
    <3> SUFFICES ASSUME NEW i \in 1..n - 1 PROVE Tail(q)[i] \in Queued(c)
      OBVIOUS
    <3>1. Tail(q)[i] = q[i + 1] /\ i + 1 \in 1..n
      BY <2>2
    <3> QED
      BY <3>1, <1>3
  <2>5. Head(q) \in Queued(c)
    <3>1. 1 \in 1..n
      BY <2>1
    <3> QED
      BY <3>1, <2>1, <1>3
  <2> QED
    BY <2>3, <2>4, <2>5
<1>7. ASSUME NEW m \in Stream!Finished, messageQueue'[c] = Append(q, m)
      PROVE  Queued(c)' = Queued(c) \cup {m}
  <2>1. PICK v : v = Append(q, m)
    OBVIOUS
  <2>2. Len(v) = n + 1 /\ v[n + 1] = m /\ \A i \in 1..n : v[i] = q[i]
    BY <2>1, <1>2, Appended
  <2>3. Queued(c)' = {v[i] : i \in 1..n + 1}
    BY <2>1, <2>2, <1>7 DEF Queued
  <2>4. ASSUME NEW i \in 1..n + 1 PROVE v[i] \in Queued(c) \cup {m}
    <3>1. CASE i = n + 1
      BY <3>1, <2>2
    <3>2. CASE i # n + 1
      <4>1. i \in 1..n
        BY <3>2
      <4> QED
        BY <4>1, <2>2, <1>3
    <3> QED
      BY <3>1, <3>2
  <2>5. ASSUME NEW i \in 1..n PROVE q[i] \in {v[j] : j \in 1..n + 1}
    <3>1. i \in 1..n + 1 /\ v[i] = q[i]
      BY <2>2
    <3> QED
      BY <3>1
  <2>6. m \in {v[j] : j \in 1..n + 1}
    <3>1. n + 1 \in 1..n + 1
      OBVIOUS
    <3> QED
      BY <3>1, <2>2
  <2> QED
    BY <2>3, <2>4, <2>5, <2>6, <1>3
<1> QED
  BY <1>1, <1>4, <1>5, <1>6, <1>7

\* Every step of the messenger.
LEMMA MessengerMoves ==
  ASSUME IInv, MessengerStep
  PROVE  /\ Posted' \subseteq Posted
         /\ \A c \in Channels :
              Queued(c)' \subseteq Queued(c) \cup
                {m \in Posted : m # Stream!Error /\ m.ch = c}
<1>1. messageQueue \in [Channels -> Seq(Stream!Finished)] /\ Receivers \subseteq Channels
  BY ReadersAssumption DEF IInv, TypeOK
<1>2. ASSUME NEW r \in Receivers, Owner!EnqueueReceive(r)
      PROVE  /\ Posted' = Posted
             /\ \A c \in Channels : Queued(c)' \subseteq Queued(c)
  <2>1. posted' = posted
    BY <1>2 DEF Owner!EnqueueReceive
  <2>2. ASSUME NEW c \in Channels PROVE Queued(c)' \subseteq Queued(c)
    <3>1. CASE messageQueue'[c] = messageQueue[c]
      BY <3>1, QueueMoves
    <3>2. CASE messageQueue'[c] # messageQueue[c]
      <4>1. messageQueue[c] # <<>> /\ messageQueue'[c] = Tail(messageQueue[c])
        BY <3>2, <1>1, <1>2 DEF Owner!EnqueueReceive
      <4> QED
        BY <4>1, QueueMoves
    <3> QED
      BY <3>1, <3>2
  <2> QED
    BY <2>1, <2>2 DEF Posted
<1>3. ASSUME Owner!InStreamMessageHandler
      PROVE  /\ Posted' = {}
             /\ \A c \in Channels : Queued(c)' \subseteq Queued(c) \cup
                  {m \in Posted : m # Stream!Error /\ m.ch = c}
  <2>1. posted # <<>> /\ Head(posted) # Stream!Error /\ posted' = Tail(posted)
    BY <1>3 DEF Owner!InStreamMessageHandler, Owner!Error, Stream!Error
  <2>2. Head(posted) \in Posted /\ Head(posted) \in Stream!Finished /\ Posted' = {}
    BY <2>1, OutcomeTaken
  <2>3. ASSUME NEW c \in Channels
        PROVE  Queued(c)' \subseteq Queued(c) \cup
                 {m \in Posted : m # Stream!Error /\ m.ch = c}
    <3>1. CASE messageQueue'[c] = messageQueue[c]
      BY <3>1, QueueMoves
    <3>2. CASE messageQueue'[c] # messageQueue[c]
      <4>1. /\ messageQueue'[c] = Append(messageQueue[c], Head(posted))
            /\ Head(posted).ch = c
        BY <3>2, <1>1, <1>3 DEF Owner!InStreamMessageHandler
      <4>2. Queued(c)' = Queued(c) \cup {Head(posted)}
        BY <4>1, <2>2, QueueMoves
      <4> QED
        BY <4>1, <4>2, <2>1, <2>2
    <3> QED
      BY <3>1, <3>2
  <2> QED
    BY <2>2, <2>3
<1>4. ASSUME Owner!RejectReceivePromiseQueue
      PROVE  Posted' = {} /\ \A c \in Channels : Queued(c)' = Queued(c)
  BY <1>4, OutcomeTaken DEF Owner!RejectReceivePromiseQueue, Queued
<1>5. ASSUME Owner!Stop
      PROVE  Posted' = Posted /\ \A c \in Channels : Queued(c)' = {}
  <2>1. posted' = posted /\ \A c \in Channels : messageQueue'[c] = <<>>
    BY <1>5 DEF Owner!Stop
  <2> QED
    BY <2>1, QueueMoves DEF Posted
<1> QED
  BY <1>2, <1>3, <1>4, <1>5 DEF MessengerStep, Owner!MessengerNext

(***************************************************************************)
(* The reader keeps FrameInv, whatever frames the phone leaves out.        *)
(***************************************************************************)
LEMMA BetweenFrames ==
  ASSUME requests \in {<<>>, <<"header">>}
  PROVE  ~InFrame
BY DEF InFrame

\* Nothing is read yet.
LEMMA InitFrame ==
  ASSUME Init
  PROVE  FrameInv
<1>1. /\ requests = <<>> /\ posted = <<>>
      /\ \A c \in Channels : messageBuffer[c] = Stream!NoMessage /\ messageQueue[c] = <<>>
  BY DEF Init, Stream!InStreamInit, Owner!MessengerInit
<1>2. ~InFrame
  BY <1>1, BetweenFrames
<1>3. Posted = {} /\ \A c \in Channels : Queued(c) = {}
  BY <1>1 DEF Posted, Queued
<1>4. FreshHead(<<>>)
  BY DEF FreshHead
<1> QED
  BY <1>1, <1>2, <1>3, <1>4
     DEF FrameInv, FrameKept, BufferKept, HeadsKept, Stream!NoMessage

\* A step that leaves the reader where it is.
LEMMA ReaderStays ==
  ASSUME FrameInv, UNCHANGED <<requests, message, messageBuffer, thisFrameType,
                               isValidFrame>>,
         wire # <<>> => wire' # <<>> /\ Head(wire') = Head(wire),
         \A m \in Posted' : FreshHead(m.parts),
         \A c \in Channels : \A m \in Queued(c)' : FreshHead(m.parts)
  PROVE  FrameInv'
<1>1. InFrame' = InFrame
  BY DEF InFrame
<1>2. FrameKept'
  BY <1>1 DEF FrameInv, FrameKept
<1>3. BufferKept'
  BY DEF FrameInv, BufferKept
<1>4. HeadsKept'
  BY <1>1 DEF FrameInv, HeadsKept
<1> QED
  BY <1>2, <1>3, <1>4 DEF FrameInv

\* A frame sent behind the others leaves the first one first.
LEMMA FirstStays ==
  ASSUME NEW w \in Seq(Stream!Frames), NEW x \in Stream!Frames, w # <<>>
  PROVE  Append(w, x) # <<>> /\ Head(Append(w, x)) = Head(w)
<1>1. PICK v : v = Append(w, x)
  OBVIOUS
<1>2. /\ Len(w) \in Nat \ {0} /\ Len(v) = Len(w) + 1 /\ v # <<>>
      /\ \A i \in 1..Len(w) : v[i] = w[i]
  BY <1>1, Appended, EmptySeq
<1>3. 1 \in 1..Len(w)
  BY <1>2
<1>4. v[1] = w[1] /\ Head(v) = v[1] /\ Head(w) = w[1]
  BY <1>2, <1>3
<1> QED
  BY <1>1, <1>2, <1>4

\* The frame that the phone sends.
LEMMA FrameSent ==
  ASSUME IInv, NEW c \in Channels, NEW type \in Stream!FrameTypes
  PROVE  /\ wire \in Seq(Stream!Frames)
         /\ [ch |-> c, type |-> type, msg |-> sent[c] + 1, no |-> framesSent[c] + 1]
              \in Stream!Frames
<1>1. wire \in Seq(Stream!Frames) /\ sent[c] \in Nat /\ framesSent[c] \in Nat
  BY DEF IInv, TypeOK, Stream!InStreamTypeOK
<1> QED
  BY <1>1 DEF Stream!Frames

\* What the phone, the messenger and the end of the connection leave alone.
LEMMA OthersKeepFrame ==
  ASSUME IInv, FrameInv,
         \/ \E c \in Channels, type \in Stream!FrameTypes : SendFrame(c, type)
         \/ SessionFails
         \/ MessengerStep
         \/ UNCHANGED vars
  PROVE  FrameInv'
<1>1. /\ \A m \in Posted : FreshHead(m.parts)
      /\ \A c \in Channels : \A m \in Queued(c) : FreshHead(m.parts)
  BY DEF FrameInv, HeadsKept
<1>2. ASSUME NEW c \in Channels, NEW type \in Stream!FrameTypes, SendFrame(c, type)
      PROVE  FrameInv'
  <2> DEFINE frame == [ch |-> c, type |-> type, msg |-> sent[c] + 1,
                       no |-> framesSent[c] + 1]
  <2>1. /\ UNCHANGED <<requests, message, messageBuffer, thisFrameType,
                       isValidFrame, posted, messageQueue>>
        /\ wire' \in {wire, Append(wire, frame)}
    BY <1>2 DEF SendFrame, ownerVars
  <2>2. wire \in Seq(Stream!Frames) /\ frame \in Stream!Frames
    BY FrameSent
  <2>3. wire # <<>> => wire' # <<>> /\ Head(wire') = Head(wire)
    BY <2>1, <2>2, FirstStays
  <2>4. Posted' = Posted /\ \A k \in Channels : Queued(k)' = Queued(k)
    BY <2>1 DEF Posted, Queued
  <2> QED
    BY <1>1, <2>1, <2>3, <2>4, ReaderStays
<1>3. CASE SessionFails \/ UNCHANGED vars
  <2>1. UNCHANGED <<requests, message, messageBuffer, thisFrameType,
                    isValidFrame, wire, posted, messageQueue>>
    BY <1>3 DEF SessionFails, vars, inStreamVars, ownerVars
  <2>2. Posted' = Posted /\ \A k \in Channels : Queued(k)' = Queued(k)
    BY <2>1 DEF Posted, Queued
  <2> QED
    BY <1>1, <2>1, <2>2, ReaderStays
<1>4. CASE MessengerStep
  <2>1. UNCHANGED <<requests, message, messageBuffer, thisFrameType,
                    isValidFrame, wire>>
    BY <1>4 DEF MessengerStep, inStreamVars
  <2>2. /\ Posted' \subseteq Posted
        /\ \A c \in Channels : Queued(c)' \subseteq Queued(c) \cup
              {m \in Posted : m # Stream!Error /\ m.ch = c}
    BY <1>4, MessengerMoves
  <2> QED
    BY <1>1, <2>1, <2>2, ReaderStays
<1> QED
  BY <1>2, <1>3, <1>4

\* receiveFrameHeaderHandler: what was buffered becomes the message in progress,
\* or is forgotten when the frame begins a message.
LEMMA HeaderKeepsFrame ==
  ASSUME IInv, FrameInv, Stream!ReceiveFrameHeaderHandler, UNCHANGED ownerVars
  PROVE  /\ FrameInv' /\ ~InFrame /\ InFrame' /\ wire' = wire /\ wire # <<>>
         /\ message'.ch = Head(wire).ch
         /\ message'.parts = IF Head(wire).type \in {"MIDDLE", "LAST"}
                             THEN messageBuffer[Head(wire).ch].parts ELSE <<>>
         /\ messageBuffer' = [messageBuffer EXCEPT ![Head(wire).ch] = Stream!NoMessage]
         /\ UNCHANGED <<session, posted, got>>
<1> DEFINE frame == Head(wire)
           buffered == messageBuffer[frame.ch]
<1>1. Stream!Serves("header") /\ "header" \in Stream!Kinds
  BY DEF Stream!ReceiveFrameHeaderHandler, Stream!Kinds
<1>2. requests = <<"header">> /\ frame \in Stream!Frames /\ wire # <<>>
  BY <1>1, ServesFacts DEF Stream!Serves
<1>3. frame.ch \in Channels /\ frame.type \in Stream!FrameTypes
  BY <1>2 DEF Stream!Frames
<1>4. messageBuffer \in [Channels -> Stream!Messages \cup {Stream!NoMessage}]
  BY DEF IInv, TypeOK, Stream!InStreamTypeOK
<1>5. /\ isValidFrame' = (frame.type \in {"MIDDLE", "LAST"} => buffered # Stream!NoMessage)
       /\ requests' = Append(Tail(requests), "size")
  BY DEF Stream!ReceiveFrameHeaderHandler, Stream!Request
<1>6. isValidFrame' <=> (frame.type \in {"MIDDLE", "LAST"} => buffered # Stream!NoMessage)
  BY <1>5
<1>7. requests' = <<"size">>
  BY <1>2, <1>5
<1>8. /\ message' = IF buffered # Stream!NoMessage /\ frame.type \in {"MIDDLE", "LAST"}
                    THEN buffered ELSE [ch |-> frame.ch, parts |-> <<>>]
      /\ isValidFrame' <=> (frame.type \in {"MIDDLE", "LAST"} => buffered # Stream!NoMessage)
      /\ messageBuffer' = [messageBuffer EXCEPT ![frame.ch] = Stream!NoMessage]
      /\ thisFrameType' = frame.type
      /\ requests' = <<"size">>
      /\ UNCHANGED <<wire, posted, session, got>>
  BY <1>6, <1>7 DEF Stream!ReceiveFrameHeaderHandler
<1>9. ~InFrame /\ InFrame'
  BY <1>2, <1>8, BetweenFrames DEF InFrame
<1>10. buffered # Stream!NoMessage => buffered.ch = frame.ch /\ buffered.parts # <<>>
  BY <1>3 DEF FrameInv, BufferKept
<1>11. Stream!NoMessage.parts = <<>>
  BY DEF Stream!NoMessage
<1>12. /\ message'.ch = frame.ch
      /\ message'.parts = IF frame.type \in {"MIDDLE", "LAST"}
                          THEN buffered.parts ELSE <<>>
  BY <1>8, <1>10, <1>11
<1>13. message' \in Stream!Messages
  <2>1. [ch |-> frame.ch, parts |-> <<>>] \in Stream!Messages
    BY <1>3 DEF Stream!Messages
  <2> QED
    BY <2>1, <1>3, <1>4, <1>8
<1>14. FrameKept'
  <2>1. messageBuffer'[frame.ch] = Stream!NoMessage
    BY <1>3, <1>4, <1>8
  <2>2. /\ frame.type \in {"FIRST", "BULK"} => frame.type \notin {"MIDDLE", "LAST"}
        /\ buffered = Stream!NoMessage <=> buffered.parts = <<>>
    BY <1>10, <1>11
  <2>3. isValidFrame' <=> (frame.type \in {"MIDDLE", "LAST"} => message'.parts # <<>>)
    BY <1>8, <1>12, <2>2
  <2> QED
    BY <1>2, <1>8, <1>12, <1>13, <2>1, <2>2, <2>3 DEF FrameKept
<1>15. BufferKept'
  BY <1>3, <1>4, <1>8 DEF FrameInv, BufferKept
<1>16. HeadsKept'
  <2>1. FreshHead(<<>>)
    BY DEF FreshHead
  <2>2. \A c \in Channels : FreshHead(messageBuffer[c].parts)
    BY DEF FrameInv, HeadsKept
  <2>3. FreshHead(message'.parts)
    BY <1>3, <1>12, <2>1, <2>2
  <2>4. \A c \in Channels : FreshHead(messageBuffer'[c].parts)
    BY <1>3, <1>4, <1>8, <1>11, <2>1, <2>2
  <2>5. Posted' = Posted /\ \A c \in Channels : Queued(c)' = Queued(c)
    BY <1>8 DEF Posted, Queued, ownerVars
  <2>6. FreshHead(message.parts)' /\ \A c \in Channels : FreshHead(messageBuffer[c].parts)'
    BY <2>3, <2>4 DEF FreshHead
  <2> QED
    BY <2>3, <2>4, <2>5 DEF FrameInv, HeadsKept
<1> QED
  BY <1>2, <1>8, <1>9, <1>12, <1>14, <1>15, <1>16 DEF FrameInv

\* startReceive and receiveFrameSizeHandler leave message_ and the buffers alone.
LEMMA StartAndSizeKeepFrame ==
  ASSUME IInv, FrameInv, Stream!StartReceive \/ Stream!ReceiveFrameSizeHandler,
         UNCHANGED ownerVars
  PROVE  /\ FrameInv' /\ InFrame' = InFrame
         /\ UNCHANGED <<message, messageBuffer, wire, session, posted, got>>
<1>1. /\ UNCHANGED <<message, messageBuffer, thisFrameType, isValidFrame, wire,
                     session, got>>
      /\ InFrame' = InFrame /\ posted' = posted
  <2>1. CASE Stream!StartReceive
    <3>1. /\ promise = "null" /\ requests' = Append(requests, "header")
          /\ UNCHANGED <<message, messageBuffer, thisFrameType, isValidFrame, wire,
                         session, got, posted>>
      BY <2>1, InFlightParts DEF Stream!StartReceive
    <3>2. requests = <<>>
      BY <3>1 DEF IInv, RequestsMatch
    <3>3. requests' = <<"header">>
      BY <3>1, <3>2
    <3>4. ~InFrame /\ ~InFrame'
      BY <3>2, <3>3 DEF InFrame
    <3> QED
      BY <3>1, <3>4 DEF InFrame
  <2>2. CASE Stream!ReceiveFrameSizeHandler
    <3>1. Stream!Serves("size") /\ "size" \in Stream!Kinds
      BY <2>2 DEF Stream!ReceiveFrameSizeHandler, Stream!Kinds
    <3>2. requests = <<"size">>
      BY <3>1, ServesFacts
    <3>3. requests' = <<"payload">>
      BY <2>2, <3>2 DEF Stream!ReceiveFrameSizeHandler, Stream!Request
    <3>4. InFrame /\ InFrame'
      BY <3>2, <3>3 DEF InFrame
    <3> QED
      BY <2>2, <3>4 DEF InFrame, Stream!ReceiveFrameSizeHandler
  <2> QED
    BY <2>1, <2>2
<1>2. FrameKept' /\ BufferKept'
  BY <1>1 DEF FrameInv, FrameKept, BufferKept
<1>3. Posted' = Posted /\ \A c \in Channels : Queued(c)' = Queued(c)
  BY <1>1 DEF Posted, Queued, ownerVars
<1>4. HeadsKept'
  BY <1>1, <1>3 DEF FrameInv, HeadsKept
<1> QED
  BY <1>1, <1>2, <1>4 DEF FrameInv

(***************************************************************************)
(* The message assembled by the payload handler.                           *)
(***************************************************************************)
LEMMA AssembledFacts ==
  ASSUME IInv, FrameInv, InFrame
  PROVE  /\ wire \in Seq(Stream!Frames) /\ wire # <<>>
         /\ message.ch \in Channels /\ message.ch = Head(wire).ch
         /\ message.parts \in Seq(Stream!Frames)
         /\ messageBuffer[message.ch] = Stream!NoMessage
         /\ Stream!Assembled \in Stream!Finished
         /\ Stream!Assembled = [ch |-> Head(wire).ch,
                                parts |-> Append(message.parts, Head(wire))]
         /\ Stream!Number(Stream!Assembled) = Head(wire).msg
         /\ FreshHead(Stream!Assembled.parts)
<1>1. /\ wire # <<>> /\ message.ch = Head(wire).ch /\ thisFrameType = Head(wire).type
      /\ messageBuffer[message.ch] = Stream!NoMessage /\ message \in Stream!Messages
      /\ thisFrameType \in {"FIRST", "BULK"} => message.parts = <<>>
  BY DEF FrameInv, FrameKept
<1>2. wire \in Seq(Stream!Frames)
  BY DEF IInv, TypeOK, Stream!InStreamTypeOK
<1>3. Stream!Assembled \in Stream!Finished
  BY <1>1, <1>2, FirstFrame, AssembledIsFinished
<1>4. message.ch \in Channels /\ message.parts \in Seq(Stream!Frames)
  BY <1>1 DEF Stream!Messages
<1>5. PICK v : v = Append(message.parts, Head(wire))
  OBVIOUS
<1>6. PICK n \in Nat : n = Len(message.parts)
  BY <1>4, LenProperties
<1>7. Len(v) = n + 1 /\ v[n + 1] = Head(wire) /\ \A i \in 1..n : v[i] = message.parts[i]
  BY <1>1, <1>2, <1>4, <1>5, <1>6, Appended, FirstFrame
<1>8. Stream!Assembled = [ch |-> Head(wire).ch, parts |-> v]
  BY <1>1, <1>5 DEF Stream!Assembled
<1>9. Stream!Number(Stream!Assembled) = Head(wire).msg
  BY <1>7, <1>8 DEF Stream!Number
<1>10. FreshHead(v)
  <2>1. FreshHead(message.parts)
    BY DEF FrameInv, HeadsKept
  <2> SUFFICES ASSUME NEW i \in 2..n + 1 PROVE v[i].type \notin {"FIRST", "BULK"}
    BY <1>7 DEF FreshHead
  <2>2. CASE i = n + 1
    <3>1. n # 0
      BY <2>2
    <3>2. message.parts # <<>>
      BY <3>1, <1>6
    <3> QED
      BY <2>2, <3>2, <1>1, <1>7
  <2>3. CASE i # n + 1
    <3>1. i \in 2..n /\ i \in 1..n
      BY <2>3
    <3> QED
      BY <3>1, <2>1, <1>6, <1>7 DEF FreshHead
  <2> QED
    BY <2>2, <2>3
<1> QED
  BY <1>1, <1>2, <1>3, <1>4, <1>5, <1>8, <1>9, <1>10

\* The payload handler reads the frame that the reader is in.
LEMMA FrameRead ==
  ASSUME IInv, Stream!ReadPayload
  PROVE  InFrame /\ wire' = Tail(wire)
<1>1. requests = <<"payload">>
  BY ReadPayloadFacts
<1> QED
  BY <1>1 DEF InFrame, Stream!ReadPayload

\* A message about to be handed out is the assembled one.
LEMMA CompletingFacts ==
  ASSUME IInv, FrameInv, NEW m \in Completing
  PROVE  m = Stream!Assembled /\ InFrame /\ Stream!EndsMessage
<1>1. /\ requests # <<>> /\ Head(requests) = "payload" /\ Stream!EndsMessage
      /\ m = Stream!Assembled
  BY DEF Completing
<1>2. promise # "null"
  BY <1>1 DEF IInv, RequestsMatch
<1>3. requests = <<Head(requests)>>
  <2>1. CASE session = "down"
    BY <2>1, <1>2 DEF IInv, RequestsMatch
  <2>2. CASE session # "down"
    <3>1. requests = <<Stream!Kind(wireOff)>>
      BY <2>2, <1>2 DEF IInv, RequestsMatch
    <3> QED
      BY <3>1
  <2> QED
    BY <2>1, <2>2
<1>4. requests = <<"payload">>
  BY <1>1, <1>3
<1> QED
  BY <1>1, <1>4 DEF InFrame

\* The outcome posted is the only one.
LEMMA OutcomePosted ==
  ASSUME posted = <<>>, promise = "set", NEW outcome, Stream!Settle(outcome)
  PROVE  posted' = <<outcome>> /\ Posted' = {outcome}
<1>1. posted' = <<outcome>>
  BY DEF Stream!Settle
<1>2. Posted' = {posted'[i] : i \in 1..Len(posted')}
  BY DEF Posted
<1>3. Len(posted') = 1 /\ posted'[1] = outcome
  BY <1>1
<1>4. 1..Len(posted') = {1}
  BY <1>3
<1> QED
  BY <1>1, <1>2, <1>3, <1>4

\* The frame is read: the reader is between two frames, and the message is stored,
\* handed out or dropped.
LEMMA PayloadKeepsFrame ==
  ASSUME IInv, FrameInv, Stream!ReceiveFramePayloadHandler, UNCHANGED ownerVars
  PROVE  FrameInv' /\ InFrame /\ ~InFrame'
<1>1. Stream!ReadPayload
  BY DEF Stream!ReceiveFramePayloadHandler, Stream!DecryptFails,
         Stream!MessageIntercepted, Stream!MessageResolved, Stream!MessageStored
<1>2. /\ InFrame /\ message.ch \in Channels /\ Stream!Assembled \in Stream!Finished
      /\ FreshHead(Stream!Assembled.parts)
      /\ Stream!Assembled.ch = message.ch /\ Stream!Assembled.parts # <<>>
  BY <1>1, FrameRead, AssembledFacts DEF Stream!Finished, Stream!Assembled
<1>3. requests = <<"payload">> /\ promise = "set" /\ posted = <<>>
  BY <1>1, ReadPayloadFacts
<1>4. requests' \in {<<>>, <<"header">>}
  BY <1>3 DEF Stream!ReceiveFramePayloadHandler, Stream!DecryptFails,
         Stream!MessageIntercepted, Stream!MessageResolved, Stream!MessageStored,
         Stream!Request
<1>5. ~InFrame'
  BY <1>4 DEF InFrame
<1>6. Posted' \in {Posted, {Stream!Error}, {Stream!Assembled}}
  BY <1>3, OutcomePosted DEF Stream!ReceiveFramePayloadHandler, Stream!DecryptFails,
         Stream!MessageIntercepted, Stream!MessageResolved, Stream!MessageStored, Posted
<1>7. messageBuffer' \in
        {messageBuffer, [messageBuffer EXCEPT ![message.ch] = Stream!Assembled]}
  BY DEF Stream!ReceiveFramePayloadHandler, Stream!DecryptFails,
         Stream!MessageIntercepted, Stream!MessageResolved, Stream!MessageStored
<1>8. messageBuffer \in [Channels -> Stream!Messages \cup {Stream!NoMessage}]
  BY DEF IInv, TypeOK, Stream!InStreamTypeOK
<1>9. FrameKept'
  BY <1>5 DEF FrameKept
<1>10. BufferKept'
  BY <1>2, <1>7, <1>8 DEF FrameInv, BufferKept
<1>11. HeadsKept'
  <2>1. FreshHead(Stream!Error.parts)
    BY DEF FreshHead, Stream!Error
  <2>2. \A m \in Posted' : FreshHead(m.parts)
    BY <1>2, <1>6, <2>1 DEF FrameInv, HeadsKept
  <2>3. \A c \in Channels : \A m \in Queued(c)' : FreshHead(m.parts)
    BY DEF FrameInv, HeadsKept, Queued, ownerVars
  <2>4. \A c \in Channels : FreshHead(messageBuffer'[c].parts)
    BY <1>2, <1>7, <1>8 DEF FrameInv, HeadsKept
  <2> QED
    BY <1>5, <2>2, <2>3, <2>4 DEF HeadsKept
<1> QED
  BY <1>2, <1>5, <1>9, <1>10, <1>11 DEF FrameInv

\* A read the transport rejects: the message in progress is gone.
LEMMA RejectKeepsFrame ==
  ASSUME IInv, FrameInv, Stream!TransportRejects, UNCHANGED ownerVars
  PROVE  /\ FrameInv' /\ ~InFrame' /\ posted = <<>> /\ posted' = <<Stream!Error>>
         /\ Posted' = {Stream!Error}
<1>1. /\ requests # <<>> /\ session = "down" /\ requests' = Tail(requests)
      /\ Stream!Settle(Stream!Error) /\ messageBuffer' = messageBuffer
  BY DEF Stream!TransportRejects
<1>2. promise = "set" /\ requests = <<Head(requests)>>
  BY <1>1 DEF IInv, RequestsMatch, TypeOK, Stream!InStreamTypeOK
<1>3. posted = <<>>
  BY <1>2, InFlightParts
<1>4. requests' = <<>>
  <2>1. PICK x : requests = <<x>>
    BY <1>2
  <2> QED
    BY <1>1, <2>1
<1>5. ~InFrame'
  BY <1>4 DEF InFrame
<1>6. posted' = <<Stream!Error>> /\ Posted' = {Stream!Error}
  BY <1>1, <1>2, <1>3, OutcomePosted
<1>7. HeadsKept'
  <2>1. FreshHead(Stream!Error.parts)
    BY DEF FreshHead, Stream!Error
  <2>2. \A m \in Posted' : FreshHead(m.parts)
    BY <1>6, <2>1
  <2>3. \A c \in Channels : \A m \in Queued(c)' : FreshHead(m.parts)
    BY DEF FrameInv, HeadsKept, Queued, ownerVars
  <2> QED
    BY <1>1, <1>5, <2>2, <2>3 DEF FrameInv, HeadsKept
<1> QED
  BY <1>1, <1>3, <1>5, <1>6, <1>7 DEF FrameInv, FrameKept, BufferKept

\* Every step of the receive path keeps what reassembly keeps.
LEMMA NextFrame ==
  ASSUME IInv, FrameInv, [Next]_vars
  PROVE  FrameInv'
<1>1. CASE InStreamStep
  BY <1>1, HeaderKeepsFrame, StartAndSizeKeepFrame, PayloadKeepsFrame, RejectKeepsFrame,
     NotDesynchronised DEF InStreamStep, Stream!InStreamNext
<1>2. CASE ~InStreamStep
  BY <1>2, OthersKeepFrame DEF Next
<1> QED
  BY <1>1, <1>2

(***************************************************************************)
(* Whatever frames the phone leaves out, the first frame of a message      *)
(* never stands behind another one (MessageInStream.cpp:75-80).            *)
(***************************************************************************)
THEOREM HeadsAreFirst ==
  ASSUME MaxPromises = 1
  PROVE  Spec => []NoStaleHead
<1>1. Init => FrameInv
  BY InitFrame
<1>2. IInv /\ FrameInv /\ [Next]_vars => FrameInv'
  BY NextFrame
<1>3. IInv /\ FrameInv => NoStaleHead
  <2> SUFFICES ASSUME IInv, FrameInv, NEW m \in HandedOut PROVE FreshHead(m.parts)
    BY DEF NoStaleHead, FreshHead
  <2>1. CASE m \in Completing
    BY <2>1, CompletingFacts, AssembledFacts
  <2>2. CASE m \notin Completing
    BY <2>2 DEF HandedOut, FrameInv, HeadsKept, Posted, Queued
  <2> QED
    BY <2>1, <2>2
<1> QED
  BY <1>1, <1>2, <1>3, Invariance, PTL DEF Spec

\* What is posted is a finished message or the error.
LEMMA PostedTypes ==
  ASSUME IInv
  PROVE  Posted \subseteq Stream!Finished \cup {Stream!Error}
<1>1. posted \in Seq(Stream!Finished \cup {Stream!Error})
  BY DEF IInv, TypeOK, Stream!InStreamTypeOK
<1> QED
  BY <1>1, ElementOfSeq DEF Posted

\* What is queued for a channel are finished messages.
LEMMA QueuedTypes ==
  ASSUME IInv, NEW c \in Channels
  PROVE  Queued(c) \subseteq Stream!Finished
<1>1. messageQueue[c] \in Seq(Stream!Finished)
  BY DEF IInv, TypeOK
<1> QED
  BY <1>1, ElementOfSeq DEF Queued

(***************************************************************************)
(* Delivery, when no frame is left out.                                    *)
(***************************************************************************)
LEMMA LineTypes ==
  ASSUME IInv, NEW c \in Channels
  PROVE  /\ got[c] \in Nat /\ messageQueue[c] \in Seq(Stream!Finished)
         /\ Len(messageQueue[c]) \in Nat /\ Here(c) \in {0, 1}
         /\ posted = <<>> \/ Head(posted) = Stream!Error => Here(c) = 0
<1>1. got[c] \in Nat /\ messageQueue[c] \in Seq(Stream!Finished)
  BY DEF IInv, TypeOK, Stream!InStreamTypeOK
<1>2. Stream!Error.ch # c
  BY ChannelsAssumption DEF Stream!Error
<1> QED
  BY <1>1, <1>2, LenProperties DEF Here

\* A step that neither reads nor delivers a message of the channel.
LEMMA LineStays ==
  ASSUME NEW c \in Channels, NEW d, Lined(c, d), got'[c] = got[c],
         messageQueue'[c] = messageQueue[c], Here(c)' = Here(c),
         Here(c) = 1 => Head(posted') = Head(posted),
         stopped => stopped'
  PROVE  Lined(c, d)'
<1>1. CASE c \in Intercepted
  BY <1>1 DEF Lined
<1>2. CASE c \notin Intercepted
  <2>1. Line(c, d)
    BY <1>2 DEF Lined
  <2>2. Line(c, d)'
    BY <2>1 DEF Line
  <2> QED
    BY <1>2, <2>2 DEF Lined
<1> QED
  BY <1>1, <1>2

\* Nothing is sent yet: every walk, line and message is empty.
LEMMA InitDelivery ==
  ASSUME Init
  PROVE  DeliveryInv
<1>1. /\ requests = <<>> /\ posted = <<>> /\ wire = <<>>
      /\ \A c \in Channels :
           /\ messageBuffer[c] = Stream!NoMessage /\ messageQueue[c] = <<>>
           /\ promiseQueue[c] = 0 /\ got[c] = 0 /\ sent[c] = 0 /\ framesSent[c] = 0
  BY DEF Init, Stream!InStreamInit, Owner!MessengerInit
<1>2. ~InFrame
  BY <1>1, BetweenFrames
<1>3. Posted = {} /\ \A c \in Channels : Queued(c) = {}
  BY <1>1 DEF Posted, Queued
<1>4. ASSUME NEW c \in Channels
      PROVE  Lined(c, 0) /\ Reader(wire, c, Begun(c), Phone(c), 0, session)
  <2>1. Begun(c) = <<>> /\ Phone(c) = <<1, 1>>
    BY <1>1, <1>2 DEF Begun, Phone, Stream!NoMessage
  <2>2. Here(c) = 0 /\ Len(messageQueue[c]) = 0
    BY <1>1 DEF Here
  <2>3. Line(c, 0)
    BY <1>1, <2>2 DEF Line
  <2> QED
    BY <1>1, <2>1, <2>3, ReaderAtStart DEF Lined
<1>5. ChannelKept
  BY <1>4 DEF ChannelKept
<1>6. WireKept
  BY <1>1 DEF WireKept
<1> QED
  BY <1>1, <1>3, <1>5, <1>6 DEF DeliveryInv, HandedKept, WaitersReceive

(***************************************************************************)
(* The phone: the frame it sends prolongs the walk of its channel.         *)
(***************************************************************************)
LEMMA SendKeepsDelivery ==
  ASSUME ~LosesFrames, IInv, DeliveryInv, NEW c \in Channels,
         NEW type \in Stream!FrameTypes, SendFrame(c, type)
  PROVE  DeliveryInv'
<1>1. PICK x : x = [ch |-> c, type |-> type, msg |-> sent[c] + 1, no |-> framesSent[c] + 1]
  OBVIOUS
<1>2. /\ UNCHANGED <<requests, message, messageBuffer, session, posted, got,
                     messageQueue, promiseQueue, stopped>>
      /\ wire' = Append(wire, x)
      /\ framesSent' = [framesSent EXCEPT ![c] = IF type \in {"LAST", "BULK"}
                                                 THEN 0 ELSE framesSent[c] + 1]
      /\ sent' = [sent EXCEPT ![c] = IF type \in {"LAST", "BULK"} THEN @ + 1 ELSE @]
      /\ type \in IF framesSent[c] + 1 = 1 THEN {"FIRST", "BULK"} ELSE {"MIDDLE", "LAST"}
  BY <1>1 DEF SendFrame, ownerVars
<1>3. /\ wire \in Seq(Stream!Frames) /\ x \in Stream!Frames
      /\ sent \in [Channels -> Nat] /\ framesSent \in [Channels -> Nat]
  BY <1>1, FrameSent DEF IInv, TypeOK
<1>4. Phone(c) = At(x) /\ x.ch = c
  BY <1>1 DEF Phone, At
<1>5. WellBegun(x)
  BY <1>1, <1>2 DEF WellBegun
<1>6. Phone(c)' = After(x)
  <2>1. /\ sent'[c] = IF type \in {"LAST", "BULK"} THEN sent[c] + 1 ELSE sent[c]
        /\ framesSent'[c] = IF type \in {"LAST", "BULK"} THEN 0 ELSE framesSent[c] + 1
    BY <1>2, <1>3
  <2>2. CASE type \in {"LAST", "BULK"}
    BY <1>1, <2>1, <2>2 DEF Phone, After, Ends
  <2>3. CASE type \notin {"LAST", "BULK"}
    BY <1>1, <2>1, <2>3 DEF Phone, After, Ends
  <2> QED
    BY <2>2, <2>3
<1>7. ASSUME NEW k \in Channels, k # c PROVE Phone(k)' = Phone(k)
  BY <1>2, <1>3, <1>7 DEF Phone
<1>8. \A k \in Channels : sent[k] <= sent'[k]
  BY <1>2, <1>3
<1>9. ChannelKept'
  <2> SUFFICES ASSUME NEW k \in Channels
               PROVE  \E d \in Nat : /\ Lined(k, d)'
                                     /\ Reader(wire', k, Begun(k)', Phone(k)', d, session')
    BY DEF ChannelKept
  <2>1. PICK d \in Nat : Lined(k, d) /\ Reader(wire, k, Begun(k), Phone(k), d, session)
    BY DEF DeliveryInv, ChannelKept
  <2>2. Lined(k, d)'
    <3>1. Here(k)' = Here(k)
      BY <1>2 DEF Here
    <3> QED
      BY <1>2, <2>1, <3>1, LineStays
  <2>3. Begun(k)' = Begun(k)
    BY <1>2 DEF Begun, InFrame
  <2>4. PICK p, to : p = Begun(k) /\ to = Phone(k)
    OBVIOUS
  <2>5. Reader(Append(wire, x), k, p, IF x.ch = k THEN After(x) ELSE to, d, session)
    BY <1>3, <1>4, <1>5, <2>1, <2>4, ReaderSent
  <2>6. Phone(k)' = IF x.ch = k THEN After(x) ELSE to
    BY <1>4, <1>6, <1>7, <2>4
  <2>7. Reader(wire', k, Begun(k)', Phone(k)', d, session')
    BY <1>2, <2>3, <2>4, <2>5, <2>6
  <2> QED
    BY <2>2, <2>7
<1>10. WireKept'
  <2>1. PICK v : v = Append(wire, x)
    OBVIOUS
  <2>2. PICK n \in Nat : n = Len(wire)
    BY <1>3, LenProperties
  <2>3. Len(v) = n + 1 /\ v[n + 1] = x /\ \A i \in 1..n : v[i] = wire[i]
    BY <1>3, <2>1, <2>2, Appended
  <2> SUFFICES ASSUME NEW i \in 1..n + 1, Ends(v[i]) PROVE v[i].msg <= sent'[v[i].ch]
    BY <1>2, <2>1, <2>3 DEF WireKept
  <2>4. CASE i = n + 1
    <3>1. type \in {"LAST", "BULK"} /\ v[i].msg = sent[c] + 1 /\ v[i].ch = c
      BY <1>1, <2>3, <2>4 DEF Ends
    <3>2. sent'[c] = sent[c] + 1
      BY <1>2, <1>3, <3>1
    <3> QED
      BY <1>3, <3>1, <3>2
  <2>5. CASE i # n + 1
    <3>1. i \in 1..n /\ v[i] = wire[i]
      BY <2>3, <2>5
    <3>2. wire[i].msg <= sent[wire[i].ch]
      BY <2>2, <3>1 DEF DeliveryInv, WireKept
    <3>3. wire[i] \in Stream!Frames
      BY <1>3, <2>2, <3>1, ElementOfSeq
    <3>4. wire[i].msg \in Nat /\ wire[i].ch \in Channels
      BY <3>3 DEF Stream!Frames
    <3>5. sent[wire[i].ch] \in Nat /\ sent'[wire[i].ch] \in Nat
      BY <1>2, <1>3, <3>4
    <3> QED
      BY <1>8, <3>1, <3>2, <3>4, <3>5
  <2> QED
    BY <2>4, <2>5
<1>11. HandedKept'
  <2>1. /\ \A m \in Stream!Finished : Stream!Number(m) \in Nat /\ m.ch \in Channels
        /\ \A k \in Channels : sent[k] \in Nat /\ sent'[k] \in Nat
    BY <1>2, <1>3, FinishedHasNumber
  <2>2. ASSUME NEW m \in Stream!Finished, Complete(m)
        PROVE  Complete(m)'
    BY <1>8, <2>1, <2>2 DEF Complete
  <2>3. Posted \subseteq Stream!Finished \cup {Stream!Error}
    BY PostedTypes
  <2>4. \A k \in Channels : Queued(k) \subseteq Stream!Finished
    BY QueuedTypes
  <2>5. Posted' = Posted /\ \A k \in Channels : Queued(k)' = Queued(k)
    BY <1>2 DEF Posted, Queued
  <2> QED
    BY <2>2, <2>3, <2>4, <2>5 DEF DeliveryInv, HandedKept
<1>12. WaitersReceive'
  BY <1>2 DEF DeliveryInv, WaitersReceive
<1> QED
  BY <1>9, <1>10, <1>11, <1>12 DEF DeliveryInv

\* What is handed out stays a whole message when nothing is sent.
LEMMA HandedStays ==
  ASSUME IInv, DeliveryInv, sent' = sent,
         \A m \in Posted' : m \in Posted \/ m = Stream!Error \/ Complete(m),
         \A c \in Channels : \A m \in Queued(c)' :
             m \in Queued(c) \/ (m \in Posted /\ m # Stream!Error /\ m.ch = c)
  PROVE  HandedKept'
<1>1. \A m : Complete(m)' <=> Complete(m)
  BY DEF Complete
<1> QED
  BY <1>1 DEF DeliveryInv, HandedKept

\* The connection fails, or nothing happens.
LEMMA FailureKeepsDelivery ==
  ASSUME IInv, DeliveryInv, SessionFails \/ UNCHANGED vars
  PROVE  DeliveryInv'
<1>1. /\ UNCHANGED <<requests, message, messageBuffer, wire, posted, got, sent, framesSent,
                     messageQueue, promiseQueue, stopped>>
      /\ session' = session \/ session' # "up"
  BY DEF SessionFails, vars, inStreamVars, ownerVars, phoneVars
<1>2. Posted' = Posted /\ \A c \in Channels : Queued(c)' = Queued(c)
  BY <1>1 DEF Posted, Queued
<1>3. ChannelKept'
  <2> SUFFICES ASSUME NEW c \in Channels
               PROVE  \E d \in Nat : /\ Lined(c, d)'
                                     /\ Reader(wire', c, Begun(c)', Phone(c)', d, session')
    BY DEF ChannelKept
  <2>1. PICK d \in Nat : Lined(c, d) /\ Reader(wire, c, Begun(c), Phone(c), d, session)
    BY DEF DeliveryInv, ChannelKept
  <2>2. Here(c)' = Here(c) /\ Begun(c)' = Begun(c) /\ Phone(c)' = Phone(c)
    BY <1>1 DEF Here, Begun, InFrame, Phone
  <2>3. Lined(c, d)'
    BY <1>1, <2>1, <2>2, LineStays
  <2>4. Reader(wire, c, Begun(c), Phone(c), d, session')
    BY <1>1, <2>1, ReaderFails
  <2> QED
    BY <1>1, <2>2, <2>3, <2>4
<1>4. HandedKept'
  BY <1>1, <1>2, HandedStays
<1> QED
  BY <1>1, <1>3, <1>4 DEF DeliveryInv, WireKept, WaitersReceive

\* A step of the reader that reads no payload: what is collected of each channel
\* stays, though a header moves it from the buffer to message_.
LEMMA HeaderKeepsDelivery ==
  ASSUME IInv, FrameInv, DeliveryInv,
         \/ Stream!StartReceive
         \/ Stream!ReceiveFrameHeaderHandler
         \/ Stream!ReceiveFrameSizeHandler,
         UNCHANGED <<ownerVars, phoneVars>>
  PROVE  DeliveryInv'
<1>1. /\ UNCHANGED <<wire, session, posted, got, sent, framesSent, messageQueue,
                     promiseQueue, stopped>>
  BY StartAndSizeKeepFrame, HeaderKeepsFrame DEF ownerVars, phoneVars
<1>2. Posted' = Posted /\ \A c \in Channels : Queued(c)' = Queued(c)
  BY <1>1 DEF Posted, Queued
<1>3. wire \in Seq(Stream!Frames)
      /\ messageBuffer \in [Channels -> Stream!Messages \cup {Stream!NoMessage}]
  BY DEF IInv, TypeOK, Stream!InStreamTypeOK
<1>4. ASSUME NEW c \in Channels, NEW d \in Nat,
             Reader(wire, c, Begun(c), Phone(c), d, session)
      PROVE  Begun(c)' = Begun(c)
  <2>1. CASE Stream!StartReceive \/ Stream!ReceiveFrameSizeHandler
    BY <2>1, StartAndSizeKeepFrame DEF Begun, ownerVars
  <2>2. CASE Stream!ReceiveFrameHeaderHandler
    <3>1. /\ ~InFrame /\ InFrame' /\ wire # <<>> /\ message'.ch = Head(wire).ch
          /\ message'.parts = IF Head(wire).type \in {"MIDDLE", "LAST"}
                              THEN messageBuffer[Head(wire).ch].parts ELSE <<>>
          /\ messageBuffer' = [messageBuffer EXCEPT ![Head(wire).ch] = Stream!NoMessage]
      BY <2>2, HeaderKeepsFrame DEF ownerVars
    <3>2. Begun(c) = messageBuffer[c].parts
      BY <3>1 DEF Begun
    <3>3. CASE c # Head(wire).ch
      BY <1>3, <3>1, <3>2, <3>3 DEF Begun
    <3>4. CASE c = Head(wire).ch
      <4>1. Begun(c)' = IF Head(wire).type \in {"MIDDLE", "LAST"} THEN Begun(c) ELSE <<>>
        BY <3>1, <3>2, <3>4 DEF Begun
      <4>2. Begun(c) \in Seq(Stream!Frames)
        <5>1. messageBuffer[c] \in Stream!Messages \/ messageBuffer[c] = Stream!NoMessage
          BY <1>3
        <5>2. CASE messageBuffer[c] \in Stream!Messages
          BY <5>2, <3>2 DEF Stream!Messages
        <5>3. CASE messageBuffer[c] = Stream!NoMessage
          <6>1. Begun(c) = <<>>
            BY <5>3, <3>2 DEF Stream!NoMessage
          <6> QED
            BY <6>1
        <5> QED
          BY <5>1, <5>2, <5>3
      <4>3. Begun(c) # <<>> => Head(wire).type \notin {"FIRST", "BULK"}
        BY <1>3, <1>4, <3>1, <3>4, <4>2, ReaderNext
      <4>4. Head(wire).type \in Stream!FrameTypes
        BY <1>3, <3>1, FirstFrame
      <4> QED
        BY <4>1, <4>3, <4>4 DEF Stream!FrameTypes
    <3> QED
      BY <3>3, <3>4
  <2> QED
    BY <2>1, <2>2
<1>5. ChannelKept'
  <2> SUFFICES ASSUME NEW c \in Channels
               PROVE  \E d \in Nat : /\ Lined(c, d)'
                                     /\ Reader(wire', c, Begun(c)', Phone(c)', d, session')
    BY DEF ChannelKept
  <2>1. PICK d \in Nat : Lined(c, d) /\ Reader(wire, c, Begun(c), Phone(c), d, session)
    BY DEF DeliveryInv, ChannelKept
  <2>2. Here(c)' = Here(c) /\ Begun(c)' = Begun(c) /\ Phone(c)' = Phone(c)
    BY <1>1, <1>4, <2>1 DEF Here, Phone
  <2>3. Lined(c, d)'
    BY <1>1, <2>1, <2>2, LineStays
  <2> QED
    BY <1>1, <2>1, <2>2, <2>3
<1>6. HandedKept'
  BY <1>1, <1>2, HandedStays
<1> QED
  BY <1>1, <1>5, <1>6 DEF DeliveryInv, WireKept, WaitersReceive

\* The transport rejects the read: the message in progress is dropped.
LEMMA RejectKeepsDelivery ==
  ASSUME IInv, FrameInv, DeliveryInv, Stream!TransportRejects,
         UNCHANGED <<ownerVars, phoneVars>>
  PROVE  DeliveryInv'
<1>1. /\ UNCHANGED <<wire, session, messageBuffer, got, sent, framesSent, messageQueue,
                     promiseQueue, stopped>>
      /\ session = "down"
  BY DEF Stream!TransportRejects, ownerVars, phoneVars
<1>2. /\ ~InFrame' /\ posted = <<>> /\ posted' = <<Stream!Error>>
      /\ Posted' = {Stream!Error}
  BY RejectKeepsFrame DEF phoneVars
<1>3. \A c \in Channels : Queued(c)' = Queued(c)
  BY <1>1 DEF Queued
<1>4. ChannelKept'
  <2> SUFFICES ASSUME NEW c \in Channels
               PROVE  \E d \in Nat : /\ Lined(c, d)'
                                     /\ Reader(wire', c, Begun(c)', Phone(c)', d, session')
    BY DEF ChannelKept
  <2>1. PICK d \in Nat : Lined(c, d) /\ Reader(wire, c, Begun(c), Phone(c), d, session)
    BY DEF DeliveryInv, ChannelKept
  <2>2. Here(c)' = 0 /\ Here(c) = 0
    <3>1. Stream!Error.ch # c
      BY ChannelsAssumption DEF Stream!Error
    <3>2. Head(posted') = Stream!Error
      BY <1>2
    <3> QED
      BY <1>2, <3>1, <3>2 DEF Here
  <2>3. Lined(c, d)'
    BY <1>1, <2>1, <2>2, LineStays
  <2>4. Begun(c)' \in {Begun(c), <<>>}
    <3>1. Begun(c)' = messageBuffer[c].parts
      BY <1>1, <1>2 DEF Begun
    <3>2. CASE InFrame /\ message.ch = c
      BY <3>1, <3>2 DEF FrameInv, FrameKept, Stream!NoMessage
    <3>3. CASE ~(InFrame /\ message.ch = c)
      BY <3>1, <3>3 DEF Begun
    <3> QED
      BY <3>2, <3>3
  <2>5. Phone(c)' = Phone(c)
    BY <1>1 DEF Phone
  <2>6. Reader(wire, c, Begun(c)', Phone(c), d, session)
    BY <1>1, <2>1, <2>4, ReaderForgets
  <2> QED
    BY <1>1, <2>3, <2>5, <2>6
<1>5. HandedKept'
  BY <1>1, <1>2, <1>3, HandedStays
<1> QED
  BY <1>1, <1>4, <1>5 DEF DeliveryInv, WireKept, WaitersReceive

(***************************************************************************)
(* The payload handler.  Each message of a channel is collected from its   *)
(* first frame to its last, so what is assembled at the end is whole.      *)
(***************************************************************************)
LEMMA WireShrinks ==
  ASSUME IInv, DeliveryInv, wire # <<>>, wire' = Tail(wire), sent' = sent
  PROVE  WireKept'
<1>1. wire \in Seq(Stream!Frames)
  BY DEF IInv, TypeOK, Stream!InStreamTypeOK
<1>2. PICK v : v = Tail(wire)
  OBVIOUS
<1>3. PICK n \in Nat : n = Len(wire)
  BY <1>1, LenProperties
<1>4. Len(v) = n - 1 /\ \A i \in 1..n - 1 : v[i] = wire[i + 1]
  BY <1>1, <1>2, <1>3, HeadTailProperties
<1> SUFFICES ASSUME NEW i \in 1..n - 1, Ends(v[i]) PROVE v[i].msg <= sent[v[i].ch]
  BY <1>2, <1>4 DEF WireKept
<1>5. v[i] = wire[i + 1] /\ i + 1 \in 1..n
  BY <1>4
<1> QED
  BY <1>3, <1>5 DEF DeliveryInv, WireKept

\* The message whose last frame is being read.
LEMMA AssembledIsComplete ==
  ASSUME IInv, FrameInv, DeliveryInv, InFrame, Stream!EndsMessage
  PROVE  Complete(Stream!Assembled) /\ Ends(Head(wire))
<1>1. /\ thisFrameType = Head(wire).type /\ message.ch = Head(wire).ch
      /\ isValidFrame <=>
             (thisFrameType \in {"MIDDLE", "LAST"} => message.parts # <<>>)
  BY DEF FrameInv, FrameKept
<1>2. /\ wire \in Seq(Stream!Frames) /\ wire # <<>> /\ message.ch \in Channels
      /\ message.parts \in Seq(Stream!Frames)
      /\ Stream!Assembled = [ch |-> Head(wire).ch,
                             parts |-> Append(message.parts, Head(wire))]
      /\ Stream!Number(Stream!Assembled) = Head(wire).msg
      /\ Stream!Assembled.ch = Head(wire).ch
  BY AssembledFacts
<1>3. Ends(Head(wire)) /\ (Head(wire).type = "LAST" => message.parts # <<>>)
  BY <1>1 DEF Stream!EndsMessage, Ends
<1>4. PICK d \in Nat :
        Reader(wire, message.ch, Begun(message.ch), Phone(message.ch), d, session)
  BY <1>2 DEF DeliveryInv, ChannelKept
<1>5. Begun(message.ch) = message.parts
  BY DEF Begun
<1>6. IsWhole(Stream!Assembled)
  BY <1>1, <1>2, <1>3, <1>4, <1>5, WholeWithLast
<1>7. Head(wire).msg <= sent[Head(wire).ch]
  <2>1. 1 \in 1..Len(wire) /\ Head(wire) = wire[1]
    <3>1. Len(wire) \in Nat \ {0}
      BY <1>2, EmptySeq
    <3> QED
      BY <3>1
  <2> QED
    BY <1>3, <2>1 DEF DeliveryInv, WireKept
<1> QED
  BY <1>2, <1>3, <1>6, <1>7 DEF Complete

\* The channel whose frame is not the one being read.
LEMMA OtherChannel ==
  ASSUME IInv, FrameInv, InFrame, ~InFrame', wire' = Tail(wire), session' = session,
         NEW c \in Channels, c # message.ch, messageBuffer'[c] = messageBuffer[c],
         Phone(c)' = Phone(c), NEW d \in Nat,
         Reader(wire, c, Begun(c), Phone(c), d, session)
  PROVE  Reader(wire', c, Begun(c)', Phone(c)', d, session')
<1>1. Begun(c)' = Begun(c)
  BY DEF Begun
<1>2. wire \in Seq(Stream!Frames) /\ wire # <<>> /\ Head(wire).ch # c
  BY AssembledFacts
<1>3. Reader(Tail(wire), c, Begun(c), Phone(c), d, session)
  BY <1>2, ReaderOfAnother
<1> QED
  BY <1>1, <1>3

\* What the four cases have in common.
LEMMA PayloadCommon ==
  ASSUME IInv, FrameInv, Stream!ReceiveFramePayloadHandler,
         UNCHANGED <<ownerVars, phoneVars>>
  PROVE  /\ InFrame /\ ~InFrame' /\ wire' = Tail(wire) /\ session' = session
         /\ posted = <<>> /\ promise = "set"
         /\ \A c \in Channels : /\ Phone(c)' = Phone(c) /\ Queued(c)' = Queued(c)
                                /\ Here(c) = 0
         /\ UNCHANGED <<sent, messageQueue, promiseQueue, stopped>>
<1>1. Stream!ReadPayload
  BY DEF Stream!ReceiveFramePayloadHandler, Stream!DecryptFails,
         Stream!MessageIntercepted, Stream!MessageResolved, Stream!MessageStored
<1>2. InFrame /\ ~InFrame' /\ wire' = Tail(wire)
  BY <1>1, FrameRead, PayloadKeepsFrame
<1>3. posted = <<>> /\ promise = "set" /\ session' = session
  BY <1>1, ReadPayloadFacts
<1>4. \A c \in Channels : Here(c) = 0
  BY <1>3 DEF Here
<1> QED
  BY <1>2, <1>3, <1>4 DEF ownerVars, phoneVars, Phone, Queued

\* A record the session cannot decrypt: the message is dropped with the error.
LEMMA DecryptFailsKeepsDelivery ==
  ASSUME IInv, FrameInv, DeliveryInv, Stream!DecryptFails,
         UNCHANGED <<ownerVars, phoneVars>>
  PROVE  DeliveryInv'
<1>1. /\ InFrame /\ ~InFrame' /\ wire' = Tail(wire) /\ session' = session
      /\ posted = <<>> /\ promise = "set"
      /\ \A c \in Channels : /\ Phone(c)' = Phone(c) /\ Queued(c)' = Queued(c)
                             /\ Here(c) = 0
      /\ UNCHANGED <<sent, messageQueue, promiseQueue, stopped>>
  BY PayloadCommon DEF Stream!ReceiveFramePayloadHandler
<1>2. session = "crypto" /\ UNCHANGED <<messageBuffer, got>>
  BY DEF Stream!DecryptFails
<1>3. posted' = <<Stream!Error>> /\ Posted' = {Stream!Error}
  BY <1>1, OutcomePosted DEF Stream!DecryptFails
<1>4. /\ wire \in Seq(Stream!Frames) /\ wire # <<>> /\ message.ch = Head(wire).ch
      /\ messageBuffer[message.ch] = Stream!NoMessage
  BY <1>1, AssembledFacts
<1>5. ChannelKept'
  <2> SUFFICES ASSUME NEW c \in Channels
               PROVE  \E d \in Nat : /\ Lined(c, d)'
                                     /\ Reader(wire', c, Begun(c)', Phone(c)', d, session')
    BY DEF ChannelKept
  <2>1. PICK d \in Nat : Lined(c, d) /\ Reader(wire, c, Begun(c), Phone(c), d, session)
    BY DEF DeliveryInv, ChannelKept
  <2>2. Here(c)' = 0 /\ Here(c) = 0
    <3>1. Stream!Error.ch # c
      BY ChannelsAssumption DEF Stream!Error
    <3>2. Head(posted') = Stream!Error
      BY <1>3
    <3> QED
      BY <1>1, <3>1, <3>2 DEF Here
  <2>3. Lined(c, d)'
    BY <1>1, <1>2, <2>1, <2>2, LineStays
  <2>4. Reader(wire', c, Begun(c)', Phone(c)', d, session')
    <3>1. CASE c # message.ch
      BY <3>1, <1>1, <1>2, <2>1, OtherChannel
    <3>2. CASE c = message.ch
      <4>1. Begun(c)' = <<>>
        BY <3>2, <1>1, <1>2, <1>4 DEF Begun, Stream!NoMessage
      <4>2. Reader(Tail(wire), c, <<>>, Phone(c), d, session)
        BY <1>2, <1>4, <2>1, ReaderDrops
      <4> QED
        BY <4>1, <4>2, <1>1
    <3> QED
      BY <3>1, <3>2
  <2> QED
    BY <2>3, <2>4
<1>6. WireKept'
  BY <1>1, <1>4, WireShrinks
<1>7. HandedKept'
  BY <1>1, <1>3, HandedStays
<1> QED
  BY <1>1, <1>5, <1>6, <1>7 DEF DeliveryInv, WaitersReceive

\* A frame that does not end its message is stored.
LEMMA StoredKeepsDelivery ==
  ASSUME IInv, FrameInv, DeliveryInv, Stream!MessageStored,
         UNCHANGED <<ownerVars, phoneVars>>
  PROVE  DeliveryInv'
<1>1. /\ InFrame /\ ~InFrame' /\ wire' = Tail(wire) /\ session' = session
      /\ posted = <<>> /\ promise = "set"
      /\ \A c \in Channels : /\ Phone(c)' = Phone(c) /\ Queued(c)' = Queued(c)
                             /\ Here(c) = 0
      /\ UNCHANGED <<sent, messageQueue, promiseQueue, stopped>>
  BY PayloadCommon DEF Stream!ReceiveFramePayloadHandler
<1>2. /\ session = "up" /\ ~Stream!EndsMessage /\ UNCHANGED <<posted, got>>
      /\ messageBuffer' = [messageBuffer EXCEPT ![message.ch] = Stream!Assembled]
  BY DEF Stream!MessageStored
<1>3. /\ wire \in Seq(Stream!Frames) /\ wire # <<>> /\ message.ch = Head(wire).ch
      /\ message.ch \in Channels /\ message.parts \in Seq(Stream!Frames)
      /\ Stream!Assembled = [ch |-> Head(wire).ch,
                             parts |-> Append(message.parts, Head(wire))]
  BY <1>1, AssembledFacts
<1>4. messageBuffer \in [Channels -> Stream!Messages \cup {Stream!NoMessage}]
  BY DEF IInv, TypeOK, Stream!InStreamTypeOK
<1>5. /\ thisFrameType = Head(wire).type
      /\ isValidFrame <=>
             (thisFrameType \in {"MIDDLE", "LAST"} => message.parts # <<>>)
  BY <1>1 DEF FrameInv, FrameKept
<1>6. ChannelKept'
  <2> SUFFICES ASSUME NEW c \in Channels
               PROVE  \E d \in Nat : /\ Lined(c, d)'
                                     /\ Reader(wire', c, Begun(c)', Phone(c)', d, session')
    BY DEF ChannelKept
  <2>1. PICK d \in Nat : Lined(c, d) /\ Reader(wire, c, Begun(c), Phone(c), d, session)
    BY DEF DeliveryInv, ChannelKept
  <2>2. Here(c)' = Here(c)
    BY <1>2 DEF Here
  <2>3. Lined(c, d)'
    BY <1>1, <1>2, <2>1, <2>2, LineStays
  <2>4. Reader(wire', c, Begun(c)', Phone(c)', d, session')
    <3>1. CASE c # message.ch
      <4>1. messageBuffer'[c] = messageBuffer[c]
        BY <3>1, <1>2, <1>4
      <4> QED
        BY <3>1, <4>1, <1>1, <2>1, OtherChannel
    <3>2. CASE c = message.ch
      <4>1. Begun(c) = message.parts
        BY <3>2, <1>1 DEF Begun
      <4>2. Begun(c)' = Append(message.parts, Head(wire))
        <5>1. messageBuffer'[c] = Stream!Assembled
          BY <3>2, <1>2, <1>3, <1>4
        <5> QED
          BY <5>1, <1>1, <1>3 DEF Begun
      <4>3. Reader(wire, Head(wire).ch, message.parts, Phone(c), d, "up")
        BY <1>2, <1>3, <2>1, <3>2, <4>1
      <4>4. message.parts = <<>> <=> Head(wire).type \in {"FIRST", "BULK"}
        BY <1>3, <4>3, ReaderNext
      <4>5. ~Ends(Head(wire))
        BY <1>2, <1>5, <4>4 DEF Stream!EndsMessage, Ends
      <4>6. Reader(Tail(wire), Head(wire).ch, Append(message.parts, Head(wire)),
                   Phone(c), d, "up")
        BY <1>3, <4>3, <4>5, ReaderCollects
      <4> QED
        BY <1>1, <1>2, <1>3, <3>2, <4>2, <4>6
    <3> QED
      BY <3>1, <3>2
  <2> QED
    BY <2>3, <2>4
<1>7. WireKept'
  BY <1>1, <1>3, WireShrinks
<1>8. HandedKept'
  <2>1. Posted' = Posted
    BY <1>2 DEF Posted
  <2> QED
    BY <1>1, <2>1, HandedStays
<1> QED
  BY <1>1, <1>6, <1>7, <1>8 DEF DeliveryInv, WaitersReceive

(***************************************************************************)
(* The last frame of a message: it is the next one of its channel, whole,  *)
(* shown to the interceptor, and posted unless it is taken there.          *)
(***************************************************************************)
LEMMA EndKeepsDelivery ==
  ASSUME IInv, FrameInv, DeliveryInv,
         Stream!MessageIntercepted \/ Stream!MessageResolved,
         UNCHANGED <<ownerVars, phoneVars>>
  PROVE  /\ DeliveryInv'
         /\ got' # got => /\ message.ch \in Intercepted
                          /\ got' = [got EXCEPT ![message.ch] = got[message.ch] + 1]
                          /\ got[message.ch] + 1 <= sent[message.ch]
<1>1. /\ InFrame /\ ~InFrame' /\ wire' = Tail(wire) /\ session' = session
      /\ posted = <<>> /\ promise = "set"
      /\ \A c \in Channels : /\ Phone(c)' = Phone(c) /\ Queued(c)' = Queued(c)
                             /\ Here(c) = 0
      /\ UNCHANGED <<sent, messageQueue, promiseQueue, stopped>>
  BY PayloadCommon DEF Stream!ReceiveFramePayloadHandler
<1>2. /\ wire \in Seq(Stream!Frames) /\ wire # <<>> /\ message.ch = Head(wire).ch
      /\ message.ch \in Channels /\ message.parts \in Seq(Stream!Frames)
      /\ messageBuffer[message.ch] = Stream!NoMessage
      /\ Stream!Assembled \in Stream!Finished /\ Stream!Assembled.ch = message.ch
      /\ Stream!Number(Stream!Assembled) = Head(wire).msg
  BY <1>1, AssembledFacts
<1>3. /\ session = "up" /\ Stream!EndsMessage /\ messageBuffer' = messageBuffer
      /\ got' = IF message.ch \in Intercepted
                THEN [got EXCEPT ![message.ch] = Head(wire).msg] ELSE got
  BY <1>2 DEF Stream!MessageIntercepted, Stream!MessageResolved, Stream!InvokeInterceptor
<1>4. \/ posted' = posted /\ message.ch \in Intercepted /\ Posted' = Posted
      \/ posted' = <<Stream!Assembled>> /\ Posted' = {Stream!Assembled}
  <2>1. CASE Stream!MessageIntercepted
    BY <2>1 DEF Stream!MessageIntercepted, Posted
  <2>2. CASE Stream!MessageResolved
    BY <2>2, <1>1, OutcomePosted DEF Stream!MessageResolved
  <2> QED
    BY <2>1, <2>2
<1>5. Complete(Stream!Assembled) /\ Ends(Head(wire))
  BY <1>1, <1>3, AssembledIsComplete
<1>6. got \in [Channels -> Nat]
  BY DEF IInv, TypeOK, Stream!InStreamTypeOK
<1>7. PICK e \in Nat :
        /\ Lined(message.ch, e)
        /\ Reader(wire, message.ch, Begun(message.ch), Phone(message.ch), e, session)
  BY <1>2 DEF DeliveryInv, ChannelKept
<1>8. Reader(wire, Head(wire).ch, message.parts, Phone(message.ch), e, "up")
  <2>1. Begun(message.ch) = message.parts
    BY <1>1 DEF Begun
  <2> QED
    BY <2>1, <1>2, <1>3, <1>7
<1>9. Head(wire).msg = e + 1
  BY <1>2, <1>8, ReaderNext
<1>10. Reader(Tail(wire), Head(wire).ch, <<>>, Phone(message.ch), e + 1, "up")
  BY <1>2, <1>5, <1>8, ReaderReads
<1>11. ASSUME NEW c \in Channels, c # message.ch
       PROVE  \E d \in Nat : /\ Lined(c, d)'
                             /\ Reader(wire', c, Begun(c)', Phone(c)', d, session')
  <2>1. PICK d \in Nat : Lined(c, d) /\ Reader(wire, c, Begun(c), Phone(c), d, session)
    BY DEF DeliveryInv, ChannelKept
  <2>2. Here(c)' = 0 /\ Here(c) = 0
    <3>1. CASE posted' = posted
      BY <3>1, <1>1 DEF Here
    <3>2. CASE posted' = <<Stream!Assembled>>
      <4>1. Head(posted') = Stream!Assembled
        BY <3>2
      <4> QED
        BY <4>1, <1>1, <1>2, <1>11 DEF Here
    <3> QED
      BY <1>4, <3>1, <3>2
  <2>3. got'[c] = got[c]
    BY <1>3, <1>6, <1>11
  <2>4. Lined(c, d)'
    BY <1>1, <2>1, <2>2, <2>3, LineStays
  <2> QED
    BY <1>1, <1>3, <1>11, <2>1, <2>4, OtherChannel
<1>12. PICK k \in Channels : k = message.ch
  BY <1>2
<1>13. Lined(k, e + 1)'
  <2>1. CASE message.ch \in Intercepted
    <3>1. got'[message.ch] = e + 1
      BY <2>1, <1>2, <1>3, <1>6, <1>9
    <3> QED
      BY <2>1, <3>1, <1>12 DEF Lined
  <2>2. CASE message.ch \notin Intercepted
    <3>1. posted' = <<Stream!Assembled>> /\ got'[k] = got[k]
      BY <2>2, <1>3, <1>4
    <3>2. Here(k)' = 1 /\ Stream!Number(Head(posted'))  = e + 1
      <4>1. Head(posted') = Stream!Assembled /\ posted' # <<>>
        BY <3>1
      <4> QED
        BY <4>1, <1>12, <1>2, <1>9 DEF Here
    <3>3. Line(k, e)
      BY <1>7, <2>2, <1>12 DEF Lined
    <3>4. messageQueue'[k] = messageQueue[k] /\ Here(k) = 0 /\ stopped' = stopped
      BY <1>1
    <3>5. PICK n \in Nat, g \in Nat : n = Len(messageQueue[k]) /\ g = got[k]
      BY LineTypes
    <3>6. (e + 1) - n - 1 = e - n - 0
      BY <3>5
    <3>7. PICK b : b = e - n - 0
      OBVIOUS
    <3>8. /\ g <= b /\ (~stopped => g = b)
          /\ \A i \in 1..n : Stream!Number(messageQueue[k][i]) = b + i
      BY <3>3, <3>4, <3>5, <3>7 DEF Line
    <3>9. (e + 1) - Len(messageQueue'[k]) - Here(k)' = b
      BY <3>2, <3>4, <3>5, <3>6, <3>7
    <3>10. Line(k, e + 1)'
      <4>1. /\ got'[k] <= b /\ (~stopped' => got'[k] = b)
            /\ \A i \in 1..Len(messageQueue'[k]) :
                 Stream!Number(messageQueue'[k][i]) = b + i
            /\ Here(k)' = 1 => Stream!Number(Head(posted')) = e + 1
        BY <3>1, <3>2, <3>4, <3>5, <3>8
      <4> QED
        BY <4>1, <3>9 DEF Line, Stream!Number
    <3> QED
      BY <2>2, <1>12, <3>10 DEF Lined
  <2> QED
    BY <2>1, <2>2
<1>14. ChannelKept'
  <2>1. Begun(k)' = <<>>
    BY <1>12, <1>1, <1>2, <1>3 DEF Begun, Stream!NoMessage
  <2>2. Reader(wire', k, Begun(k)', Phone(k)', e + 1, session')
    BY <1>12, <2>1, <1>1, <1>2, <1>3, <1>10
  <2>3. \E d \in Nat : /\ Lined(k, d)'
                       /\ Reader(wire', k, Begun(k)', Phone(k)', d, session')
    <3>1. e + 1 \in Nat
      OBVIOUS
    <3> QED
      BY <2>2, <3>1, <1>13
  <2> QED
    BY <1>12, <2>3, <1>11 DEF ChannelKept
<1>15. WireKept'
  BY <1>1, <1>2, WireShrinks
<1>16. HandedKept'
  BY <1>1, <1>4, <1>5, HandedStays
<1>17. DeliveryInv'
  BY <1>1, <1>14, <1>15, <1>16 DEF DeliveryInv, WaitersReceive
<1>18. ASSUME got' # got
       PROVE  /\ message.ch \in Intercepted
              /\ got' = [got EXCEPT ![message.ch] = got[message.ch] + 1]
              /\ got[message.ch] + 1 <= sent[message.ch]
  <2>1. message.ch \in Intercepted
    BY <1>3, <1>18
  <2>2. got[message.ch] = e
    BY <2>1, <1>7 DEF Lined
  <2>3. e + 1 <= sent[message.ch]
    BY <1>2, <1>5, <1>9 DEF Complete
  <2> QED
    BY <2>1, <2>2, <2>3, <1>3, <1>9
<1> QED
  BY <1>17, <1>18

(***************************************************************************)
(* The messenger: what it does to the line of messages of a channel.       *)
(***************************************************************************)
LEMMA LineShifts ==
  ASSUME NEW q \in Seq(Stream!Finished), q # <<>>, NEW b \in Int,
         \A i \in 1..Len(q) : Stream!Number(q[i]) = b + i
  PROVE  /\ Stream!Number(Head(q)) = b + 1 /\ Len(Tail(q)) = Len(q) - 1
         /\ \A i \in 1..Len(Tail(q)) : Stream!Number(Tail(q)[i]) = (b + 1) + i
<1>1. PICK n \in Nat \ {0} : n = Len(q)
  BY EmptySeq
<1>2. PICK v : v = Tail(q)
  OBVIOUS
<1>3. Len(v) = n - 1 /\ \A i \in 1..n - 1 : v[i] = q[i + 1]
  BY <1>1, <1>2, HeadTailProperties
<1>4. Stream!Number(Head(q)) = b + 1
  <2>1. Head(q) = q[1] /\ 1 \in 1..n
    BY <1>1
  <2> QED
    BY <2>1, <1>1
<1>5. ASSUME NEW i \in 1..n - 1 PROVE Stream!Number(v[i]) = (b + 1) + i
  <2>1. i + 1 \in 1..n /\ v[i] = q[i + 1] /\ b + (i + 1) = (b + 1) + i
    BY <1>3
  <2> QED
    BY <2>1, <1>1
<1> QED
  BY <1>1, <1>2, <1>3, <1>4, <1>5

\* The next message is queued: the numbers stay consecutive.
LEMMA LineGrows ==
  ASSUME NEW q \in Seq(Stream!Finished), NEW m \in Stream!Finished, NEW b \in Int,
         \A i \in 1..Len(q) : Stream!Number(q[i]) = b + i,
         Stream!Number(m) = b + Len(q) + 1
  PROVE  /\ Len(Append(q, m)) = Len(q) + 1
         /\ \A i \in 1..Len(Append(q, m)) : Stream!Number(Append(q, m)[i]) = b + i
<1>1. PICK n \in Nat : n = Len(q)
  BY LenProperties
<1>2. PICK v : v = Append(q, m)
  OBVIOUS
<1>3. Len(v) = n + 1 /\ v[n + 1] = m /\ \A i \in 1..n : v[i] = q[i]
  BY <1>1, <1>2, Appended
<1>4. ASSUME NEW i \in 1..n + 1 PROVE Stream!Number(v[i]) = b + i
  <2>1. CASE i = n + 1
    BY <2>1, <1>1, <1>3
  <2>2. CASE i # n + 1
    <3>1. i \in 1..n
      BY <2>2
    <3> QED
      BY <3>1, <1>1, <1>3
  <2> QED
    BY <2>1, <2>2
<1> QED
  BY <1>1, <1>2, <1>3, <1>4

\* The line of a channel, from its parts.
LEMMA LineMade ==
  ASSUME NEW c \in Channels, NEW d \in Nat, c \notin Intercepted, NEW b,
         b = d - Len(messageQueue'[c]) - Here(c)',
         got'[c] <= b, ~stopped' => got'[c] = b,
         \A i \in 1..Len(messageQueue'[c]) : Stream!Number(messageQueue'[c][i]) = b + i,
         Here(c)' = 1 => Stream!Number(Head(posted')) = d
  PROVE  Lined(c, d)'
<1>1. Line(c, d)'
  BY DEF Line, Stream!Number
<1> QED
  BY <1>1 DEF Lined

\* The numbers of a line of messages, with b the number of the last one given away.
LEMMA LineRead ==
  ASSUME IInv, NEW c \in Channels, NEW d \in Nat, c \notin Intercepted, Lined(c, d)
  PROVE  \E b \in Int :
           /\ b = d - Len(messageQueue[c]) - Here(c)
           /\ got[c] <= b /\ (~stopped => got[c] = b)
           /\ \A i \in 1..Len(messageQueue[c]) : Stream!Number(messageQueue[c][i]) = b + i
           /\ Here(c) = 1 => Stream!Number(Head(posted)) = d
<1>1. Line(c, d)
  BY DEF Lined
<1>2. Len(messageQueue[c]) \in Nat /\ Here(c) \in {0, 1}
  BY LineTypes
<1>3. d - Len(messageQueue[c]) - Here(c) \in Int
  BY <1>2
<1> QED
  BY <1>1, <1>3 DEF Line

\* What a delivery of the messenger may be: the next message of a channel, or,
\* once queued messages are thrown away, a later one.
Delivers(c) ==
    /\ c \in Channels /\ got[c] < got'[c] /\ got'[c] <= sent[c]
    /\ stopped \/ got'[c] = got[c] + 1
    /\ got' = [got EXCEPT ![c] = got'[c]]

\* enqueueReceive takes the oldest queued message.
LEMMA EnqueueKeepsLine ==
  ASSUME IInv, DeliveryInv, NEW r \in Receivers, Owner!EnqueueReceive(r)
  PROVE  /\ \A c \in Channels, d \in Nat : Lined(c, d) => Lined(c, d)'
         /\ got' = got \/ Delivers(r)
<1>1. r \in Channels /\ r \notin Intercepted
  BY ReadersAssumption
<1>2. posted' = posted /\ stopped' = stopped
      /\ got \in [Channels -> Nat] /\ messageQueue \in [Channels -> Seq(Stream!Finished)]
  BY DEF Owner!EnqueueReceive, IInv, TypeOK, Stream!InStreamTypeOK
<1>3. \A c \in Channels : Here(c)' = Here(c)
  BY <1>2 DEF Here
<1>4. CASE messageQueue[r] = <<>>
  <2>1. messageQueue' = messageQueue /\ got' = got
    BY <1>4 DEF Owner!EnqueueReceive
  <2> QED
    BY <1>2, <1>3, <2>1, LineStays
<1>5. CASE messageQueue[r] # <<>>
  <2>1. PICK q \in Seq(Stream!Finished) : q = messageQueue[r]
    BY <1>1, <1>2
  <2>2. /\ got' = [got EXCEPT ![r] = Stream!Number(Head(q))]
        /\ messageQueue' = [messageQueue EXCEPT ![r] = Tail(q)]
    BY <1>5, <2>1 DEF Owner!EnqueueReceive, Owner!Number, Stream!Number
  <2>3. PICK e \in Nat : Lined(r, e)
    BY <1>1 DEF DeliveryInv, ChannelKept
  <2>4. ASSUME NEW d \in Nat, Lined(r, d)
        PROVE  /\ Lined(r, d)'
               /\ got[r] < Stream!Number(Head(q))
               /\ ~stopped => Stream!Number(Head(q)) = got[r] + 1
    <3>1. PICK b \in Int :
            /\ b = d - Len(q) - Here(r)
            /\ got[r] <= b /\ (~stopped => got[r] = b)
            /\ \A i \in 1..Len(q) : Stream!Number(q[i]) = b + i
            /\ Here(r) = 1 => Stream!Number(Head(posted)) = d
      BY <1>1, <2>1, <2>4, LineRead
    <3>2. /\ Stream!Number(Head(q)) = b + 1 /\ Len(Tail(q)) = Len(q) - 1
          /\ \A i \in 1..Len(Tail(q)) : Stream!Number(Tail(q)[i]) = (b + 1) + i
      BY <1>5, <2>1, <3>1, LineShifts
    <3>3. got'[r] = b + 1 /\ messageQueue'[r] = Tail(q)
      BY <1>1, <1>2, <2>2, <3>2
    <3>4. b + 1 = d - Len(messageQueue'[r]) - Here(r)'
      <4>1. Len(q) \in Nat /\ Here(r) \in {0, 1}
        BY <1>1, <2>1, LineTypes
      <4> QED
        BY <1>1, <1>3, <3>1, <3>2, <3>3, <4>1
    <3>5. got[r] \in Nat
      BY <1>1, <1>2
    <3>6. Lined(r, d)'
      <4>1. PICK next \in Int : next = b + 1
        OBVIOUS
      <4>2. /\ next = d - Len(messageQueue'[r]) - Here(r)'
            /\ got'[r] <= next /\ (~stopped' => got'[r] = next)
            /\ Here(r)' = 1 => Stream!Number(Head(posted')) = d
        BY <1>1, <1>2, <1>3, <3>1, <3>3, <3>4, <4>1
      <4>3. \A i \in 1..Len(messageQueue'[r]) :
              Stream!Number(messageQueue'[r][i]) = next + i
        BY <3>2, <3>3, <4>1
      <4> QED
        BY <1>1, <4>2, <4>3, LineMade
    <3> QED
      BY <3>1, <3>2, <3>5, <3>6
  <2>5. ASSUME NEW c \in Channels, NEW d \in Nat, Lined(c, d)
        PROVE  Lined(c, d)'
    <3>1. CASE c = r
      BY <2>4, <2>5, <3>1
    <3>2. CASE c # r
      BY <1>2, <1>3, <2>2, <2>5, <3>2, LineStays
    <3> QED
      BY <3>1, <3>2
  <2>6. Head(q) \in Queued(r)
    BY <1>1, <1>5, <2>1, QueueMoves
  <2>7. Stream!Number(Head(q)) <= sent[r]
    BY <1>1, <2>6 DEF DeliveryInv, HandedKept, Complete
  <2>8. got'[r] = Stream!Number(Head(q))
    BY <1>1, <1>2, <2>2
  <2>9. Delivers(r)
    BY <1>1, <2>2, <2>3, <2>4, <2>7, <2>8 DEF Delivers
  <2> QED
    BY <2>5, <2>9
<1> QED
  BY <1>4, <1>5

\* The message handler gives the posted message to the promise, or queues it last.
LEMMA HandlerKeepsLine ==
  ASSUME IInv, DeliveryInv, Owner!InStreamMessageHandler
  PROVE  /\ \A c \in Channels, d \in Nat : Lined(c, d) => Lined(c, d)'
         /\ got' = got \/ Delivers(Head(posted).ch)
<1>1. PICK m : m = Head(posted)
  OBVIOUS
<1>2. posted # <<>> /\ m # Stream!Error /\ posted' = Tail(posted) /\ stopped' = stopped
  BY <1>1 DEF Owner!InStreamMessageHandler, Owner!Error, Stream!Error
<1>3. posted' = <<>> /\ m \in Posted /\ m \in Stream!Finished
  BY <1>1, <1>2, OutcomeTaken
<1>4. m.ch \in Channels /\ Stream!Number(m) \in Nat
  BY <1>3, FinishedHasNumber
<1>5. PICK k \in Channels : k = m.ch
  BY <1>4
<1>6. got \in [Channels -> Nat] /\ messageQueue \in [Channels -> Seq(Stream!Finished)]
      /\ promiseQueue \in [Channels -> 0..MaxPromises]
  BY DEF IInv, TypeOK, Stream!InStreamTypeOK
<1>7. \A c \in Channels : Here(c)' = 0 /\ Here(c) = IF c = k THEN 1 ELSE 0
  BY <1>1, <1>2, <1>3, <1>5 DEF Here
<1>8. \/ /\ promiseQueue[k] > 0 /\ messageQueue' = messageQueue
         /\ got' = [got EXCEPT ![k] = Stream!Number(m)]
      \/ /\ promiseQueue[k] = 0 /\ got' = got
         /\ messageQueue' = [messageQueue EXCEPT ![k] = Append(messageQueue[k], m)]
  BY <1>1, <1>5 DEF Owner!InStreamMessageHandler, Owner!Number, Stream!Number
<1>9. ASSUME NEW c \in Channels, NEW d \in Nat, Lined(c, d), c # k
      PROVE  Lined(c, d)'
  <2>1. got'[c] = got[c] /\ messageQueue'[c] = messageQueue[c]
    BY <1>6, <1>8, <1>9
  <2> QED
    BY <1>2, <1>7, <1>9, <2>1, LineStays
<1>10. CASE promiseQueue[k] > 0
  <2>1. k \in Receivers /\ k \notin Intercepted
    BY <1>5, <1>6, <1>10, ReadersAssumption DEF DeliveryInv, WaitersReceive
  <2>2. messageQueue[k] = <<>>
    BY <1>10 DEF IInv, NoWaiterBesideMessage
  <2>3. /\ messageQueue' = messageQueue /\ got' = [got EXCEPT ![k] = Stream!Number(m)]
        /\ got'[k] = Stream!Number(m)
    BY <1>6, <1>8, <1>10
  <2>4. Len(messageQueue[k]) = 0
    BY <2>2
  <2>5. ASSUME NEW d \in Nat, Lined(k, d)
        PROVE  /\ Lined(k, d)' /\ got[k] < Stream!Number(m)
               /\ ~stopped => Stream!Number(m) = got[k] + 1
    <3>1. PICK b \in Int :
            /\ b = d - Len(messageQueue[k]) - Here(k)
            /\ got[k] <= b /\ (~stopped => got[k] = b)
            /\ Here(k) = 1 => Stream!Number(Head(posted)) = d
      BY <2>1, <2>5, LineRead
    <3>2. b = d - 1 /\ Stream!Number(m) = d
      BY <1>1, <1>7, <2>4, <3>1
    <3>3. d = d - Len(messageQueue'[k]) - Here(k)'
      BY <1>7, <2>3, <2>4
    <3>4. got[k] \in Nat
      BY <1>6
    <3>5. Lined(k, d)'
      <4>1. \A i \in 1..Len(messageQueue'[k]) :
              Stream!Number(messageQueue'[k][i]) = d + i
        BY <2>3, <2>4
      <4>2. got'[k] <= d /\ (~stopped' => got'[k] = d) /\ Here(k)' # 1
        BY <1>7, <2>3, <3>2
      <4> QED
        BY <2>1, <3>3, <4>1, <4>2, LineMade
    <3> QED
      BY <3>1, <3>2, <3>4, <3>5
  <2>6. PICK e \in Nat : Lined(k, e)
    BY DEF DeliveryInv, ChannelKept
  <2>7. Stream!Number(m) <= sent[k]
    BY <1>2, <1>3, <1>5 DEF DeliveryInv, HandedKept, Complete
  <2>8. Delivers(k)
    BY <2>3, <2>5, <2>6, <2>7 DEF Delivers
  <2> QED
    BY <1>1, <1>5, <1>9, <2>5, <2>8
<1>11. CASE promiseQueue[k] = 0
  <2>1. PICK q \in Seq(Stream!Finished) : q = messageQueue[k]
    BY <1>6
  <2>2. got' = got /\ messageQueue'[k] = Append(q, m)
    BY <1>6, <1>8, <1>11, <2>1
  <2>3. ASSUME NEW d \in Nat, Lined(k, d)
        PROVE  Lined(k, d)'
    <3>1. CASE k \in Intercepted
      BY <2>2, <2>3, <3>1 DEF Lined
    <3>2. CASE k \notin Intercepted
      <4>1. PICK b \in Int :
              /\ b = d - Len(q) - Here(k)
              /\ got[k] <= b /\ (~stopped => got[k] = b)
              /\ \A i \in 1..Len(q) : Stream!Number(q[i]) = b + i
              /\ Here(k) = 1 => Stream!Number(Head(posted)) = d
        BY <2>1, <2>3, <3>2, LineRead
      <4>2. Len(q) \in Nat
        BY LenProperties
      <4>3. b = d - Len(q) - 1 /\ Stream!Number(m) = d
        BY <1>1, <1>7, <4>1
      <4>4. Stream!Number(m) = b + Len(q) + 1
        BY <4>2, <4>3
      <4>5. /\ Len(Append(q, m)) = Len(q) + 1
            /\ \A i \in 1..Len(Append(q, m)) : Stream!Number(Append(q, m)[i]) = b + i
        BY <1>3, <4>1, <4>4, LineGrows
      <4>6. b = d - Len(messageQueue'[k]) - Here(k)'
        BY <1>7, <2>2, <4>2, <4>3, <4>5
      <4>7. got'[k] <= b /\ (~stopped' => got'[k] = b) /\ Here(k)' # 1
        BY <1>2, <1>7, <2>2, <4>1
      <4>8. \A i \in 1..Len(messageQueue'[k]) : Stream!Number(messageQueue'[k][i]) = b + i
        BY <2>2, <4>5
      <4> QED
        BY <3>2, <4>6, <4>7, <4>8, LineMade
    <3> QED
      BY <3>1, <3>2
  <2> QED
    BY <1>9, <2>2, <2>3
<1> QED
  BY <1>6, <1>10, <1>11

\* Rejection and stop: what waits is told off, what is queued is thrown away.
LEMMA EndingsKeepLine ==
  ASSUME IInv, DeliveryInv, Owner!RejectReceivePromiseQueue \/ Owner!Stop
  PROVE  /\ \A c \in Channels, d \in Nat : Lined(c, d) => Lined(c, d)'
         /\ got' = got
<1>1. CASE Owner!RejectReceivePromiseQueue
  <2>1. /\ posted # <<>> /\ Head(posted) = Stream!Error /\ posted' = Tail(posted)
        /\ UNCHANGED <<messageQueue, stopped, got>>
    BY <1>1 DEF Owner!RejectReceivePromiseQueue, Owner!Error, Stream!Error
  <2>2. posted' = <<>>
    BY <2>1, OutcomeTaken
  <2>3. \A c \in Channels : Here(c)' = 0 /\ Here(c) = 0
    BY <2>1, <2>2, LineTypes DEF Here
  <2> QED
    BY <2>1, <2>3, LineStays
<1>2. CASE Owner!Stop
  <2>1. /\ stopped' /\ UNCHANGED <<posted, got>>
        /\ messageQueue' = [c \in Channels |-> <<>>]
    BY <1>2 DEF Owner!Stop
  <2>2. ASSUME NEW c \in Channels, NEW d \in Nat, Lined(c, d)
        PROVE  Lined(c, d)'
    <3>1. CASE c \in Intercepted
      BY <2>1, <2>2, <3>1 DEF Lined
    <3>2. CASE c \notin Intercepted
      <4>1. PICK b \in Int :
              /\ b = d - Len(messageQueue[c]) - Here(c) /\ got[c] <= b
              /\ Here(c) = 1 => Stream!Number(Head(posted)) = d
        BY <2>2, <3>2, LineRead
      <4>2. /\ Len(messageQueue'[c]) = 0 /\ Here(c)' = Here(c)
            /\ messageQueue'[c] = <<>>
        BY <2>1 DEF Here
      <4>3. Len(messageQueue[c]) \in Nat /\ Here(c) \in {0, 1} /\ got[c] \in Nat
        BY LineTypes
      <4>4. PICK e \in Int : e = d - Len(messageQueue'[c]) - Here(c)'
        BY <4>2, <4>3
      <4>5. got'[c] <= e
        BY <2>1, <4>1, <4>2, <4>3, <4>4
      <4>6. \A i \in 1..Len(messageQueue'[c]) : Stream!Number(messageQueue'[c][i]) = e + i
        BY <4>2
      <4> QED
        BY <2>1, <3>2, <4>1, <4>2, <4>4, <4>5, <4>6, LineMade
    <3> QED
      BY <3>1, <3>2
  <2> QED
    BY <2>1, <2>2
<1> QED
  BY <1>1, <1>2

\* Every step of the messenger.
LEMMA MessengerKeepsDelivery ==
  ASSUME IInv, DeliveryInv, MessengerStep
  PROVE  /\ DeliveryInv'
         /\ got' = got \/ \E c \in Channels : Delivers(c)
<1>1. UNCHANGED <<requests, message, messageBuffer, wire, session, sent, framesSent>>
  BY DEF MessengerStep, inStreamVars, phoneVars
<1>2. /\ \A c \in Channels, d \in Nat : Lined(c, d) => Lined(c, d)'
      /\ got' = got \/ \E c \in Channels : Delivers(c)
  BY EnqueueKeepsLine, HandlerKeepsLine, EndingsKeepLine
     DEF MessengerStep, Owner!MessengerNext, Delivers
<1>3. ChannelKept'
  <2> SUFFICES ASSUME NEW c \in Channels
               PROVE  \E d \in Nat : /\ Lined(c, d)'
                                     /\ Reader(wire', c, Begun(c)', Phone(c)', d, session')
    BY DEF ChannelKept
  <2>1. PICK d \in Nat : Lined(c, d) /\ Reader(wire, c, Begun(c), Phone(c), d, session)
    BY DEF DeliveryInv, ChannelKept
  <2>2. Begun(c)' = Begun(c) /\ Phone(c)' = Phone(c)
    BY <1>1 DEF Begun, InFrame, Phone
  <2>3. Lined(c, d)'
    BY <1>2, <2>1
  <2> QED
    BY <1>1, <2>1, <2>2, <2>3
<1>4. HandedKept'
  BY <1>1, MessengerMoves, HandedStays
<1>5. WaitersReceive'
  <2>1. promiseQueue \in [Channels -> 0..MaxPromises]
    BY DEF IInv, TypeOK
  <2>2. \A c \in Channels \ Receivers : promiseQueue[c] = 0
    BY DEF DeliveryInv, WaitersReceive
  <2>3. ASSUME NEW r \in Receivers, Owner!EnqueueReceive(r)
        PROVE  WaitersReceive'
    BY <2>1, <2>2, <2>3 DEF Owner!EnqueueReceive, WaitersReceive
  <2>4. ASSUME Owner!InStreamMessageHandler
        PROVE  WaitersReceive'
    <3>1. PICK k : k = Head(posted).ch
      OBVIOUS
    <3>2. \/ promiseQueue[k] > 0 /\ promiseQueue' = [promiseQueue EXCEPT ![k] = @ - 1]
          \/ promiseQueue' = promiseQueue
      BY <2>4, <3>1 DEF Owner!InStreamMessageHandler
    <3>3. \A c \in Channels \ Receivers : promiseQueue'[c] = 0
      BY <2>1, <2>2, <3>2
    <3> QED
      BY <3>3 DEF WaitersReceive
  <2>5. ASSUME Owner!RejectReceivePromiseQueue \/ Owner!Stop
        PROVE  WaitersReceive'
    BY <2>2, <2>5 DEF Owner!RejectReceivePromiseQueue, Owner!Stop, WaitersReceive
  <2> QED
    BY <2>3, <2>4, <2>5 DEF MessengerStep, Owner!MessengerNext
<1> QED
  BY <1>1, <1>2, <1>3, <1>4, <1>5 DEF DeliveryInv, WireKept

\* Every step of the receive path keeps what delivery keeps.
LEMMA NextDelivery ==
  ASSUME ~LosesFrames, IInv, FrameInv, DeliveryInv, [Next]_vars
  PROVE  DeliveryInv'
<1>1. CASE InStreamStep
  <2>1. UNCHANGED <<ownerVars, phoneVars>>
    BY <1>1 DEF InStreamStep
  <2>2. ~Stream!Desynchronised
    BY NotDesynchronised
  <2> QED
    BY <1>1, <2>1, <2>2, HeaderKeepsDelivery, RejectKeepsDelivery,
       DecryptFailsKeepsDelivery, StoredKeepsDelivery, EndKeepsDelivery
       DEF InStreamStep, Stream!InStreamNext, Stream!ReceiveFramePayloadHandler
<1>2. CASE ~InStreamStep
  BY <1>2, SendKeepsDelivery, FailureKeepsDelivery, MessengerKeepsDelivery DEF Next
<1> QED
  BY <1>1, <1>2

(***************************************************************************)
(* Whatever the channels and the frames of a run, and however they are     *)
(* interleaved, a message handed to the interceptor or to a channel is one *)
(* message of that channel, all of its frames and no other's               *)
(* (MessageInStream.cpp:58-110, 130-182).                                  *)
(***************************************************************************)
THEOREM MessagesAreWhole ==
  ASSUME MaxPromises = 1, ~LosesFrames
  PROVE  Spec => []WholeMessages
<1>1. Init => FrameInv /\ DeliveryInv
  BY InitFrame, InitDelivery
<1>2. IInv /\ FrameInv /\ DeliveryInv /\ [Next]_vars => FrameInv' /\ DeliveryInv'
  BY NextFrame, NextDelivery
<1>3. IInv /\ FrameInv /\ DeliveryInv => WholeMessages
  <2> SUFFICES ASSUME IInv, FrameInv, DeliveryInv, NEW m \in HandedOut PROVE IsWhole(m)
    BY DEF WholeMessages
  <2>1. CASE m \in Completing
    BY <2>1, CompletingFacts, AssembledIsComplete DEF Complete
  <2>2. CASE m \notin Completing
    BY <2>2 DEF HandedOut, DeliveryInv, HandedKept, Posted, Queued, Complete
  <2> QED
    BY <2>1, <2>2
<1> QED
  BY <1>1, <1>2, <1>3, Invariance, PTL DEF Spec

(***************************************************************************)
(* Every step of the receive path is a step of the delivery it promises,   *)
(* or none: a frame that ends a message sends it, a message shown to the   *)
(* interceptor or given to a promise is the next one of its channel.       *)
(***************************************************************************)
LEMMA StepRefines ==
  ASSUME ~LosesFrames, IInv, IInv', FrameInv, DeliveryInv, [Next]_vars
  PROVE  [Delivery!Next]_<<sent, got, stopped>>
<1>1. /\ sent \in [Channels -> Nat] /\ got \in [Channels -> Nat]
      /\ got' \in [Channels -> Nat]
  BY DEF IInv, TypeOK, Stream!InStreamTypeOK
<1>2. ASSUME NEW c \in Channels, Delivers(c), UNCHANGED <<sent, stopped>>
      PROVE  Delivery!Deliver(c)
  <2>1. got'[c] \in got[c] + 1 .. sent[c]
    BY <1>1, <1>2 DEF Delivers
  <2> QED
    BY <1>2, <2>1 DEF Delivers, Delivery!Deliver
<1>3. CASE \E c \in Channels, type \in Stream!FrameTypes : SendFrame(c, type)
  <2>1. PICK c \in Channels, type \in Stream!FrameTypes : SendFrame(c, type)
    BY <1>3
  <2>2. CASE type \in {"LAST", "BULK"}
    BY <2>1, <2>2 DEF SendFrame, ownerVars, Delivery!Send, Delivery!Next
  <2>3. CASE type \notin {"LAST", "BULK"}
    BY <1>1, <2>1, <2>3 DEF SendFrame, ownerVars
  <2> QED
    BY <2>2, <2>3
<1>4. CASE SessionFails \/ UNCHANGED vars
  BY <1>4 DEF SessionFails, vars, ownerVars, phoneVars
<1>5. CASE InStreamStep
  <2>1. UNCHANGED <<ownerVars, phoneVars>> /\ sent' = sent /\ stopped' = stopped
    BY <1>5 DEF InStreamStep, ownerVars, phoneVars
  <2>2. CASE Stream!MessageIntercepted \/ Stream!MessageResolved
    <3>1. CASE got' = got
      BY <2>1, <3>1
    <3>2. CASE got' # got
      <4>1. /\ message.ch \in Intercepted
            /\ got' = [got EXCEPT ![message.ch] = got[message.ch] + 1]
            /\ got[message.ch] + 1 <= sent[message.ch]
        BY <2>1, <2>2, <3>2, EndKeepsDelivery
      <4>2. PICK c \in Channels : c = message.ch
        BY <4>1, ReadersAssumption
      <4>3. got'[c] = got[c] + 1 /\ got[c] < got'[c]
        BY <1>1, <4>1, <4>2
      <4>4. Delivers(c)
        BY <4>1, <4>2, <4>3 DEF Delivers
      <4> QED
        BY <1>2, <2>1, <4>4 DEF Delivery!Next
    <3> QED
      BY <3>1, <3>2
  <2>3. CASE ~(Stream!MessageIntercepted \/ Stream!MessageResolved)
    <3>1. got' = got
      BY <1>5, <2>3 DEF InStreamStep, Stream!InStreamNext, Stream!StartReceive,
         Stream!ReceiveFrameHeaderHandler, Stream!ReceiveFrameSizeHandler,
         Stream!ReceiveFramePayloadHandler, Stream!DecryptFails, Stream!MessageStored,
         Stream!TransportRejects, Stream!Desynchronised
    <3> QED
      BY <2>1, <3>1
  <2> QED
    BY <2>2, <2>3
<1>6. CASE MessengerStep
  <2>1. sent' = sent
    BY <1>6 DEF MessengerStep, phoneVars
  <2>2. CASE stopped' = stopped
    <3>1. got' = got \/ \E c \in Channels : Delivers(c)
      BY <1>6, MessengerKeepsDelivery
    <3> QED
      BY <1>2, <2>1, <2>2, <3>1 DEF Delivery!Next
  <2>3. CASE stopped' # stopped
    <3>1. Owner!Stop
      BY <1>6, <2>3 DEF MessengerStep, Owner!MessengerNext, Owner!EnqueueReceive,
         Owner!InStreamMessageHandler, Owner!RejectReceivePromiseQueue
    <3> QED
      BY <2>1, <3>1 DEF Owner!Stop, Delivery!Discard, Delivery!Next
  <2> QED
    BY <2>2, <2>3
<1> QED
  BY <1>3, <1>4, <1>5, <1>6 DEF Next

(***************************************************************************)
(* The receive path implements one queue per channel, for any channels and *)
(* bounds: each message reaches its reader once and in order, and none is  *)
(* skipped before the queues are thrown away.                              *)
(***************************************************************************)
THEOREM DeliversInOrder ==
  ASSUME MaxPromises = 1, ~LosesFrames
  PROVE  Spec => ImplementsDelivery
<1>1. Init => FrameInv /\ DeliveryInv
  BY InitFrame, InitDelivery
<1>2. IInv /\ FrameInv /\ DeliveryInv /\ [Next]_vars => FrameInv' /\ DeliveryInv'
  BY NextFrame, NextDelivery
<1>3. Init => Delivery!Init
  BY DEF Init, Stream!InStreamInit, Owner!MessengerInit, Delivery!Init
<1>4. IInv /\ IInv' /\ FrameInv /\ DeliveryInv /\ [Next]_vars
        => [Delivery!Next]_<<sent, got, stopped>>
  BY StepRefines
<1> QED
  BY <1>1, <1>2, <1>3, <1>4, Invariance, PTL
     DEF Spec, ImplementsDelivery, Delivery!Spec
=============================================================================
