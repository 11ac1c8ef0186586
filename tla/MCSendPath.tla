------------------------------ MODULE MCSendPath ------------------------------
(***************************************************************************)
(* The loads of the send path that are checked: a message of each writer   *)
(* that may be split in three, and several messages of one writer.  Before *)
(* that the bytes of a frame, at the sizes where a number of them changes. *)
(***************************************************************************)
EXTENDS SendPath

Load(messenger, sender, size) ==
    [count |-> [w \in Writers |-> IF w = "messenger" THEN messenger ELSE sender],
     size |-> size]

MCLoads == {Load(1, 1, 5), Load(0, 2, 4), Load(0, 3, 2), Load(3, 0, 3)}

-----------------------------------------------------------------------------
Wire == INSTANCE WireFormat

MCPayload(n) == [i \in 1..n |-> i % 256]
MCLengths == {0, 1, 2, 5, 255, 256, 257}

\* A frame as it is written is read back as it was, and its length is what the
\* reader asks for (FrameReadsBack of TransportProofs, for every value).
ASSUME FrameReadsBack ==
    \A h \in [channelId : {0, 3, 255}, frameType : DOMAIN Wire!FrameTypes,
              messageType : DOMAIN Wire!MessageTypes,
              encryptionType : DOMAIN Wire!EncryptionTypes],
       n \in MCLengths, total \in {70000, 2000000000} :
        LET frame == Wire!CompoundFrame(h, MCPayload(n), total)
        IN  /\ Wire!HeaderOf(frame) = h
            /\ Wire!PayloadOf(frame) = MCPayload(n)
            /\ Len(frame) = Wire!SizeEnd(frame) + n

\* So is a message: its id, and what follows the id.
ASSUME MessageReadsBack ==
    \A id \in {0, 1, 255, 256, 65535}, n \in MCLengths :
        LET payload == Wire!Message(id, MCPayload(n))
        IN  /\ Wire!MessageId(payload) = id
            /\ Wire!DataConstBuffer(payload, 2) = MCPayload(n)
=============================================================================
