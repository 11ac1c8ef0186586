------------------------------- MODULE WireFormat -------------------------------
(***************************************************************************)
(* What a frame is in bytes: the header, the size, and the payload, which  *)
(* begins with the id of the message.  The writers of MessageOutStream.cpp *)
(* and MessageSender.cpp make such a frame; MessageInStream.cpp reads it   *)
(* back part by part.  The other modules have a frame as a record.         *)
(***************************************************************************)
EXTENDS Integers, Sequences

Byte == {n \in Nat : n < 256}
Word == 65536

\* boost::endian: the low 16 or 32 bits of a number, the highest byte first.
NativeToBig16(n) == <<(n \div 256) % 256, n % 256>>
NativeToBig32(n) == NativeToBig16(n \div Word) \o NativeToBig16(n)

BigToNative16(data) == 256 * data[1] + data[2]
BigToNative32(data) == Word * BigToNative16(data) + 256 * data[3] + data[4]

-----------------------------------------------------------------------------
\* The bits of the second byte of a header.
FrameTypes == [MIDDLE |-> 0, FIRST |-> 1, LAST |-> 2, BULK |-> 3]
MessageTypes == [SPECIFIC |-> 0, CONTROL |-> 4]
EncryptionTypes == [PLAIN |-> 0, ENCRYPTED |-> 8]

\* The name of a value of one of these types.
Name(types, n) == CHOOSE name \in DOMAIN types : types[name] = n

Headers == [channelId : Byte, frameType : DOMAIN FrameTypes,
            messageType : DOMAIN MessageTypes, encryptionType : DOMAIN EncryptionTypes]

\* FrameHeader::getData: the three types have no bit in common.
HeaderData(h) ==
    <<h.channelId, FrameTypes[h.frameType] + MessageTypes[h.messageType]
                       + EncryptionTypes[h.encryptionType]>>

\* The FrameHeader of a buffer; bits above the fourth are not looked at.
FrameHeader(data) ==
    [channelId |-> data[1],
     frameType |-> Name(FrameTypes, data[2] % 4),
     messageType |-> Name(MessageTypes, 4 * ((data[2] \div 4) % 2)),
     encryptionType |-> Name(EncryptionTypes, 8 * ((data[2] \div 8) % 2))]

\* What precedes the payload of a first frame also has the size of the message.
FrameSizeType(frameType) == IF frameType = "FIRST" THEN "EXTENDED" ELSE "SHORT"
SizeOf(type) == IF type = "EXTENDED" THEN 6 ELSE 2

\* FrameSize::getData, which cuts the sizes off at 16 and at 32 bits.
SizeData(s) ==
    NativeToBig16(s.frameSize) \o
    IF s.type = "EXTENDED" THEN NativeToBig32(s.totalSize) ELSE <<>>

\* The FrameSize of a buffer.
FrameSize(data) ==
    IF Len(data) >= 6
    THEN [type |-> "EXTENDED", frameSize |-> BigToNative16(data),
          totalSize |-> BigToNative32(SubSeq(data, 3, 6))]
    ELSE [type |-> "SHORT", frameSize |-> BigToNative16(data),
          totalSize |-> BigToNative16(data)]

-----------------------------------------------------------------------------
\* setFrameSize: the size is that of the payload as it was encrypted.
SetFrameSize(frameType, payload, total) ==
    SizeData([type |-> FrameSizeType(frameType), frameSize |-> Len(payload),
              totalSize |-> IF frameType = "FIRST" THEN total ELSE 0])

CompoundFrame(h, payload, total) ==
    HeaderData(h) \o SetFrameSize(h.frameType, payload, total) \o payload

\* The three reads of the reader, each as long as the part before it says.
HeaderOf(bytes) == FrameHeader(SubSeq(bytes, 1, 2))
SizeEnd(bytes) == 2 + SizeOf(FrameSizeType(HeaderOf(bytes).frameType))
SizeOfPayload(bytes) == FrameSize(SubSeq(bytes, 3, SizeEnd(bytes))).frameSize
PayloadOf(bytes) == SubSeq(bytes, SizeEnd(bytes) + 1, SizeEnd(bytes) + SizeOfPayload(bytes))

-----------------------------------------------------------------------------
\* insertPayload of a MessageId and of what it announces.
Message(id, data) == NativeToBig16(id) \o data

MessageId(payload) == BigToNative16(payload)

\* A DataConstBuffer from an offset on: one past the end is taken for none.
DataConstBuffer(data, offset) ==
    IF offset > Len(data) THEN data ELSE SubSeq(data, offset + 1, Len(data))
=============================================================================
