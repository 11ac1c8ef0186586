--------------------------- MODULE TransportReceive ---------------------------
(***************************************************************************)
(* The receive side of the transport (Transport/Transport.cpp with         *)
(* Transport/DataSink.cpp, and enqueueReceive of TCPTransport.cpp and      *)
(* USBTransport.cpp).                                                      *)
(*                                                                         *)
(* receive(size) promises the next size bytes of the stream.  The data     *)
(* sink reserves a chunk behind the bytes it holds, the endpoint writes    *)
(* into it, and the chunk is cut to what came.  Each handler runs on       *)
(* receiveStrand_ and is one action; the endpoint writes whenever it likes *)
(* and posts its result there.                                             *)
(*                                                                         *)
(* The bytes of the stream are numbered from 1, so that one out of place   *)
(* shows.  0 is a byte that was reserved and not written.                  *)
(***************************************************************************)
EXTENDS Naturals, Sequences, Functions

CONSTANTS
    Chunk,     \* cChunkSize
    Sizes,     \* sizes asked for; a frame without payload asks for 0
    MaxBytes,  \* bound: bytes the phone sends
    MaxQueue   \* bound: receives outstanding

ASSUME TransportReceiveAssumption ==
    /\ Chunk \in Nat \ {0}
    /\ Sizes \subseteq Nat
    /\ MaxBytes \in Nat
    /\ MaxQueue \in Nat

VARIABLES
    receiveQueue,  \* receiveQueue_: the sizes asked for, oldest first
    data,          \* data_ of the data sink
    reads,         \* transfers the endpoint has been given and not finished
    results,       \* results posted on receiveStrand_: bytes written or Failed
    arrived,       \* bytes of the stream the endpoint has written
    handed,        \* history: every byte handed to a promise, in order
    rejected       \* rejectReceivePromises has run

receiveVars == <<receiveQueue, data, reads, results, arrived, handed, rejected>>

Failed == Chunk + 1
Reserved == [i \in 1..Chunk |-> 0]

\* Bytes the first k promises of a queue ask for.
Total(queue, k) == FoldFunctionOnSet(+, 0, queue, 1..k)

Asked == Len(handed) + Total(receiveQueue, Len(receiveQueue))

-----------------------------------------------------------------------------
\* Mutant: one promise is resolved and the rest wait for the next read.
DistributeOnce(queue, held) ==
    \/ /\ queue # <<>>
       /\ Len(held) >= queue[1]
       /\ handed' = handed \o SubSeq(held, 1, queue[1])
       /\ receiveQueue' = Tail(queue)
       /\ data' = SubSeq(held, queue[1] + 1, Len(held))
       /\ UNCHANGED reads
    \/ /\ queue # <<>>
       /\ Len(held) < queue[1]
       /\ data' = held \o Reserved
       /\ reads' = reads + 1
       /\ receiveQueue' = queue
       /\ UNCHANGED handed

(***************************************************************************)
(* The loop of distributeReceivedData over the queue, with the bytes held: *)
(* it resolves promises while the bytes last, and, when it meets one they  *)
(* do not last for, reserves a chunk and starts a read.                    *)
(***************************************************************************)
DistributeReceivedData(queue, held) ==
    \E k \in 0..Len(queue), n \in 0..Len(held) :
        LET rest == SubSeq(held, n + 1, Len(held))
        IN  /\ n = Total(queue, k)
            /\ k < Len(queue) => Len(rest) < queue[k + 1]
            /\ handed' = handed \o SubSeq(held, 1, n)
            /\ receiveQueue' = SubSeq(queue, k + 1, Len(queue))
            /\ \/ /\ k < Len(queue)
                  /\ data' = rest \o Reserved     \* DataSink::fill
                  /\ reads' = reads + 1
               \/ /\ k = Len(queue)
                  /\ data' = rest
                  /\ UNCHANGED reads

\* Mutant: every receive starts a read of its own.
ReceiveAlwaysDistributes(size) ==
    /\ ~rejected
    /\ Len(receiveQueue) < MaxQueue
    /\ Asked + size <= MaxBytes
    /\ DistributeReceivedData(Append(receiveQueue, size), data)
    /\ UNCHANGED <<results, arrived, rejected>>

\* A caller whose promise was rejected ends its session and does not ask again.
Receive(size) ==
    /\ ~rejected
    /\ Len(receiveQueue) < MaxQueue
    /\ Asked + size <= MaxBytes
    /\ \/ /\ receiveQueue = <<>>
          /\ DistributeReceivedData(<<size>>, data)
       \/ /\ receiveQueue # <<>>
          /\ receiveQueue' = Append(receiveQueue, size)
          /\ UNCHANGED <<data, reads, handed>>
    /\ UNCHANGED <<results, arrived, rejected>>

\* The endpoint: some bytes come, or the transfer fails.  What a failed one
\* wrote is lost.
ReadCompletes(n) ==
    /\ reads > 0
    /\ arrived + n <= MaxBytes
    /\ reads' = reads - 1
    /\ arrived' = arrived + n
    /\ data' = [i \in DOMAIN data |->
                  LET j == i - (Len(data) - Chunk)
                  IN  IF i > Len(data) - Chunk /\ j <= n THEN arrived + j ELSE data[i]]
    /\ results' = Append(results, n)
    /\ UNCHANGED <<receiveQueue, handed, rejected>>

ReadFails ==
    /\ reads > 0
    /\ reads' = reads - 1
    /\ results' = Append(results, Failed)
    /\ UNCHANGED <<receiveQueue, data, arrived, handed, rejected>>

\* DataSink::commit keeps the n bytes that were written.
Commit(n) == SubSeq(data, 1, Len(data) - (Chunk - n))

\* Mutant: the whole chunk is kept.
CommitWholeChunk(n) ==
    /\ results # <<>> /\ n = Head(results) /\ n # Failed
    /\ results' = Tail(results)
    /\ DistributeReceivedData(receiveQueue, data)
    /\ UNCHANGED <<arrived, rejected>>

ReceiveHandler(n) ==
    /\ results # <<>> /\ n = Head(results) /\ n # Failed
    /\ results' = Tail(results)
    /\ DistributeReceivedData(receiveQueue, Commit(n))
    /\ UNCHANGED <<arrived, rejected>>

RejectReceivePromises ==
    /\ results # <<>> /\ Head(results) = Failed
    /\ results' = Tail(results)
    /\ receiveQueue' = <<>>
    /\ rejected' = TRUE
    /\ UNCHANGED <<data, reads, arrived, handed>>

-----------------------------------------------------------------------------
ReceiveInit ==
    /\ receiveQueue = <<>>
    /\ data = <<>>
    /\ reads = 0
    /\ results = <<>>
    /\ arrived = 0
    /\ handed = <<>>
    /\ rejected = FALSE

ReceiveNext ==
    \/ \E size \in Sizes : Receive(size)
    \/ \E n \in 0..Chunk : ReadCompletes(n) \/ ReceiveHandler(n)
    \/ ReadFails
    \/ RejectReceivePromises

ReceiveSpec == ReceiveInit /\ [][ReceiveNext]_receiveVars

\* The phone goes on sending, so transfers do not end empty for ever, and the
\* strand runs what is posted on it.
ReceiveFairness ==
    /\ SF_receiveVars(\E n \in 1..Chunk : ReadCompletes(n))
    /\ WF_receiveVars((\E n \in 0..Chunk : ReceiveHandler(n)) \/ RejectReceivePromises)

-----------------------------------------------------------------------------
\* Type invariant of Transport's receive members and its data sink
\* (Transport.hpp:54-57); reads is never negative, so no transfer ends twice.
ReceiveTypeOK ==
    /\ receiveQueue \in Seq(Nat)
    /\ data \in Seq(Nat)
    /\ reads \in Nat
    /\ results \in Seq(0..Failed)
    /\ arrived \in Nat
    /\ handed \in Seq(Nat)
    /\ rejected \in BOOLEAN

(***************************************************************************)
(* One transfer is outstanding while a promise waits and none otherwise:   *)
(* the chunk the endpoint writes into is never moved or reserved twice,    *)
(* and a promise is never left without a read (Transport.cpp:28-45,        *)
(* 60-84).                                                                 *)
(***************************************************************************)
OneReadAtATime ==
    reads + Len(results) = IF receiveQueue = <<>> THEN 0 ELSE 1

(***************************************************************************)
(* The promises are given the bytes of the stream in order, none twice,    *)
(* none skipped and none that was reserved but not received, however the   *)
(* transfers cut the stream (DataSink.cpp:30-60, Transport.cpp:47-76).     *)
(***************************************************************************)
BytesInOrder == \A i \in 1..Len(handed) : handed[i] = i

(***************************************************************************)
(* Once the bytes a receive waits for have come it is resolved: none of    *)
(* them stays in the data sink while its promise waits for more, unless    *)
(* the endpoint fails (Transport.cpp:60-76).                               *)
(***************************************************************************)
EventuallyHanded ==
    \A n \in 1..MaxBytes : Asked >= n ~> (Len(handed) >= n \/ rejected)
=============================================================================
