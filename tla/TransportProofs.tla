---------------------------- MODULE TransportProofs ----------------------------
(***************************************************************************)
(* The transport for any chunk, sizes, lengths and chains: its receive     *)
(* side, its send side and the promises it settles, each with an inductive *)
(* invariant of its own, and the three together.  At the end what the      *)
(* bytes stand for: every frame and message that is written is read back.  *)
(***************************************************************************)
EXTENDS Transport, WireFormat, SequenceTheorems, TLAPS

(***************************************************************************)
(* The receive side.  The invariant says which bytes of the data sink are  *)
(* filled: all of them while no promise waits, all but the reserved chunk  *)
(* while a read is out, and those of the chunk that were written once its  *)
(* result is posted.  They are the bytes of the stream that follow those   *)
(* handed out.                                                             *)
(***************************************************************************)

\* The first n bytes of the data sink follow those handed out, and are all that
\* came.
Filled(n) ==
    /\ n \in 0..Len(data)
    /\ \A i \in 1..n : data[i] = Len(handed) + i
    /\ arrived = Len(handed) + n

SinkInv ==
    /\ reads = 0 /\ results = <<>> /\ ~rejected => Filled(Len(data))
    /\ reads = 1 => Len(data) >= Chunk /\ Filled(Len(data) - Chunk)
    /\ results # <<>> /\ Head(results) # Failed =>
          Len(data) >= Chunk /\ Filled(Len(data) - Chunk + Head(results))
    /\ rejected => receiveQueue = <<>>

ReceiveIInv == ReceiveTypeOK /\ OneReadAtATime /\ SinkInv /\ BytesInOrder

-----------------------------------------------------------------------------
\* Initially the data sink is empty.
LEMMA ReceiveInitInv == ReceiveInit => ReceiveIInv
<1>. SUFFICES ASSUME ReceiveInit PROVE ReceiveIInv
  OBVIOUS
<1>1. ReceiveTypeOK
  <2>1. \A S : <<>> \in Seq(S)
    OBVIOUS
  <2>. QED
    BY <2>1 DEF ReceiveInit, ReceiveTypeOK
<1>2. Filled(0) /\ Len(data) = 0
  BY DEF ReceiveInit, Filled
<1>. QED
  BY <1>1, <1>2 DEF ReceiveIInv, ReceiveInit, OneReadAtATime, SinkInv, BytesInOrder

\* The chunk that fill reserves.
LEMMA ReservedChunk == Reserved \in Seq(Nat) /\ Len(Reserved) = Chunk
BY TransportReceiveAssumption DEF Reserved

\* The two parts of a sequence cut after n elements.
LEMMA Cut ==
    ASSUME NEW S, NEW seq \in Seq(S), NEW n \in 0..Len(seq)
    PROVE  /\ SubSeq(seq, 1, n) \in Seq(S) /\ Len(SubSeq(seq, 1, n)) = n
           /\ \A i \in 1..n : SubSeq(seq, 1, n)[i] = seq[i]
           /\ SubSeq(seq, n + 1, Len(seq)) \in Seq(S)
           /\ Len(SubSeq(seq, n + 1, Len(seq))) = Len(seq) - n
           /\ \A i \in 1..Len(seq) - n : SubSeq(seq, n + 1, Len(seq))[i] = seq[n + i]
<1>1. /\ 1 \in Int /\ n \in Int /\ n + 1 \in Int /\ Len(seq) \in Int /\ n <= Len(seq)
      /\ Len(seq) \in Nat /\ n \in Nat
      /\ \A i \in 1..n : seq[i] \in S
      /\ \A i \in n + 1..Len(seq) : seq[i] \in S
  OBVIOUS
<1>2. /\ SubSeq(seq, 1, n) \in Seq(S)
      /\ Len(SubSeq(seq, 1, n)) = IF 1 <= n THEN n - 1 + 1 ELSE 0
      /\ \A i \in 1..n - 1 + 1 : SubSeq(seq, 1, n)[i] = seq[1 + i - 1]
  BY <1>1, SubSeqProperties
<1>3. /\ SubSeq(seq, n + 1, Len(seq)) \in Seq(S)
      /\ Len(SubSeq(seq, n + 1, Len(seq))) = IF n + 1 <= Len(seq) THEN Len(seq) - (n + 1) + 1 ELSE 0
      /\ \A i \in 1..Len(seq) - (n + 1) + 1 :
            SubSeq(seq, n + 1, Len(seq))[i] = seq[n + 1 + i - 1]
  BY <1>1, SubSeqProperties
<1>. QED
  BY <1>1, <1>2, <1>3

(***************************************************************************)
(* Distributing bytes that follow those handed out hands out the next ones *)
(* in order, keeps the rest, and starts a read exactly if a promise is     *)
(* left, wherever the loop stops.                                          *)
(***************************************************************************)
LEMMA Distributes ==
    ASSUME NEW queue \in Seq(Nat), NEW held \in Seq(Nat), handed \in Seq(Nat), reads = 0,
           \A i \in 1..Len(held) : held[i] = Len(handed) + i,
           arrived = Len(handed) + Len(held), BytesInOrder,
           DistributeReceivedData(queue, held), arrived' = arrived
    PROVE  /\ handed' \in Seq(Nat) /\ receiveQueue' \in Seq(Nat) /\ data' \in Seq(Nat)
           /\ BytesInOrder'
           /\ \/ reads' = 0 /\ receiveQueue' = <<>> /\ Filled(Len(data))'
              \/ /\ reads' = 1 /\ receiveQueue' # <<>>
                 /\ Len(data') >= Chunk /\ Filled(Len(data) - Chunk)'
<1>1. PICK k \in 0..Len(queue), n \in 0..Len(held) :
        /\ handed' = handed \o SubSeq(held, 1, n)
        /\ receiveQueue' = SubSeq(queue, k + 1, Len(queue))
        /\ \/ /\ k < Len(queue)
              /\ data' = SubSeq(held, n + 1, Len(held)) \o Reserved
              /\ reads' = reads + 1
           \/ /\ k = Len(queue)
              /\ data' = SubSeq(held, n + 1, Len(held))
              /\ reads' = reads
  BY DEF DistributeReceivedData
<1>. DEFINE given == SubSeq(held, 1, n)
            rest == SubSeq(held, n + 1, Len(held))
<1>2. /\ given \in Seq(Nat) /\ Len(given) = n
      /\ \A i \in 1..n : given[i] = held[i]
      /\ rest \in Seq(Nat) /\ Len(rest) = Len(held) - n
      /\ \A i \in 1..Len(held) - n : rest[i] = held[n + i]
  <2>1. held \in Seq(Nat) /\ n \in 0..Len(held)
    OBVIOUS
  <2>2. \A m \in 0..Len(held) :
          /\ SubSeq(held, 1, m) \in Seq(Nat) /\ Len(SubSeq(held, 1, m)) = m
          /\ \A i \in 1..m : SubSeq(held, 1, m)[i] = held[i]
          /\ SubSeq(held, m + 1, Len(held)) \in Seq(Nat)
          /\ Len(SubSeq(held, m + 1, Len(held))) = Len(held) - m
          /\ \A i \in 1..Len(held) - m : SubSeq(held, m + 1, Len(held))[i] = held[m + i]
    <3>. TAKE m \in 0..Len(held)
    <3>. QED
      BY Cut, Zenon
  <2>. QED
    BY <2>1, <2>2, Zenon
<1>3. /\ receiveQueue' \in Seq(Nat)
      /\ k < Len(queue) => receiveQueue' # <<>>
      /\ k = Len(queue) => receiveQueue' = <<>>
  <2>1. receiveQueue' \in Seq(Nat) /\ Len(receiveQueue') = Len(queue) - k
    BY <1>1, Cut
  <2>. QED
    BY <2>1
<1>4. /\ handed' = handed \o given
      /\ \/ k < Len(queue) /\ data' = rest \o Reserved /\ reads' = 1
         \/ k = Len(queue) /\ data' = rest /\ reads' = 0
  <2>1. reads + 1 = 1
    OBVIOUS
  <2>. QED
    BY <1>1, <2>1, Zenon
<1>. HIDE DEF given, rest
<1>5. /\ handed' \in Seq(Nat) /\ Len(handed') = Len(handed) + n
      /\ \A i \in 1..Len(handed) : handed'[i] = handed[i]
      /\ \A i \in 1..n : handed'[Len(handed) + i] = given[i]
  <2>1. /\ handed \o given \in Seq(Nat) /\ Len(handed \o given) = Len(handed) + Len(given)
        /\ \A i \in 1..Len(handed) + Len(given) : (handed \o given)[i] =
              IF i <= Len(handed) THEN handed[i] ELSE given[i - Len(handed)]
    BY <1>2, ConcatProperties, Zenon
  <2>2. /\ Len(handed) \in Nat /\ n \in Nat
        /\ \A i \in 1..n : /\ Len(handed) + i \in 1..Len(handed) + n
                           /\ ~ Len(handed) + i <= Len(handed)
                           /\ Len(handed) + i - Len(handed) = i
        /\ \A i \in 1..Len(handed) : i \in 1..Len(handed) + n /\ i <= Len(handed)
    OBVIOUS
  <2>. QED
    BY <1>2, <1>4, <2>1, <2>2
<1>6. BytesInOrder'
  <2>. SUFFICES ASSUME NEW i \in 1..Len(handed') PROVE handed'[i] = i
    BY DEF BytesInOrder
  <2>1. CASE i <= Len(handed)
    <3>1. i \in 1..Len(handed)
      BY <1>5, <2>1
    <3>. QED
      BY <1>5, <3>1 DEF BytesInOrder
  <2>2. CASE i > Len(handed)
    <3>1. i - Len(handed) \in 1..n /\ i - Len(handed) \in 1..Len(held)
      BY <1>5, <2>2
    <3>2. handed'[i] = given[i - Len(handed)]
      <4>1. Len(handed) + (i - Len(handed)) = i
        BY <1>5
      <4>. QED
        BY <1>5, <3>1, <4>1
    <3>3. given[i - Len(handed)] = held[i - Len(handed)]
      BY <1>2, <3>1
    <3>. QED
      BY <1>5, <3>1, <3>2, <3>3
  <2>. QED
    BY <2>1, <2>2
<1>7. /\ \A i \in 1..Len(rest) : rest[i] = Len(handed') + i
      /\ arrived' = Len(handed') + Len(rest) /\ Len(rest) \in Nat
  <2>1. \A i \in 1..Len(rest) : n + i \in 1..Len(held)
    BY <1>2
  <2>. QED
    BY <1>2, <1>5, <2>1
<1>8. CASE k = Len(queue)
  <2>1. data' = rest /\ reads' = 0
    BY <1>4, <1>8
  <2>2. Filled(Len(data))'
    BY <1>2, <1>7, <2>1 DEF Filled
  <2>. QED
    BY <1>2, <1>3, <1>5, <1>6, <1>8, <2>1, <2>2
<1>9. CASE k < Len(queue)
  <2>1. data' = rest \o Reserved /\ reads' = 1
    BY <1>4, <1>9
  <2>2. /\ data' \in Seq(Nat) /\ Len(data') = Len(rest) + Chunk
        /\ \A i \in 1..Len(rest) : data'[i] = rest[i]
    <3>1. /\ rest \o Reserved \in Seq(Nat)
          /\ Len(rest \o Reserved) = Len(rest) + Len(Reserved)
          /\ \A i \in 1..Len(rest) + Len(Reserved) : (rest \o Reserved)[i] =
                IF i <= Len(rest) THEN rest[i] ELSE Reserved[i - Len(rest)]
      BY <1>2, ReservedChunk, ConcatProperties, Zenon
    <3>2. \A i \in 1..Len(rest) : i \in 1..Len(rest) + Chunk /\ i <= Len(rest)
      BY <1>7, TransportReceiveAssumption
    <3>. QED
      BY <2>1, <3>1, <3>2, ReservedChunk, Zenon
  <2>3. Len(data') >= Chunk /\ Len(data') - Chunk = Len(rest) /\ Len(rest) \in 0..Len(data')
    BY <1>7, <2>2, TransportReceiveAssumption
  <2>4. Filled(Len(data) - Chunk)'
    BY <1>7, <2>2, <2>3 DEF Filled
  <2>. QED
    BY <1>3, <1>5, <1>6, <1>9, <2>1, <2>2, <2>3, <2>4
<1>. QED
  BY <1>1, <1>8, <1>9

-----------------------------------------------------------------------------
\* A receive starts a read when the queue was empty, and else waits its turn.
LEMMA ReceiveKeepsInv ==
    ASSUME ReceiveIInv, NEW size \in Sizes, Receive(size)
    PROVE  ReceiveIInv'
<1>1. /\ ReceiveTypeOK /\ OneReadAtATime /\ SinkInv /\ BytesInOrder
      /\ size \in Nat /\ ~rejected
      /\ results' = results /\ arrived' = arrived /\ rejected' = rejected
  BY TransportReceiveAssumption DEF ReceiveIInv, Receive
<1>2. CASE receiveQueue = <<>> /\ DistributeReceivedData(<<size>>, data)
  <2>1. reads = 0 /\ results = <<>>
    BY <1>1, <1>2 DEF OneReadAtATime, ReceiveTypeOK
  <2>2. Filled(Len(data))
    BY <1>1, <2>1 DEF SinkInv
  <2>3. <<size>> \in Seq(Nat)
    BY <1>1
  <2>4. /\ handed' \in Seq(Nat) /\ receiveQueue' \in Seq(Nat) /\ data' \in Seq(Nat)
        /\ BytesInOrder'
        /\ \/ reads' = 0 /\ receiveQueue' = <<>> /\ Filled(Len(data))'
           \/ /\ reads' = 1 /\ receiveQueue' # <<>>
              /\ Len(data') >= Chunk /\ Filled(Len(data) - Chunk)'
    BY <1>1, <1>2, <2>1, <2>2, <2>3, Distributes DEF Filled, ReceiveTypeOK
  <2>5. ReceiveTypeOK'
    BY <1>1, <2>4 DEF ReceiveTypeOK
  <2>6. OneReadAtATime'
    BY <1>1, <2>1, <2>4 DEF OneReadAtATime
  <2>7. SinkInv'
    BY <1>1, <2>1, <2>4 DEF SinkInv
  <2>. QED
    BY <2>4, <2>5, <2>6, <2>7 DEF ReceiveIInv
<1>3. CASE /\ receiveQueue # <<>> /\ receiveQueue' = Append(receiveQueue, size)
           /\ UNCHANGED <<data, reads, handed>>
  <2>1. receiveQueue' \in Seq(Nat) /\ receiveQueue' # <<>>
    <3>1. receiveQueue \in Seq(Nat)
      BY <1>1 DEF ReceiveTypeOK
    <3>2. Append(receiveQueue, size) \in Seq(Nat) /\ Len(Append(receiveQueue, size)) # 0
      BY <1>1, <3>1
    <3>. QED
      BY <1>3, <3>2
  <2>2. ReceiveTypeOK'
    BY <1>1, <1>3, <2>1 DEF ReceiveTypeOK
  <2>3. OneReadAtATime' /\ SinkInv' /\ BytesInOrder'
    BY <1>1, <1>3, <2>1 DEF OneReadAtATime, SinkInv, BytesInOrder, Filled
  <2>. QED
    BY <2>2, <2>3 DEF ReceiveIInv
<1>. QED
  BY <1>2, <1>3 DEF Receive

\* While a read is out, no result is posted; once one is, no read is out.
LEMMA OneOrOther ==
    ASSUME ReceiveTypeOK, OneReadAtATime
    PROVE  /\ reads > 0 => reads = 1 /\ results = <<>> /\ receiveQueue # <<>>
           /\ results # <<>> => reads = 0 /\ Len(results) = 1 /\ receiveQueue # <<>>
<1>1. reads \in Nat /\ Len(results) \in Nat /\ (results # <<>> => Len(results) > 0)
  BY DEF ReceiveTypeOK
<1>2. Len(results) = 0 => results = <<>>
  BY DEF ReceiveTypeOK
<1>3. CASE receiveQueue = <<>>
  <2>1. reads + Len(results) = 0
    BY <1>3 DEF OneReadAtATime
  <2>. QED
    BY <1>1, <2>1
<1>4. CASE receiveQueue # <<>>
  <2>1. reads + Len(results) = 1
    BY <1>4 DEF OneReadAtATime
  <2>. QED
    BY <1>1, <1>2, <1>4, <2>1
<1>. QED
  BY <1>3, <1>4

\* The endpoint writes the first n bytes of the chunk: they follow those of the
\* data sink.
LEMMA ReadCompletesInv ==
    ASSUME ReceiveIInv, NEW n \in 0..Chunk, ReadCompletes(n)
    PROVE  ReceiveIInv'
<1>. USE TransportReceiveAssumption
<1>1. /\ ReceiveTypeOK /\ OneReadAtATime /\ SinkInv /\ BytesInOrder
      /\ reads = 1 /\ results = <<>> /\ receiveQueue # <<>>
      /\ reads' = 0 /\ arrived' = arrived + n /\ results' = <<n>>
      /\ receiveQueue' = receiveQueue /\ handed' = handed /\ rejected' = rejected
  BY OneOrOther DEF ReceiveIInv, ReadCompletes
<1>2. /\ Len(data) \in Nat /\ Len(data) >= Chunk /\ DOMAIN data = 1..Len(data)
      /\ data \in Seq(Nat) /\ arrived \in Nat /\ n \in Nat /\ Len(handed) \in Nat
      /\ Len(data) - Chunk \in Nat
      /\ Filled(Len(data) - Chunk)
  BY <1>1 DEF ReceiveTypeOK, SinkInv
<1>. DEFINE kept == Len(data) - Chunk
<1>3. data' = [i \in 1..Len(data) |->
                  IF i > kept /\ i - kept <= n THEN arrived + (i - kept) ELSE data[i]]
  BY <1>2 DEF ReadCompletes
<1>4. \A i \in 1..Len(data) :
         (IF i > kept /\ i - kept <= n THEN arrived + (i - kept) ELSE data[i]) \in Nat
  BY <1>2
<1>5. data' \in Seq(Nat) /\ Len(data') = Len(data)
  BY <1>2, <1>3, <1>4
<1>6. ReceiveTypeOK'
  <2>1. <<n>> \in Seq(0..Failed)
    BY DEF Failed
  <2>. QED
    BY <1>1, <1>2, <1>5, <2>1 DEF ReceiveTypeOK
<1>7. Filled(Len(data) - Chunk + n)'
  <2>1. kept + n \in 0..Len(data') /\ arrived' = Len(handed') + (kept + n)
    BY <1>1, <1>2, <1>5 DEF Filled
  <2>2. ASSUME NEW i \in 1..kept + n PROVE data'[i] = Len(handed') + i
    <3>1. i \in 1..Len(data)
      BY <1>2
    <3>2. CASE i > kept
      BY <1>1, <1>2, <1>3, <3>1, <3>2 DEF Filled
    <3>3. CASE i <= kept
      <4>1. i \in 1..kept /\ ~ i > kept
        BY <1>2, <3>3
      <4>2. data'[i] = data[i]
        BY <1>3, <3>1, <4>1
      <4>. QED
        BY <1>1, <1>2, <4>1, <4>2 DEF Filled
    <3>. QED
      BY <1>2, <3>2, <3>3
  <2>. QED
    BY <1>5, <2>1, <2>2 DEF Filled
<1>8. OneReadAtATime' /\ BytesInOrder'
  BY <1>1 DEF OneReadAtATime, BytesInOrder
<1>9. SinkInv'
  BY <1>1, <1>2, <1>5, <1>7 DEF SinkInv
<1>. QED
  BY <1>6, <1>8, <1>9 DEF ReceiveIInv

\* A failed transfer posts its failure and leaves the sink alone.
LEMMA ReadFailsInv ==
    ASSUME ReceiveIInv, ReadFails
    PROVE  ReceiveIInv'
<1>1. /\ ReceiveTypeOK /\ OneReadAtATime /\ SinkInv /\ BytesInOrder
      /\ reads = 1 /\ results = <<>> /\ receiveQueue # <<>>
      /\ reads' = 0 /\ results' = <<Failed>> /\ arrived' = arrived /\ data' = data
      /\ receiveQueue' = receiveQueue /\ handed' = handed /\ rejected' = rejected
  BY OneOrOther DEF ReceiveIInv, ReadFails
<1>2. <<Failed>> \in Seq(0..Failed)
  BY TransportReceiveAssumption DEF Failed
<1>3. ReceiveTypeOK'
  BY <1>1, <1>2 DEF ReceiveTypeOK
<1>. QED
  BY <1>1, <1>3 DEF ReceiveIInv, OneReadAtATime, SinkInv, BytesInOrder

\* The chunk is cut to what was written, and what the sink holds is given away.
LEMMA ReceiveHandlerInv ==
    ASSUME ReceiveIInv, NEW n \in 0..Chunk, ReceiveHandler(n)
    PROVE  ReceiveIInv'
<1>. USE TransportReceiveAssumption
<1>1. /\ ReceiveTypeOK /\ OneReadAtATime /\ SinkInv /\ BytesInOrder
      /\ results # <<>> /\ n = Head(results) /\ n # Failed
      /\ reads = 0 /\ Len(results) = 1 /\ receiveQueue # <<>>
      /\ results' = Tail(results) /\ arrived' = arrived /\ rejected' = rejected
      /\ DistributeReceivedData(receiveQueue, Commit(n))
  BY OneOrOther DEF ReceiveIInv, ReceiveHandler
<1>2. results' = <<>> /\ ~rejected /\ rejected \in BOOLEAN
  <2>1. results \in Seq(0..Failed) /\ rejected \in BOOLEAN
    BY <1>1 DEF ReceiveTypeOK
  <2>2. Tail(results) = <<>>
    BY <1>1, <2>1
  <2>3. ~rejected
    BY <1>1 DEF SinkInv
  <2>. QED
    BY <1>1, <2>1, <2>2, <2>3
<1>. DEFINE m == Len(data) - Chunk + n
<1>3. Len(data) >= Chunk /\ Filled(m)
  BY <1>1 DEF SinkInv
<1>4. m \in 0..Len(data) /\ Commit(n) = SubSeq(data, 1, m) /\ data \in Seq(Nat)
  <2>1. Len(data) - (Chunk - n) = m /\ data \in Seq(Nat)
    BY <1>1 DEF ReceiveTypeOK
  <2>. QED
    BY <1>3, <2>1 DEF Commit, Filled
<1>. HIDE DEF m
<1>5. /\ Commit(n) \in Seq(Nat) /\ Len(Commit(n)) = m
      /\ \A i \in 1..m : Commit(n)[i] = data[i]
  BY <1>4, Cut
<1>6. /\ handed' \in Seq(Nat) /\ receiveQueue' \in Seq(Nat) /\ data' \in Seq(Nat)
      /\ BytesInOrder'
      /\ \/ reads' = 0 /\ receiveQueue' = <<>> /\ Filled(Len(data))'
         \/ /\ reads' = 1 /\ receiveQueue' # <<>>
            /\ Len(data') >= Chunk /\ Filled(Len(data) - Chunk)'
  <2>1. /\ \A i \in 1..Len(Commit(n)) : Commit(n)[i] = Len(handed) + i
        /\ arrived = Len(handed) + Len(Commit(n))
    BY <1>3, <1>5 DEF Filled
  <2>2. receiveQueue \in Seq(Nat) /\ handed \in Seq(Nat)
    BY <1>1 DEF ReceiveTypeOK
  <2>. QED
    BY <1>1, <1>5, <2>1, <2>2, Distributes
<1>7. ReceiveTypeOK'
  BY <1>1, <1>2, <1>6 DEF ReceiveTypeOK
<1>8. OneReadAtATime'
  BY <1>2, <1>6 DEF OneReadAtATime
<1>9. SinkInv'
  <2>1. rejected' = FALSE /\ results' = <<>>
    BY <1>1, <1>2
  <2>. QED
    BY <1>6, <2>1 DEF SinkInv
<1>. QED
  BY <1>6, <1>7, <1>8, <1>9 DEF ReceiveIInv

\* All promises are rejected: nothing is received after that.
LEMMA RejectReceivePromisesInv ==
    ASSUME ReceiveIInv, RejectReceivePromises
    PROVE  ReceiveIInv'
<1>1. /\ ReceiveTypeOK /\ OneReadAtATime /\ BytesInOrder
      /\ reads = 0 /\ Len(results) = 1 /\ results' = Tail(results)
      /\ receiveQueue' = <<>> /\ rejected' = TRUE
      /\ data' = data /\ reads' = reads /\ arrived' = arrived /\ handed' = handed
  BY OneOrOther DEF ReceiveIInv, RejectReceivePromises
<1>2. results' = <<>>
  BY <1>1 DEF ReceiveTypeOK
<1>3. ReceiveTypeOK'
  <2>1. \A S : <<>> \in Seq(S)
    OBVIOUS
  <2>. QED
    BY <1>1, <1>2, <2>1 DEF ReceiveTypeOK
<1>. QED
  BY <1>1, <1>2, <1>3 DEF ReceiveIInv, OneReadAtATime, SinkInv, BytesInOrder

LEMMA ReceiveNextInv == ReceiveIInv /\ [ReceiveNext]_receiveVars => ReceiveIInv'
<1>. SUFFICES ASSUME ReceiveIInv, [ReceiveNext]_receiveVars PROVE ReceiveIInv'
  OBVIOUS
<1>1. CASE ReceiveNext
  BY <1>1, ReceiveKeepsInv, ReadCompletesInv, ReadFailsInv, ReceiveHandlerInv,
     RejectReceivePromisesInv DEF ReceiveNext
<1>2. CASE UNCHANGED receiveVars
  BY <1>2 DEF ReceiveIInv, ReceiveTypeOK, OneReadAtATime, SinkInv, Filled, BytesInOrder, receiveVars
<1>. QED
  BY <1>1, <1>2

(***************************************************************************)
(* For any chunk size and any sizes asked for: one transfer is outstanding *)
(* while a promise waits and none otherwise (Transport.cpp:28-45, 60-84).  *)
(***************************************************************************)
THEOREM ReadsOneByOne == ReceiveSpec => []OneReadAtATime
<1>1. ReceiveIInv => OneReadAtATime
  BY DEF ReceiveIInv
<1>. QED
  BY <1>1, ReceiveInitInv, ReceiveNextInv, PTL DEF ReceiveSpec

(***************************************************************************)
(* And the promises are given the bytes of the stream in order, however    *)
(* the transfers cut it (DataSink.cpp:30-60, Transport.cpp:47-76).         *)
(***************************************************************************)
THEOREM BytesAreInOrder == ReceiveSpec => []BytesInOrder
<1>1. ReceiveIInv => BytesInOrder
  BY DEF ReceiveIInv
<1>. QED
  BY <1>1, ReceiveInitInv, ReceiveNextInv, PTL DEF ReceiveSpec

-----------------------------------------------------------------------------
(***************************************************************************)
(* The send side.  The last byte written is where the transfer of the      *)
(* first element stands, over USB and over TCP.                            *)
(***************************************************************************)

PieceBytes == [id : 1..MaxElements, no : 1..MaxLength]
Promises == [len : 1..MaxLength, promise : {"waiting", "resolved", "rejected"}]

\* SendTypeOK in three parts.
QueueTypes == sendQueue \in Seq(Elements) /\ sent \in Seq(Promises)

CountTypes ==
    /\ usb \in BOOLEAN
    /\ offset \in 0..MaxLength - 1
    /\ transfer \in {"idle", "pending", "done", "failed"}
    /\ moved \in 0..MaxLength

OutType == out \in Seq(PieceBytes)

\* The elements that wait are the last that were sent, in their order.
QueueInv ==
    /\ Len(sent) <= MaxElements
    /\ transfer = "idle" <=> sendQueue = <<>>
    /\ Len(sendQueue) <= Len(sent)
    /\ \A i \in 1..Len(sendQueue) : sendQueue[i].id = Len(sent) - Len(sendQueue) + i

\* The element whose turn it is, also when it is not sent yet.
First == Len(sent) - Len(sendQueue) + 1

\* The last byte written is byte n of element q, or of an element before it.
Written(q, n) ==
    /\ n > 0 => out # <<>> /\ out[Len(out)].id = q /\ out[Len(out)].no = n
    /\ n = 0 /\ out # <<>> => out[Len(out)].id < q

OffsetInv ==
    /\ transfer = "idle" => Written(First, 0)
    /\ transfer = "pending" =>
          offset < Head(sendQueue).len /\ Written(First, offset)
    /\ transfer \in {"done", "failed"} =>
          offset + moved <= Head(sendQueue).len /\ Written(First, offset + moved)

SendIInv ==
    /\ QueueTypes /\ CountTypes /\ OutType
    /\ QueueInv /\ OffsetInv
    /\ ElementsInOrder

-----------------------------------------------------------------------------
\* Initially nothing is sent.
LEMMA SendInitInv == ASSUME SendInit PROVE SendIInv
<1>1. \A S : <<>> \in Seq(S)
  OBVIOUS
<1>2. QueueTypes /\ OutType
  BY <1>1 DEF SendInit, QueueTypes, OutType
<1>3. CountTypes
  BY TransportSendAssumption DEF SendInit, CountTypes
<1>4. QueueInv
  BY TransportSendAssumption DEF SendInit, QueueInv
<1>5. OffsetInv
  BY DEF SendInit, OffsetInv, Written
<1>6. ElementsInOrder
  BY DEF SendInit, ElementsInOrder
<1>. QED
  BY <1>2, <1>3, <1>4, <1>5, <1>6 DEF SendIInv

LEMMA LastByte == ASSUME OutType, out # <<>> PROVE out[Len(out)].id \in Nat
<1>1. out \in Seq(PieceBytes) /\ Len(out) \in 1..Len(out)
  BY DEF OutType
<1>2. out[Len(out)] \in PieceBytes
  BY <1>1
<1>. QED
  BY <1>2, TransportSendAssumption DEF PieceBytes

\* The bytes after the first ones of an element, written behind these, keep the
\* order; the last of them is the last one written.
LEMMA Writes ==
    ASSUME OutType, ElementsInOrder,
           NEW e, e.id \in 1..MaxElements, NEW first \in Nat, NEW n \in Nat,
           first + n <= MaxLength, Written(e.id, first), out' = out \o Piece(e, first, n)
    PROVE  OutType' /\ ElementsInOrder' /\ Written(e.id, first + n)'
<1>. DEFINE piece == Piece(e, first, n)
<1>1. /\ piece \in Seq(PieceBytes) /\ Len(piece) = n
      /\ \A i \in 1..n : piece[i].id = e.id /\ piece[i].no = first + i
  <2>1. \A i \in 1..n : [id |-> e.id, no |-> first + i] \in PieceBytes
    BY TransportSendAssumption DEF PieceBytes
  <2>2. piece = [i \in 1..n |-> [id |-> e.id, no |-> first + i]]
    BY DEF Piece
  <2>3. piece \in [1..n -> PieceBytes]
    BY <2>1, <2>2
  <2>4. piece \in Seq(PieceBytes) /\ Len(piece) = n
    <3>. HIDE DEF piece
    <3>1. DOMAIN piece = 1..n
      BY <2>3
    <3>2. piece \in Seq(PieceBytes)
      <4>1. piece \in UNION {[1..m -> PieceBytes] : m \in Nat}
        BY <2>3
      <4>. QED
        BY <4>1, SeqDef, Zenon
    <3>3. DOMAIN piece = 1..Len(piece) /\ Len(piece) \in Nat
      BY <3>2, LenProperties, Zenon
    <3>. QED
      BY <3>1, <3>2, <3>3
  <2>5. \A i \in 1..n : piece[i].id = e.id /\ piece[i].no = first + i
    BY <2>2
  <2>. QED
    BY <2>4, <2>5
<1>2. /\ out \in Seq(PieceBytes) /\ Len(out) \in Nat /\ out' = out \o piece
      /\ out # <<>> <=> Len(out) > 0
  BY DEF OutType
<1>. HIDE DEF piece
<1>3. /\ out' \in Seq(PieceBytes) /\ Len(out') = Len(out) + n
      /\ \A i \in 1..Len(out) + n : out'[i] = IF i <= Len(out) THEN out[i] ELSE piece[i - Len(out)]
  <2>1. /\ out \o piece \in Seq(PieceBytes) /\ Len(out \o piece) = Len(out) + Len(piece)
        /\ \A i \in 1..Len(out) + Len(piece) :
              (out \o piece)[i] = IF i <= Len(out) THEN out[i] ELSE piece[i - Len(out)]
    BY <1>1, <1>2, ConcatProperties, Zenon
  <2>. QED
    BY <1>1, <1>2, <2>1, Zenon
<1>4. \A i \in 1..Len(out) : out'[i] = out[i]
  BY <1>2, <1>3
<1>5. \A i \in 1..n : out'[Len(out) + i].id = e.id /\ out'[Len(out) + i].no = first + i
  <2>. SUFFICES ASSUME NEW i \in 1..n
                PROVE  out'[Len(out) + i].id = e.id /\ out'[Len(out) + i].no = first + i
    OBVIOUS
  <2>1. /\ Len(out) + i \in 1..Len(out) + n /\ ~ Len(out) + i <= Len(out)
        /\ Len(out) + i - Len(out) = i
    BY <1>2
  <2>2. out'[Len(out) + i] = piece[i]
    BY <1>3, <2>1
  <2>. QED
    BY <1>1, <2>2
<1>6. OutType'
  BY <1>3 DEF OutType
<1>7. Written(e.id, first + n)'
  <2>1. CASE n = 0
    <3>1. Len(out') = Len(out) /\ first + n = first
      BY <2>1, <1>3, <1>2
    <3>2. out # <<>> => out'[Len(out')] = out[Len(out)]
      BY <3>1, <1>4, <1>2
    <3>3. out' # <<>> <=> out # <<>>
      BY <3>1, <1>2, <1>3
    <3>. QED
      BY <3>1, <3>2, <3>3 DEF Written
  <2>2. CASE n > 0
    <3>1. out'[Len(out')].id = e.id /\ out'[Len(out')].no = first + n
      BY <2>2, <1>3, <1>5
    <3>2. out' # <<>> /\ first + n > 0
      BY <2>2, <1>2, <1>3
    <3>. QED
      BY <3>1, <3>2 DEF Written
  <2>. QED
    BY <2>1, <2>2
<1>8. ElementsInOrder'
  <2>. SUFFICES ASSUME NEW i \in 1..Len(out')
                PROVE  IF i > 1 /\ out'[i - 1].id = out'[i].id
                       THEN out'[i].no = out'[i - 1].no + 1
                       ELSE out'[i].no = 1 /\ (i > 1 => out'[i - 1].id < out'[i].id)
    BY DEF ElementsInOrder
  <2>1. CASE i <= Len(out)
    <3>1. i \in 1..Len(out) /\ (i > 1 => i - 1 \in 1..Len(out))
      BY <2>1, <1>2, <1>3
    <3>2. out'[i] = out[i] /\ (i > 1 => out'[i - 1] = out[i - 1])
      BY <3>1, <1>4
    <3>. QED
      BY <3>1, <3>2 DEF ElementsInOrder
  <2>2. CASE i = Len(out) + 1
    <3>1. out'[i].id = e.id /\ out'[i].no = first + 1
      <4>1. 1 \in 1..n
        BY <2>2, <1>2, <1>3
      <4>. QED
        BY <2>2, <4>1, <1>5
    <3>2. i > 1 => /\ out # <<>> /\ out'[i - 1] = out[Len(out)]
                   /\ out[Len(out)].id \in Nat
      <4>1. i > 1 => Len(out) \in 1..Len(out) /\ i - 1 = Len(out)
        BY <2>2, <1>2
      <4>. QED
        BY <4>1, <1>2, <1>4, LastByte
    <3>3. CASE first = 0
      BY <3>1, <3>2, <3>3 DEF Written
    <3>4. CASE first > 0
      <4>1. i > 1
        BY <2>2, <3>4, <1>2 DEF Written
      <4>. QED
        BY <3>1, <3>2, <3>4, <4>1 DEF Written
    <3>. QED
      BY <3>3, <3>4
  <2>3. CASE i > Len(out) + 1
    <3>1. /\ i - Len(out) \in 1..n /\ Len(out) + (i - Len(out)) = i
          /\ i - 1 - Len(out) \in 1..n /\ Len(out) + (i - 1 - Len(out)) = i - 1
          /\ i > 1
      BY <2>3, <1>2, <1>3
    <3>2. /\ out'[i].id = e.id /\ out'[i].no = first + (i - Len(out))
          /\ out'[i - 1].id = e.id /\ out'[i - 1].no = first + (i - 1 - Len(out))
      BY <3>1, <1>5
    <3>. QED
      BY <3>1, <3>2, <1>2
  <2>. QED
    BY <2>1, <2>2, <2>3, <1>2, <1>3
<1>. QED
  BY <1>6, <1>7, <1>8

\* What is known of the first element of the queue.
LEMMA HeadOfQueue ==
    ASSUME QueueTypes, QueueInv, sendQueue # <<>>
    PROVE  /\ Head(sendQueue).id = First /\ Head(sendQueue).len \in 1..MaxLength
           /\ First \in 1..Len(sent) /\ First \in 1..MaxElements
           /\ Tail(sendQueue) \in Seq(Elements)
           /\ Len(Tail(sendQueue)) = Len(sendQueue) - 1
           /\ \A i \in 1..Len(sendQueue) - 1 : Tail(sendQueue)[i] = sendQueue[i + 1]
<1>1. /\ sendQueue \in Seq(Elements) /\ Len(sendQueue) \in Nat /\ Len(sendQueue) > 0
      /\ Len(sent) \in Nat
  BY DEF QueueTypes
<1>2. /\ Head(sendQueue) \in Elements /\ Tail(sendQueue) \in Seq(Elements)
      /\ Len(Tail(sendQueue)) = Len(sendQueue) - 1
      /\ \A i \in 1..Len(Tail(sendQueue)) : Tail(sendQueue)[i] = sendQueue[i + 1]
  BY <1>1, HeadTailProperties
<1>3. Head(sendQueue) = sendQueue[1] /\ 1 \in 1..Len(sendQueue)
  BY <1>1
<1>4. First = Len(sent) - Len(sendQueue) + 1 /\ First \in 1..Len(sent)
  BY <1>1 DEF First, QueueInv
<1>5. Head(sendQueue).id = First
  BY <1>3, <1>4 DEF QueueInv
<1>6. First \in 1..MaxElements
  BY <1>1, <1>4, TransportSendAssumption DEF QueueInv
<1>. QED
  BY <1>2, <1>4, <1>5, <1>6 DEF Elements

\* The next element's turn: no byte of it is written.
LEMMA FinishInv ==
    ASSUME SendIInv, sendQueue # <<>>, NEW n \in Nat, Written(First, n),
           NEW result \in {"resolved", "rejected"}, Finish(result),
           UNCHANGED <<usb, moved, out>>
    PROVE  SendIInv'
<1>. USE DEF SendIInv
<1>1. /\ Head(sendQueue).id = First /\ First \in 1..Len(sent)
      /\ Tail(sendQueue) \in Seq(Elements)
      /\ Len(Tail(sendQueue)) = Len(sendQueue) - 1
      /\ \A i \in 1..Len(sendQueue) - 1 : Tail(sendQueue)[i] = sendQueue[i + 1]
  BY HeadOfQueue
<1>2. /\ sendQueue' = Tail(sendQueue) /\ offset' = 0
      /\ transfer' = IF sendQueue' = <<>> THEN "idle" ELSE "pending"
      /\ sent' = [sent EXCEPT ![First].promise = result]
  BY <1>1 DEF Finish, EnqueueSend
<1>3. /\ sent' \in Seq(Promises) /\ Len(sent') = Len(sent) /\ Len(sent) \in Nat
      /\ Len(sendQueue) \in Nat /\ Len(sendQueue) > 0
  <2>1. sent \in Seq(Promises) /\ sent[First] \in Promises
    BY <1>1 DEF QueueTypes
  <2>2. [sent[First] EXCEPT !.promise = result] \in Promises
    BY <2>1 DEF Promises
  <2>3. sent' = [sent EXCEPT ![First] = [sent[First] EXCEPT !.promise = result]]
    BY <1>2
  <2>4. sent' \in Seq(Promises) /\ Len(sent') = Len(sent)
    BY <2>1, <2>2, <2>3, <1>1
  <2>. QED
    BY <2>4 DEF QueueTypes
<1>4. QueueTypes' /\ CountTypes' /\ OutType'
  BY <1>1, <1>2, <1>3, TransportSendAssumption DEF QueueTypes, CountTypes, OutType
<1>5. QueueInv'
  <2>1. \A i \in 1..Len(sendQueue') : sendQueue'[i].id = Len(sent') - Len(sendQueue') + i
    <3>. SUFFICES ASSUME NEW i \in 1..Len(sendQueue) - 1
                  PROVE  sendQueue[i + 1].id = Len(sent) - (Len(sendQueue) - 1) + i
      BY <1>1, <1>2, <1>3
    <3>1. i + 1 \in 1..Len(sendQueue)
      BY <1>3
    <3>2. sendQueue[i + 1].id = Len(sent) - Len(sendQueue) + (i + 1)
      BY <3>1 DEF QueueInv
    <3>. QED
      BY <1>3, <3>2
  <2>2. transfer' = "idle" <=> sendQueue' = <<>>
    BY <1>2
  <2>3. Len(sent') <= MaxElements /\ Len(sendQueue') <= Len(sent')
    BY <1>1, <1>2, <1>3 DEF QueueInv
  <2>. QED
    BY <2>1, <2>2, <2>3 DEF QueueInv
<1>6. First' = First + 1
  BY <1>1, <1>2, <1>3 DEF First
<1>7. Written(First, 0)'
  <2>1. out # <<>> => out[Len(out)].id <= First
    <3>1. out # <<>> => out[Len(out)].id \in Nat
      BY LastByte
    <3>2. First \in Nat
      BY <1>1
    <3>. QED
      BY <3>1, <3>2 DEF Written
  <2>2. out # <<>> => out[Len(out)].id \in Nat
    BY LastByte
  <2>3. out' = out /\ First \in Nat
    BY <1>1
  <2>. QED
    BY <1>6, <2>1, <2>2, <2>3 DEF Written
<1>8. OffsetInv'
  <2>1. sendQueue' # <<>> => Head(sendQueue').len \in 1..MaxLength
    <3>1. sendQueue' # <<>> => Head(sendQueue') \in Elements
      BY <1>1, <1>2, HeadTailProperties
    <3>. QED
      BY <3>1 DEF Elements
  <2>. QED
    BY <1>2, <1>7, <2>1 DEF OffsetInv
<1>9. ElementsInOrder'
  BY DEF ElementsInOrder
<1>. QED
  BY <1>4, <1>5, <1>8, <1>9

-----------------------------------------------------------------------------
\* A new element goes to the end of the queue, and is the first if it is empty.
LEMMA SendKeepsInv ==
    ASSUME SendIInv, NEW len \in 1..MaxLength, Send(len) PROVE SendIInv'
<1>. USE DEF SendIInv
<1>. DEFINE element == [id |-> Len(sent) + 1, len |-> len]
            waiting == [len |-> len, promise |-> "waiting"]
<1>1. /\ Len(sent) < MaxElements /\ sent' = Append(sent, waiting)
      /\ \/ sendQueue = <<>> /\ sendQueue' = <<element>> /\ offset' = 0 /\ transfer' = "pending"
         \/ /\ sendQueue # <<>> /\ sendQueue' = Append(sendQueue, element)
            /\ UNCHANGED <<offset, transfer>>
      /\ UNCHANGED <<usb, moved, out>>
  BY DEF Send, EnqueueSend
<1>2. /\ Len(sent) \in Nat /\ sent \in Seq(Promises) /\ sendQueue \in Seq(Elements)
      /\ Len(sendQueue) \in Nat
  BY DEF QueueTypes
<1>3. waiting \in Promises /\ element \in Elements
  BY <1>1, <1>2, TransportSendAssumption DEF Promises, Elements
<1>4. sent' \in Seq(Promises) /\ Len(sent') = Len(sent) + 1
  BY <1>1, <1>2, <1>3
<1>5. sendQueue' = Append(sendQueue, element)
  <2>1. Append(<<>>, element) = <<element>>
    OBVIOUS
  <2>. QED
    BY <1>1, <2>1, Zenon
<1>6. /\ sendQueue' \in Seq(Elements) /\ Len(sendQueue') = Len(sendQueue) + 1
      /\ \A i \in 1..Len(sendQueue) : sendQueue'[i] = sendQueue[i]
      /\ sendQueue'[Len(sendQueue) + 1] = element
      /\ sendQueue' # <<>>
  BY <1>2, <1>3, <1>5, AppendProperties
<1>7. QueueTypes' /\ CountTypes' /\ OutType'
  BY <1>1, <1>4, <1>6, TransportSendAssumption DEF QueueTypes, CountTypes, OutType
<1>8. QueueInv'
  <2>1. \A i \in 1..Len(sendQueue') : sendQueue'[i].id = Len(sent') - Len(sendQueue') + i
    <3>. SUFFICES ASSUME NEW i \in 1..Len(sendQueue) + 1
                  PROVE  sendQueue'[i].id = Len(sent) - Len(sendQueue) + i
      BY <1>2, <1>4, <1>6
    <3>1. CASE i \in 1..Len(sendQueue)
      BY <3>1, <1>6 DEF QueueInv
    <3>2. CASE i = Len(sendQueue) + 1
      <4>1. sendQueue'[i].id = Len(sent) + 1
        BY <3>2, <1>6
      <4>. QED
        BY <3>2, <4>1, <1>2
    <3>. QED
      BY <3>1, <3>2, <1>2
  <2>2. transfer' # "idle"
    BY <1>1 DEF QueueInv
  <2>3. Len(sent') <= MaxElements /\ Len(sendQueue') <= Len(sent')
    BY <1>1, <1>2, <1>4, <1>6, TransportSendAssumption DEF QueueInv
  <2>. QED
    BY <1>6, <2>1, <2>2, <2>3 DEF QueueInv
<1>9. First' = First /\ First \in Int
  BY <1>2, <1>4, <1>6 DEF First
<1>10. \A n \in Nat : Written(First, n) => Written(First, n)'
  BY <1>1, <1>9 DEF Written
<1>11. OffsetInv'
  <2>1. CASE sendQueue = <<>>
    <3>1. Written(First, 0)'
      BY <2>1, <1>10 DEF QueueInv, OffsetInv
    <3>2. Head(sendQueue') = element
      BY <1>1, <2>1
    <3>. QED
      BY <1>1, <2>1, <3>1, <3>2 DEF OffsetInv
  <2>2. CASE sendQueue # <<>>
    <3>1. Head(sendQueue') = Head(sendQueue)
      BY <2>2, <1>2, <1>5
    <3>2. offset \in Nat /\ offset + moved \in Nat
      BY DEF CountTypes
    <3>3. UNCHANGED <<offset, moved, transfer>>
      BY <1>1, <2>2
    <3>4. transfer' = "pending" => offset' < Head(sendQueue').len /\ Written(First, offset)'
      BY <3>1, <3>2, <3>3, <1>10 DEF OffsetInv
    <3>5. transfer' \in {"done", "failed"} =>
             offset' + moved' <= Head(sendQueue').len /\ Written(First, offset + moved)'
      BY <3>1, <3>2, <3>3, <1>10 DEF OffsetInv
    <3>6. transfer' # "idle"
      BY <3>3, <2>2 DEF QueueInv
    <3>. QED
      BY <3>4, <3>5, <3>6 DEF OffsetInv
  <2>. QED
    BY <2>1, <2>2
<1>12. ElementsInOrder'
  BY <1>1 DEF ElementsInOrder
<1>. QED
  BY <1>7, <1>8, <1>11, <1>12

\* A transfer writes the next bytes of the first element.
LEMMA TransferInv ==
    ASSUME SendIInv, NEW n \in 0..MaxLength, NEW result \in {"done", "failed"},
           TransferEnds(n, result)
    PROVE  SendIInv'
<1>. USE DEF SendIInv
<1>1. /\ transfer = "pending" /\ n <= Head(sendQueue).len - offset
      /\ transfer' = result /\ moved' = n
      /\ out' = out \o Piece(Head(sendQueue), offset, n)
      /\ UNCHANGED <<usb, sendQueue, offset, sent>>
  BY DEF TransferEnds
<1>2. sendQueue # <<>>
  BY <1>1 DEF QueueInv
<1>3. /\ Head(sendQueue).id = First /\ Head(sendQueue).len \in 1..MaxLength
      /\ First \in 1..MaxElements
  BY <1>2, HeadOfQueue
<1>4. offset \in Nat /\ n \in Nat /\ offset + n <= Head(sendQueue).len
      /\ offset + n <= MaxLength
  BY <1>1, <1>3, TransportSendAssumption DEF CountTypes
<1>5. Written(Head(sendQueue).id, offset)
  BY <1>1, <1>3 DEF OffsetInv
<1>6. OutType' /\ ElementsInOrder' /\ Written(Head(sendQueue).id, offset + n)'
  <2>. DEFINE e == Head(sendQueue)
  <2>1. e' = e /\ offset' = offset
    BY <1>1
  <2>2. e.id \in 1..MaxElements
    BY <1>3
  <2>3. OutType' /\ ElementsInOrder' /\
        (/\ offset + n > 0 => out' # <<>> /\ out'[Len(out')].id = e.id
                              /\ out'[Len(out')].no = offset + n
         /\ offset + n = 0 /\ out' # <<>> => out'[Len(out')].id < e.id)
    BY <1>1, <1>4, <1>5, <2>2, Writes DEF Written
  <2>. QED
    BY <2>1, <2>3 DEF Written
<1>7. QueueTypes' /\ CountTypes'
  BY <1>1 DEF QueueTypes, CountTypes
<1>8. QueueInv'
  BY <1>1, <1>2 DEF QueueInv
<1>9. OffsetInv'
  <2>1. First' = First /\ Head(sendQueue') = Head(sendQueue) /\ offset' + moved' = offset + n
    BY <1>1 DEF First
  <2>. QED
    BY <1>1, <1>3, <1>4, <1>6, <2>1 DEF OffsetInv, Written
<1>. QED
  BY <1>6, <1>7, <1>8, <1>9

\* The rest is sent from where the transfer ended, or the element is done.
LEMMA HandlerInv == ASSUME SendIInv, SendHandler PROVE SendIInv'
<1>. USE DEF SendIInv
<1>1. transfer = "done" /\ sendQueue # <<>> /\ UNCHANGED <<usb, moved, out>>
  BY DEF SendHandler, QueueInv
<1>2. offset \in Nat /\ moved \in Nat /\ offset + moved \in Nat
  BY DEF CountTypes
<1>3. Written(First, offset + moved)
  BY <1>1 DEF OffsetInv
<1>4. CASE /\ offset + moved < Head(sendQueue).len
           /\ offset' = offset + moved
           /\ transfer' = "pending"
           /\ UNCHANGED <<sendQueue, sent>>
  <2>1. Head(sendQueue).len \in 1..MaxLength
    BY <1>1, HeadOfQueue
  <2>2. QueueTypes' /\ CountTypes' /\ OutType'
    BY <1>1, <1>2, <1>4, <2>1, TransportSendAssumption DEF QueueTypes, CountTypes, OutType
  <2>3. QueueInv'
    BY <1>1, <1>4 DEF QueueInv
  <2>4. Written(First, offset)'
    BY <1>1, <1>3, <1>4 DEF Written, First
  <2>5. OffsetInv'
    BY <1>4, <2>4 DEF OffsetInv
  <2>6. ElementsInOrder'
    BY <1>1 DEF ElementsInOrder
  <2>. QED
    BY <2>2, <2>3, <2>5, <2>6
<1>5. CASE Finish("resolved")
  BY <1>1, <1>2, <1>3, <1>5, FinishInv
<1>. QED
  BY <1>4, <1>5 DEF SendHandler

LEMMA FailsInv == ASSUME SendIInv, SendFails PROVE SendIInv'
<1>1. transfer = "failed" /\ sendQueue # <<>>
  BY DEF SendFails, SendIInv, QueueInv
<1>2. offset + moved \in Nat
  BY DEF SendIInv, CountTypes
<1>3. Written(First, offset + moved)
  BY <1>1 DEF SendIInv, OffsetInv
<1>. QED
  BY <1>1, <1>2, <1>3, FinishInv DEF SendFails

-----------------------------------------------------------------------------
LEMMA SendNextInv == SendIInv /\ [SendNext]_sendVars => SendIInv'
<1>. SUFFICES ASSUME SendIInv, [SendNext]_sendVars PROVE SendIInv'
  OBVIOUS
<1>1. CASE \E len \in 1..MaxLength : Send(len)
  BY <1>1, SendKeepsInv
<1>2. CASE \E n \in 0..MaxLength, result \in {"done", "failed"} : TransferEnds(n, result)
  BY <1>2, TransferInv
<1>3. CASE SendHandler
  BY <1>3, HandlerInv
<1>4. CASE SendFails
  BY <1>4, FailsInv
<1>5. CASE UNCHANGED sendVars
  BY <1>5 DEF sendVars, SendIInv, QueueTypes, CountTypes, OutType, QueueInv, OffsetInv,
              First, Written, ElementsInOrder
<1>. QED
  BY <1>1, <1>2, <1>3, <1>4, <1>5 DEF SendNext

\* The inductive invariant holds in every reachable state.
THEOREM SendInvariance == SendSpec => []SendIInv
  BY SendInitInv, SendNextInv, PTL DEF SendSpec

(***************************************************************************)
(* Whatever parts the transfers move and whichever fail, the device gets   *)
(* the elements in the order of the send calls, none inside another, each  *)
(* from its first byte on without a gap or a repetition                    *)
(* (USBTransport.cpp:43-74, TCPTransport.cpp:41-70).                       *)
(***************************************************************************)
THEOREM ElementsAreInOrder == SendSpec => []ElementsInOrder
<1>1. SendIInv => ElementsInOrder
  BY DEF SendIInv
<1>. QED
  BY <1>1, SendInvariance, PTL

LEMMA SendTypes == SendIInv => SendTypeOK
  BY DEF SendIInv, QueueTypes, CountTypes, OutType, SendTypeOK, Promises, PieceBytes

\* The queue, its offset and its transfer keep their types (Transport.hpp:60): no
\* transfer is asked for nothing.
THEOREM SendTypeCorrect == SendSpec => []SendTypeOK
  BY SendInvariance, SendTypes, PTL

-----------------------------------------------------------------------------
(***************************************************************************)
(* A chain of promises.  The invariant says where the outcome is: while a  *)
(* promise is active, or its handler is posted, those behind it are        *)
(* untouched and the caller was told nothing.                              *)
(***************************************************************************)

\* Nothing has come as far as the promises behind p.
Untouched(p) ==
    /\ told = <<>>
    /\ \A q \in Chain : q > p => isActive[q] /\ posted[q] = <<>>

OneOutcome(p) ==
    /\ posted[p] \in {<<>>, <<called>>}
    /\ isActive[p] => posted[p] = <<>>
    /\ isActive[p] \/ posted[p] # <<>> => Untouched(p)

ChainIInv ==
    /\ ChainTypeOK
    /\ \A p \in Chain : OneOutcome(p)
    /\ called = "none" <=> isActive[1]
    /\ FirstCallWins

-----------------------------------------------------------------------------
\* Initially every promise is active and nothing is posted.
LEMMA ChainInitInv == ChainInit => ChainIInv
<1>1. 1 \in Chain
  BY LengthAssumption DEF Chain
<1>. SUFFICES ASSUME ChainInit PROVE ChainIInv
  OBVIOUS
<1>2. <<>> \in Seq(Results)
  OBVIOUS
<1>3. ChainTypeOK
  BY <1>2 DEF ChainInit, ChainTypeOK
<1>4. \A p \in Chain : OneOutcome(p)
  BY DEF ChainInit, OneOutcome, Untouched
<1>. QED
  BY <1>1, <1>3, <1>4 DEF ChainInit, ChainIInv, FirstCallWins

\* Settling a promise ends it and posts at most one handler, of the outcome
\* called for, and none when the promise was not active.
LEMMA SettleOnce ==
    ASSUME ChainTypeOK, NEW p \in Chain, NEW result \in Results,
           NEW queue \in [Chain -> Seq(Results)], Settle(p, result, queue)
    PROVE  /\ resolveHandler' \in [Chain -> BOOLEAN]
           /\ rejectHandler' \in [Chain -> BOOLEAN]
           /\ isActive' = [isActive EXCEPT ![p] = FALSE]
           /\ \/ posted' = queue
              \/ isActive[p] /\ posted' = [queue EXCEPT ![p] = Append(queue[p], result)]
<1>1. CASE Resolve(p, queue) /\ result = "resolved"
  BY <1>1 DEF Resolve, Post, ChainTypeOK
<1>2. CASE Reject(p, queue) /\ result = "rejected"
  BY <1>2 DEF Reject, Post, ChainTypeOK
<1>. QED
  BY <1>1, <1>2 DEF Settle

\* Setting handlers moves no outcome.
LEMMA ThenInv ==
    ASSUME ChainIInv, NEW p \in Chain, NEW rejects \in BOOLEAN, Then(p, rejects)
    PROVE  ChainIInv'
<1>1. ChainTypeOK'
  BY DEF ChainIInv, ChainTypeOK, Then
<1>. QED
  BY <1>1 DEF ChainIInv, Then, OneOutcome, Untouched, FirstCallWins

\* The first call takes the outcome from the first promise; the later ones find
\* it not active.
LEMMA CallInv ==
    ASSUME ChainIInv, NEW result \in Results, Call(result)
    PROVE  ChainIInv'
<1>1. 1 \in Chain /\ \A p \in Chain : p # 1 => p > 1
  BY LengthAssumption DEF Chain
<1>2. /\ ChainTypeOK
      /\ told' = told
      /\ called' = IF called = "none" THEN result ELSE called
      /\ called = "none" <=> isActive[1]
      /\ result # "none"
  BY DEF ChainIInv, Call, Results
<1>3. /\ resolveHandler' \in [Chain -> BOOLEAN]
      /\ rejectHandler' \in [Chain -> BOOLEAN]
      /\ isActive' = [isActive EXCEPT ![1] = FALSE]
      /\ \/ posted' = posted
         \/ isActive[1] /\ posted' = [posted EXCEPT ![1] = Append(posted[1], result)]
  BY <1>1, <1>2, SettleOnce DEF Call, ChainTypeOK
<1>4. ChainTypeOK'
  <2>1. Append(posted[1], result) \in Seq(Results)
    BY <1>1, <1>2 DEF ChainTypeOK
  <2>2. posted' \in [Chain -> Seq(Results)]
    BY <1>2, <1>3, <2>1 DEF ChainTypeOK
  <2>3. isActive' \in [Chain -> BOOLEAN]
    BY <1>2, <1>3 DEF ChainTypeOK
  <2>. QED
    BY <1>2, <1>3, <2>2, <2>3 DEF ChainTypeOK
<1>5. CASE ~ isActive[1]
  <2>1. isActive' = isActive /\ posted' = posted /\ called' = called
    BY <1>1, <1>2, <1>3, <1>5 DEF ChainTypeOK
  <2>. QED
    BY <1>2, <1>4, <2>1 DEF ChainIInv, OneOutcome, Untouched, FirstCallWins
<1>6. CASE isActive[1]
  <2>1. called' = result /\ told = <<>> /\ posted[1] = <<>>
    BY <1>1, <1>2, <1>6 DEF ChainIInv, OneOutcome, Untouched
  <2>2. \A q \in Chain : q # 1 => /\ posted'[q] = <<>> /\ posted[q] = <<>>
                                  /\ isActive'[q] = isActive[q] /\ isActive[q]
    BY <1>1, <1>2, <1>3, <1>6 DEF ChainIInv, OneOutcome, Untouched, ChainTypeOK
  <2>3. posted'[1] \in {<<>>, <<result>>} /\ ~ isActive'[1]
    BY <1>1, <1>2, <1>3, <2>1 DEF ChainTypeOK
  <2>4. \A p \in Chain : OneOutcome(p)'
    <3>. SUFFICES ASSUME NEW p \in Chain PROVE OneOutcome(p)'
      OBVIOUS
    <3>1. Untouched(p)'
      BY <1>1, <1>2, <2>1, <2>2 DEF Untouched, Chain
    <3>. QED
      BY <2>1, <2>2, <2>3, <3>1 DEF OneOutcome
  <2>. QED
    BY <1>2, <1>4, <2>1, <2>3, <2>4 DEF ChainIInv, FirstCallWins
<1>. QED
  BY <1>5, <1>6

\* A handler that runs hands the outcome to the next promise, or to the caller.
LEMMA RunInv ==
    ASSUME ChainIInv, NEW p \in Chain, Run(p)
    PROVE  ChainIInv'
<1>. DEFINE queue == [posted EXCEPT ![p] = Tail(posted[p])]
<1>1. /\ ChainTypeOK /\ called' = called /\ called # "none"
      /\ posted[p] = <<called>> /\ called \in Results
      /\ ~ isActive[p] /\ Untouched(p)
  BY DEF ChainIInv, Run, OneOutcome, ChainTypeOK, Results
<1>2. /\ queue \in [Chain -> Seq(Results)] /\ queue[p] = <<>>
      /\ Head(posted[p]) = called
      /\ \A q \in Chain : q # p => queue[q] = posted[q]
  BY <1>1 DEF ChainTypeOK
<1>3. \A q \in Chain : q < p => ~ isActive[q] /\ posted[q] = <<>>
  BY <1>1 DEF ChainIInv, OneOutcome, Untouched, Chain
<1>4. \A q \in Chain : q > p => isActive[q] /\ posted[q] = <<>>
  BY <1>1 DEF Untouched
<1>5. CASE p = Length
  <2>1. /\ posted' = queue /\ isActive' = isActive /\ told' = <<called>>
        /\ resolveHandler' = resolveHandler /\ rejectHandler' = rejectHandler
    BY <1>1, <1>2, <1>5 DEF Run, Untouched
  <2>2. ChainTypeOK'
    BY <1>1, <1>2, <2>1 DEF ChainTypeOK
  <2>3. \A q \in Chain : ~ isActive[q] /\ queue[q] = <<>>
    BY <1>1, <1>2, <1>3, <1>5, LengthAssumption DEF Chain
  <2>4. \A q \in Chain : OneOutcome(q)'
    BY <2>1, <2>3 DEF OneOutcome
  <2>. QED
    BY <1>1, <2>1, <2>2, <2>4 DEF ChainIInv, FirstCallWins
<1>6. CASE p < Length
  <2>1. p + 1 \in Chain /\ p \in Nat /\ p + 1 # 1
    BY <1>6, LengthAssumption DEF Chain
  <2>2. Settle(p + 1, called, queue) /\ told' = told
    BY <1>2, <1>6, LengthAssumption DEF Run, Chain
  <2>. HIDE DEF queue
  <2>3. /\ resolveHandler' \in [Chain -> BOOLEAN]
        /\ rejectHandler' \in [Chain -> BOOLEAN]
        /\ isActive' = [isActive EXCEPT ![p + 1] = FALSE]
        /\ \/ posted' = queue
           \/ posted' = [queue EXCEPT ![p + 1] = Append(queue[p + 1], called)]
    BY <1>1, <1>2, <2>1, <2>2, SettleOnce
  <2>4. ChainTypeOK'
    <3>1. queue[p + 1] \in Seq(Results) /\ Append(queue[p + 1], called) \in Seq(Results)
      BY <1>1, <1>2, <2>1
    <3>2. posted' \in [Chain -> Seq(Results)]
      BY <1>2, <2>3, <3>1
    <3>3. isActive' \in [Chain -> BOOLEAN] /\ told' \in Seq(Results) /\ called' = called
      BY <1>1, <2>2, <2>3 DEF ChainTypeOK
    <3>. QED
      BY <1>1, <2>3, <3>2, <3>3 DEF ChainTypeOK
  <2>5. /\ \A q \in Chain : q # p + 1 => posted'[q] = queue[q] /\ isActive'[q] = isActive[q]
        /\ posted'[p + 1] \in {<<>>, <<called>>} /\ ~ isActive'[p + 1]
    <3>1. queue[p + 1] = <<>> /\ isActive \in [Chain -> BOOLEAN]
      BY <1>1, <1>2, <1>4, <2>1 DEF ChainTypeOK, Chain
    <3>. QED
      BY <1>2, <2>1, <2>3, <3>1
  <2>6. \A q \in Chain : q <= p => ~ isActive'[q] /\ posted'[q] = <<>>
    BY <1>1, <1>2, <1>3, <2>1, <2>5 DEF Chain
  <2>7. \A q \in Chain : q > p + 1 => isActive'[q] /\ posted'[q] = <<>>
    BY <1>2, <1>4, <2>1, <2>5 DEF Chain
  <2>8. ASSUME NEW q \in Chain, q > p
        PROVE  Untouched(q)'
    BY <1>1, <2>1, <2>2, <2>7, <2>8 DEF Untouched, Chain
  <2>9. \A q \in Chain : OneOutcome(q)'
    <3>. SUFFICES ASSUME NEW q \in Chain PROVE OneOutcome(q)'
      OBVIOUS
    <3>1. CASE q <= p
      BY <2>6, <3>1 DEF OneOutcome
    <3>2. CASE q = p + 1
      BY <1>1, <2>1, <2>5, <2>8, <3>2 DEF OneOutcome
    <3>3. CASE q > p + 1
      BY <2>1, <2>7, <2>8, <3>3 DEF OneOutcome, Chain
    <3>. QED
      BY <2>1, <3>1, <3>2, <3>3 DEF Chain
  <2>10. 1 \in Chain /\ isActive'[1] = isActive[1]
    BY <2>1, <2>5, LengthAssumption DEF Chain
  <2>. QED
    BY <1>1, <2>2, <2>4, <2>9, <2>10 DEF ChainIInv, FirstCallWins
<1>. QED
  BY <1>5, <1>6, LengthAssumption DEF Chain

LEMMA ChainNextInv == ChainIInv /\ [ChainNext]_chainVars => ChainIInv'
<1>. SUFFICES ASSUME ChainIInv, [ChainNext]_chainVars PROVE ChainIInv'
  OBVIOUS
<1>1. CASE ChainNext
  BY <1>1, ThenInv, CallInv, RunInv DEF ChainNext
<1>2. CASE UNCHANGED chainVars
  BY <1>2 DEF ChainIInv, ChainTypeOK, OneOutcome, Untouched, FirstCallWins, chainVars, promiseVars
<1>. QED
  BY <1>1, <1>2

(***************************************************************************)
(* For a chain of any length and any calls: the caller's handlers are told *)
(* once at most, and what the first call said (Promise.hpp:128-159,        *)
(* PromiseLink.hpp:97-103).                                                *)
(***************************************************************************)
THEOREM FirstCallIsTold == ChainSpec => []FirstCallWins
<1>1. ChainIInv => FirstCallWins
  BY DEF ChainIInv
<1>. QED
  BY <1>1, ChainInitInv, ChainNextInv, PTL DEF ChainSpec
-----------------------------------------------------------------------------
\* A step of one part leaves the other two alone.
LEMMA PartsApart ==
    Next \/ UNCHANGED vars
      => [ReceiveNext]_receiveVars /\ [SendNext]_sendVars /\ [ChainNext]_chainVars
  BY DEF Next, vars

(***************************************************************************)
(* The members of Transport and its data sink (Transport.hpp:54-60) and    *)
(* those of a promise (Promise.hpp:166-169) keep their types, also         *)
(* together: no transfer ends twice and none is asked for nothing.         *)
(***************************************************************************)
THEOREM TypeCorrect == FairSpec => []TypeOK
<1>. DEFINE Inv == ReceiveIInv /\ SendIInv /\ ChainIInv
<1>1. Init => Inv
  BY ReceiveInitInv, SendInitInv, ChainInitInv DEF Init
<1>2. Inv /\ [Next]_vars => Inv'
  <2>. SUFFICES ASSUME Inv, [Next]_vars PROVE Inv'
    OBVIOUS
  <2>. QED
    BY PartsApart, ReceiveNextInv, SendNextInv, ChainNextInv
<1>3. Inv => TypeOK
  BY SendTypes DEF TypeOK, ReceiveIInv, ChainIInv
<1>. QED
  BY <1>1, <1>2, <1>3, PTL DEF FairSpec

-----------------------------------------------------------------------------
(* What a frame is in bytes.  First the numbers.                           *)

\* Two bytes give back what 16 bits hold of a number.
LEMMA BigEndian16 ==
  ASSUME NEW n \in Nat
  PROVE  /\ NativeToBig16(n) \in Seq(Byte)
         /\ Len(NativeToBig16(n)) = 2
         /\ BigToNative16(NativeToBig16(n)) = n % Word
  BY SMT DEF NativeToBig16, BigToNative16, Byte, Word

LEMMA BigEndian16Fits ==
  ASSUME NEW n \in Nat, n < Word
  PROVE  /\ NativeToBig16(n) \in Seq(Byte)
         /\ Len(NativeToBig16(n)) = 2
         /\ BigToNative16(NativeToBig16(n)) = n
  <1>1. n % Word = n
    BY SMT DEF Word
  <1>2. /\ NativeToBig16(n) \in Seq(Byte)
        /\ Len(NativeToBig16(n)) = 2
        /\ BigToNative16(NativeToBig16(n)) = n % Word
    BY BigEndian16
  <1> QED
    BY <1>1, <1>2, Zenon

LEMMA BigEndian32 ==
  ASSUME NEW n \in Nat
  PROVE  /\ NativeToBig32(n) \in Seq(Byte)
         /\ Len(NativeToBig32(n)) = 4
  <1>1. n \div Word \in Nat
    BY SMT DEF Word
  <1> DEFINE high == NativeToBig16(n \div Word)
             low == NativeToBig16(n)
  <1>2. high \in Seq(Byte) /\ Len(high) = 2
    BY <1>1, BigEndian16
  <1>3. low \in Seq(Byte) /\ Len(low) = 2
    BY BigEndian16
  <1>4. NativeToBig32(n) = high \o low
    BY DEF NativeToBig32
  <1> HIDE DEF high, low
  <1>5. high \o low \in Seq(Byte) /\ Len(high \o low) = Len(high) + Len(low)
    BY <1>2, <1>3, ConcatProperties
  <1> QED
    BY <1>2, <1>3, <1>4, <1>5

-----------------------------------------------------------------------------
(* The header.                                                             *)

\* A type is found again by its number.
LEMMA NamesUnique ==
  /\ \A t \in DOMAIN FrameTypes : Name(FrameTypes, FrameTypes[t]) = t
  /\ \A t \in DOMAIN MessageTypes : Name(MessageTypes, MessageTypes[t]) = t
  /\ \A t \in DOMAIN EncryptionTypes : Name(EncryptionTypes, EncryptionTypes[t]) = t
  BY DEF Name, FrameTypes, MessageTypes, EncryptionTypes

\* The second byte of a header holds its three types.
LEMMA Bits ==
  ASSUME NEW f \in 0..3, NEW m \in {0, 4}, NEW e \in {0, 8}
  PROVE  /\ f + m + e \in Nat /\ f + m + e < 256
         /\ (f + m + e) % 4 = f
         /\ 4 * (((f + m + e) \div 4) % 2) = m
         /\ 8 * (((f + m + e) \div 8) % 2) = e
  <1>1. CASE m = 0 /\ e = 0
    BY <1>1, SMT
  <1>2. CASE m = 0 /\ e = 8
    BY <1>2, SMT
  <1>3. CASE m = 4 /\ e = 0
    BY <1>3, SMT
  <1>4. CASE m = 4 /\ e = 8
    BY <1>4, SMT
  <1> QED
    BY <1>1, <1>2, <1>3, <1>4

LEMMA TypesApart ==
  ASSUME NEW f \in DOMAIN FrameTypes, NEW m \in DOMAIN MessageTypes,
         NEW e \in DOMAIN EncryptionTypes
  PROVE  LET byte == FrameTypes[f] + MessageTypes[m] + EncryptionTypes[e]
         IN  /\ byte \in Byte
             /\ byte % 4 = FrameTypes[f]
             /\ 4 * ((byte \div 4) % 2) = MessageTypes[m]
             /\ 8 * ((byte \div 8) % 2) = EncryptionTypes[e]
  <1>1. FrameTypes[f] \in 0..3
    BY DEF FrameTypes
  <1>2. MessageTypes[m] \in {0, 4}
    BY DEF MessageTypes
  <1>3. EncryptionTypes[e] \in {0, 8}
    BY DEF EncryptionTypes
  <1> QED
    BY <1>1, <1>2, <1>3, Bits DEF Byte

(***************************************************************************)
(* A frame header is read as it was written, whatever its channel and its  *)
(* types (FrameHeader.cpp:25-30 against 52-60).                            *)
(***************************************************************************)
THEOREM HeaderReadsBack ==
  ASSUME NEW h \in Headers
  PROVE  /\ HeaderData(h) \in Seq(Byte)
         /\ Len(HeaderData(h)) = 2
         /\ FrameHeader(HeaderData(h)) = h
  <1> DEFINE byte == FrameTypes[h.frameType] + MessageTypes[h.messageType]
                         + EncryptionTypes[h.encryptionType]
  <1>1. /\ h.channelId \in Byte
        /\ h.frameType \in DOMAIN FrameTypes
        /\ h.messageType \in DOMAIN MessageTypes
        /\ h.encryptionType \in DOMAIN EncryptionTypes
        /\ h = [channelId |-> h.channelId, frameType |-> h.frameType,
                messageType |-> h.messageType, encryptionType |-> h.encryptionType]
    BY DEF Headers
  <1>2. HeaderData(h) = <<h.channelId, byte>>
    BY DEF HeaderData
  <1> HIDE DEF byte
  <1>3. /\ byte \in Byte
        /\ byte % 4 = FrameTypes[h.frameType]
        /\ 4 * ((byte \div 4) % 2) = MessageTypes[h.messageType]
        /\ 8 * ((byte \div 8) % 2) = EncryptionTypes[h.encryptionType]
    BY <1>1, TypesApart DEF byte
  <1>4. HeaderData(h)[1] = h.channelId /\ HeaderData(h)[2] = byte
    BY <1>2
  <1>5. FrameHeader(HeaderData(h)) = h
    BY <1>1, <1>3, <1>4, NamesUnique DEF FrameHeader
  <1> QED
    BY <1>1, <1>2, <1>3, <1>5

-----------------------------------------------------------------------------
(* The frame.                                                              *)

\* A part of a sequence, element by element.
LEMMA Slice ==
  ASSUME NEW S, NEW w \in Seq(S), NEW b \in Seq(S), NEW n \in Nat,
         n + Len(b) <= Len(w),
         \A i \in 1..Len(b) : w[n + i] = b[i]
  PROVE  SubSeq(w, n + 1, n + Len(b)) = b
  <1>1. Len(b) \in Nat /\ Len(w) \in Nat
    BY LenProperties
  <1> DEFINE k == Len(b)
             part == SubSeq(w, n + 1, n + k)
  <1>2. \A i \in n + 1..n + k : w[i] \in S
    BY <1>1, ElementOfSeq
  <1>3. /\ part \in Seq(S)
        /\ Len(part) = IF n + 1 <= n + k THEN n + k - (n + 1) + 1 ELSE 0
        /\ \A i \in 1..n + k - (n + 1) + 1 : part[i] = w[n + 1 + i - 1]
    BY <1>1, <1>2, SubSeqProperties
  <1> HIDE DEF k, part
  <1>4. Len(part) = k /\ \A i \in 1..k : part[i] = w[n + i]
    BY <1>1, <1>3 DEF k
  <1>5. \A i \in 1..Len(part) : part[i] = b[i]
    BY <1>4 DEF k
  <1>6. part = b
    BY <1>3, <1>4, <1>5, SeqEqual DEF k
  <1> QED
    BY <1>6 DEF k, part

\* Two parts put together are found again by their lengths.
LEMMA Parts ==
  ASSUME NEW a \in Seq(Byte), NEW b \in Seq(Byte)
  PROVE  /\ a \o b \in Seq(Byte)
         /\ Len(a \o b) = Len(a) + Len(b)
         /\ SubSeq(a \o b, 1, Len(a)) = a
         /\ SubSeq(a \o b, Len(a) + 1, Len(a) + Len(b)) = b
  <1> DEFINE c == a \o b
  <1>1. /\ c \in Seq(Byte)
        /\ Len(c) = Len(a) + Len(b)
        /\ \A i \in 1..Len(a) + Len(b) : c[i] = IF i <= Len(a) THEN a[i] ELSE b[i - Len(a)]
    BY ConcatProperties
  <1>2. Len(a) \in Nat /\ Len(b) \in Nat
    BY LenProperties
  <1> HIDE DEF c
  <1>3. \A i \in 1..Len(a) : c[0 + i] = a[i]
    BY <1>1, <1>2
  <1>4. SubSeq(c, 0 + 1, 0 + Len(a)) = a
    BY <1>1, <1>2, <1>3, Slice
  <1>5. \A i \in 1..Len(b) : c[Len(a) + i] = b[i]
    <2> SUFFICES ASSUME NEW i \in 1..Len(b)
                 PROVE  c[Len(a) + i] = b[i]
      OBVIOUS
    <2>1. /\ Len(a) + i \in 1..Len(a) + Len(b)
          /\ ~(Len(a) + i <= Len(a))
          /\ Len(a) + i - Len(a) = i
      BY <1>2
    <2> QED
      BY <1>1, <2>1
  <1>6. SubSeq(c, Len(a) + 1, Len(a) + Len(b)) = b
    BY <1>1, <1>2, <1>5, Slice
  <1> QED
    BY <1>1, <1>2, <1>4, <1>6 DEF c

\* The part in the middle of three.
LEMMA Middle ==
  ASSUME NEW a \in Seq(Byte), NEW b \in Seq(Byte), NEW c \in Seq(Byte)
  PROVE  SubSeq((a \o b) \o c, Len(a) + 1, Len(a) + Len(b)) = b
  <1> DEFINE ab == a \o b
             whole == ab \o c
  <1>1. /\ ab \in Seq(Byte)
        /\ Len(ab) = Len(a) + Len(b)
        /\ \A i \in 1..Len(a) + Len(b) : ab[i] = IF i <= Len(a) THEN a[i] ELSE b[i - Len(a)]
    BY ConcatProperties
  <1> HIDE DEF ab
  <1>0. ab \in Seq(Byte)
    BY <1>1
  <1>2. /\ whole \in Seq(Byte)
        /\ Len(whole) = Len(ab) + Len(c)
        /\ \A i \in 1..Len(ab) + Len(c) : whole[i] = IF i <= Len(ab) THEN ab[i] ELSE c[i - Len(ab)]
    BY <1>0, ConcatProperties
  <1> HIDE DEF whole
  <1>3. Len(a) \in Nat /\ Len(b) \in Nat /\ Len(c) \in Nat
    BY LenProperties
  <1>4. \A i \in 1..Len(b) : whole[Len(a) + i] = b[i]
    <2> SUFFICES ASSUME NEW i \in 1..Len(b)
                 PROVE  whole[Len(a) + i] = b[i]
      OBVIOUS
    <2>1. /\ Len(a) + i \in 1..Len(a) + Len(b)
          /\ Len(a) + i \in 1..Len(ab) + Len(c)
          /\ ~(Len(a) + i <= Len(a))
          /\ Len(a) + i <= Len(ab)
          /\ Len(a) + i - Len(a) = i
      BY <1>1, <1>3
    <2> QED
      BY <1>1, <1>2, <2>1
  <1>5. Len(a) + Len(b) <= Len(whole)
    BY <1>1, <1>2, <1>3
  <1>6. SubSeq(whole, Len(a) + 1, Len(a) + Len(b)) = b
    BY <1>2, <1>3, <1>4, <1>5, Slice
  <1> QED
    BY <1>6 DEF ab, whole

\* The first and the last of three.
LEMMA FirstAndLast ==
  ASSUME NEW a \in Seq(Byte), NEW b \in Seq(Byte), NEW c \in Seq(Byte)
  PROVE  LET whole == (a \o b) \o c
         IN  /\ Len(whole) = Len(a) + Len(b) + Len(c)
             /\ SubSeq(whole, 1, Len(a)) = a
             /\ SubSeq(whole, Len(a) + Len(b) + 1, Len(a) + Len(b) + Len(c)) = c
  <1> DEFINE ab == a \o b
             bc == b \o c
             whole == ab \o c
  <1>1. ab \in Seq(Byte) /\ Len(ab) = Len(a) + Len(b)
    BY Parts
  <1>2. bc \in Seq(Byte)
    BY Parts
  <1>3. whole = a \o bc
    BY ConcatAssociative
  <1> HIDE DEF ab, bc
  <1>4. SubSeq(a \o bc, 1, Len(a)) = a
    BY <1>2, Parts
  <1>5. /\ Len(ab \o c) = Len(ab) + Len(c)
        /\ SubSeq(ab \o c, Len(ab) + 1, Len(ab) + Len(c)) = c
    BY <1>1, Parts
  <1> HIDE DEF whole
  <1>6. SubSeq(whole, 1, Len(a)) = a
    BY <1>3, <1>4, Zenon
  <1>7. /\ Len(whole) = Len(a) + Len(b) + Len(c)
        /\ SubSeq(whole, Len(a) + Len(b) + 1, Len(a) + Len(b) + Len(c)) = c
    BY <1>1, <1>5, Zenon DEF whole
  <1> QED
    BY <1>6, <1>7 DEF ab, whole

\* What begins with two bytes, begins with these bytes.
LEMMA TwoBytes ==
  ASSUME NEW a \in Seq(Byte), NEW b \in Seq(Byte), Len(a) = 2
  PROVE  /\ a \o b \in Seq(Byte)
         /\ Len(a \o b) = 2 + Len(b)
         /\ (a \o b)[1] = a[1]
         /\ (a \o b)[2] = a[2]
  <1>1. /\ a \o b \in Seq(Byte)
        /\ Len(a \o b) = Len(a) + Len(b)
        /\ \A i \in 1..Len(a) + Len(b) :
             (a \o b)[i] = IF i <= Len(a) THEN a[i] ELSE b[i - Len(a)]
    BY ConcatProperties
  <1>2. Len(b) \in Nat
    BY LenProperties
  <1>3. 1 \in 1..2 + Len(b) /\ 2 \in 1..2 + Len(b)
    BY <1>2
  <1> QED
    BY <1>1, <1>3

\* The size of a frame is read as it was written, if it fits 16 bits.
LEMMA SizeReadsBack ==
  ASSUME NEW type \in {"SHORT", "EXTENDED"}, NEW n \in Nat, n < Word,
         NEW total \in Nat
  PROVE  LET sizes == SizeData([type |-> type, frameSize |-> n, totalSize |-> total])
         IN  /\ sizes \in Seq(Byte)
             /\ Len(sizes) = SizeOf(type)
             /\ FrameSize(sizes).frameSize = n
  <1> DEFINE sizes == SizeData([type |-> type, frameSize |-> n, totalSize |-> total])
             two == NativeToBig16(n)
             four == NativeToBig32(total)
  <1>1. two \in Seq(Byte) /\ Len(two) = 2
    BY BigEndian16Fits
  <1>2. BigToNative16(two) = n
    BY BigEndian16Fits
  <1>3. four \in Seq(Byte) /\ Len(four) = 4
    BY BigEndian32
  <1>4. sizes = two \o (IF type = "EXTENDED" THEN four ELSE <<>>)
    BY DEF SizeData
  <1> HIDE DEF sizes, two, four
  <1>5. /\ sizes \in Seq(Byte)
        /\ Len(sizes) = SizeOf(type)
        /\ sizes[1] = two[1] /\ sizes[2] = two[2]
    <2>1. CASE type = "EXTENDED"
      <3>1. sizes = two \o four
        BY <1>4, <2>1
      <3>2. /\ two \o four \in Seq(Byte) /\ Len(two \o four) = 2 + Len(four)
            /\ (two \o four)[1] = two[1] /\ (two \o four)[2] = two[2]
        BY <1>1, <1>3, TwoBytes
      <3> QED
        BY <1>3, <2>1, <3>1, <3>2 DEF SizeOf
    <2>2. CASE type = "SHORT"
      <3>1. sizes = two
        BY <1>1, <1>4, <2>2, ConcatEmptySeq
      <3> QED
        BY <1>1, <2>2, <3>1 DEF SizeOf
    <2> QED
      BY <2>1, <2>2
  <1>6. BigToNative16(sizes) = n
    BY <1>2, <1>5, Zenon DEF BigToNative16
  <1>7. FrameSize(sizes).frameSize = BigToNative16(sizes)
    <2>1. CASE Len(sizes) >= 6
      BY <2>1 DEF FrameSize
    <2>2. CASE ~(Len(sizes) >= 6)
      BY <2>2 DEF FrameSize
    <2> QED
      BY <2>1, <2>2
  <1> QED
    BY <1>5, <1>6, <1>7 DEF sizes

(***************************************************************************)
(* The three reads of the reader find header and payload of a frame of     *)
(* either writer, first frames included, as long as the payload that was   *)
(* encrypted stays below 65536 bytes (MessageOutStream.cpp:105-129,        *)
(* MessageSender.cpp:140-164 against MessageInStream.cpp:58-144).  A frame *)
(* holds at most 16384 bytes and what TLS adds to them.                    *)
(***************************************************************************)
THEOREM FrameReadsBack ==
  ASSUME NEW h \in Headers, NEW payload \in Seq(Byte), Len(payload) < Word,
         NEW total \in Nat
  PROVE  LET bytes == CompoundFrame(h, payload, total)
         IN  /\ HeaderOf(bytes) = h
             /\ PayloadOf(bytes) = payload
             /\ Len(bytes) = SizeEnd(bytes) + Len(payload)
  <1> DEFINE bytes == CompoundFrame(h, payload, total)
             header == HeaderData(h)
             type == FrameSizeType(h.frameType)
             size == SetFrameSize(h.frameType, payload, total)
  <1>1. /\ header \in Seq(Byte) /\ Len(header) = 2 /\ FrameHeader(header) = h
    BY HeaderReadsBack
  <1>2. type \in {"SHORT", "EXTENDED"} /\ Len(payload) \in Nat
    BY DEF FrameSizeType
  <1>3. /\ size \in Seq(Byte)
        /\ Len(size) = SizeOf(type)
        /\ FrameSize(size).frameSize = Len(payload)
    <2> DEFINE t == IF h.frameType = "FIRST" THEN total ELSE 0
    <2>1. t \in Nat
      OBVIOUS
    <2>2. size = SizeData([type |-> type, frameSize |-> Len(payload), totalSize |-> t])
      BY DEF SetFrameSize
    <2> HIDE DEF t, size, type
    <2> QED
      BY <2>1, <2>2, <1>2, SizeReadsBack
  <1>4. bytes = header \o size \o payload
    BY DEF CompoundFrame
  <1> HIDE DEF bytes, header, size
  <1>5. /\ SubSeq(bytes, 1, 2) = header
        /\ SubSeq(bytes, 3, 2 + Len(size)) = size
        /\ SubSeq(bytes, 2 + Len(size) + 1, 2 + Len(size) + Len(payload)) = payload
        /\ Len(bytes) = 2 + Len(size) + Len(payload)
    <2>1. header \in Seq(Byte) /\ size \in Seq(Byte)
      BY <1>1, <1>3
    <2>2. /\ Len(bytes) = Len(header) + Len(size) + Len(payload)
          /\ SubSeq(bytes, 1, Len(header)) = header
          /\ SubSeq(bytes, Len(header) + Len(size) + 1,
                    Len(header) + Len(size) + Len(payload)) = payload
      BY <1>4, <2>1, FirstAndLast
    <2>3. SubSeq(bytes, Len(header) + 1, Len(header) + Len(size)) = size
      BY <1>4, <2>1, Middle
    <2>4. Len(header) = 2 /\ 2 + 1 = 3
      BY <1>1
    <2> QED
      BY <2>2, <2>3, <2>4, Zenon
  <1>6. HeaderOf(bytes) = h
    BY <1>1, <1>5 DEF HeaderOf
  <1>7. SizeEnd(bytes) = 2 + Len(size)
    BY <1>3, <1>6 DEF SizeEnd
  <1>8. SizeOfPayload(bytes) = Len(payload)
    BY <1>3, <1>5, <1>7 DEF SizeOfPayload
  <1>9. PayloadOf(bytes) = payload
    BY <1>5, <1>7, <1>8 DEF PayloadOf
  <1> QED
    BY <1>5, <1>6, <1>7, <1>9 DEF bytes

(***************************************************************************)
(* The id of a message and what follows it are found again in its payload, *)
(* also when nothing follows (MessageId.cpp:32-46, Data.cpp:86-89).        *)
(***************************************************************************)
THEOREM MessageReadsBack ==
  ASSUME NEW id \in Nat, id < Word, NEW rest \in Seq(Byte)
  PROVE  /\ MessageId(Message(id, rest)) = id
         /\ DataConstBuffer(Message(id, rest), 2) = rest
  <1> DEFINE two == NativeToBig16(id)
             payload == two \o rest
  <1>1. two \in Seq(Byte) /\ Len(two) = 2
    BY BigEndian16Fits
  <1>2. BigToNative16(two) = id
    BY BigEndian16Fits
  <1>3. Message(id, rest) = payload
    BY DEF Message
  <1> HIDE DEF two
  <1>4. /\ Len(payload) = 2 + Len(rest)
        /\ payload[1] = two[1]
        /\ payload[2] = two[2]
    BY <1>1, TwoBytes
  <1>5. SubSeq(payload, Len(two) + 1, Len(two) + Len(rest)) = rest
    BY <1>1, Parts
  <1> HIDE DEF payload
  <1>6. MessageId(payload) = id
    BY <1>2, <1>4 DEF MessageId, BigToNative16
  <1>7. Len(rest) \in Nat /\ ~(2 > Len(payload))
    BY <1>4, LenProperties
  <1>8. DataConstBuffer(payload, 2) = rest
    BY <1>1, <1>4, <1>5, <1>7 DEF DataConstBuffer
  <1> QED
    BY <1>3, <1>6, <1>8
=============================================================================
