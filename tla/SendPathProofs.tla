---------------------------- MODULE SendPathProofs ----------------------------
(***************************************************************************)
(* No frame writer is wedged: one that holds a promise waits for exactly   *)
(* one frame.  And the frames of each writer reach the phone in the order  *)
(* of their records and their messages.  And the iterator the messenger's  *)
(* send handler holds is that of the message it is told of.  And a message *)
(* whose promise is resolved is on the wire as a whole.  And what remains  *)
(* of a message in hand never goes below zero.  All of this holds for      *)
(* every number and size of messages, and wherever an encryption or a send *)
(* fails.                                                                  *)
(***************************************************************************)
EXTENDS SendPath, TLAPS, SequenceTheorems, FiniteSetTheorems

\* The argument is not about what the frames hold, so the queues may be of anything.
IsSequence(seq) == \E S : seq \in Seq(S)

Shapes ==
    /\ IsSequence(sendQueue)
    /\ acks = [w \in Writers |-> acks[w]] /\ \A w \in Writers : IsSequence(acks[w])
    /\ compounded = [w \in Writers |-> compounded[w]]
    /\ promise = [w \in Writers |-> promise[w]]
    /\ \A i \in 1..Len(sendQueue) : sendQueue[i].writer \in Writers

\* An entry that is a frame of w with another frame to follow.
Open(e, w) == e.writer = w /\ ~Writer!Ends(e.frame)

NoneQueued(queue, w) == \A i \in 1..Len(queue) : ~Open(queue[i], w)
OneQueued(queue, w) ==
    \E k \in 1..Len(queue) :
        Open(queue[k], w) /\ \A i \in 1..Len(queue) : i # k => ~Open(queue[i], w)

NoneAcked(seq) == \A i \in 1..Len(seq) : Writer!Ends(seq[i].frame)
OneAcked(seq) ==
    \E k \in 1..Len(seq) :
        ~Writer!Ends(seq[k].frame) /\ \A i \in 1..Len(seq) : i # k => Writer!Ends(seq[i].frame)

\* Where the frame is that a writer waits for.
Free(w) ==
    promise[w] = "null" /\ Writer!Idle(w) /\ NoneQueued(sendQueue, w) /\ NoneAcked(acks[w])
Sending(w) ==
    promise[w] = "set" /\ ~Writer!Idle(w) /\ NoneQueued(sendQueue, w) /\ NoneAcked(acks[w])
InTransport(w) ==
    promise[w] = "set" /\ Writer!Idle(w) /\ OneQueued(sendQueue, w) /\ NoneAcked(acks[w])
Answered(w) ==
    promise[w] = "set" /\ Writer!Idle(w) /\ NoneQueued(sendQueue, w) /\ OneAcked(acks[w])

Placed(w) == Free(w) \/ Sending(w) \/ InTransport(w) \/ Answered(w)

IInv == Shapes /\ \A w \in Writers : Placed(w)

-----------------------------------------------------------------------------
(***************************************************************************)
(* What is appended to and taken from a queue.                             *)
(***************************************************************************)
LEMMA Appended ==
    ASSUME NEW seq, IsSequence(seq), NEW e
    PROVE  /\ IsSequence(Append(seq, e)) /\ Len(seq) \in Nat
           /\ Len(Append(seq, e)) = Len(seq) + 1 /\ Append(seq, e)[Len(seq) + 1] = e
           /\ \A i \in 1..Len(seq) : Append(seq, e)[i] = seq[i]
<1>1. PICK S : seq \in Seq(S)
  BY DEF IsSequence
<1>2. seq \in Seq(S \cup {e}) /\ e \in S \cup {e}
  BY <1>1
<1>3. Append(seq, e) \in Seq(S \cup {e})
  BY <1>2
<1>. QED
  BY <1>2, <1>3 DEF IsSequence

LEMMA Taken ==
    ASSUME NEW seq, IsSequence(seq), seq # <<>>
    PROVE  /\ IsSequence(Tail(seq)) /\ Len(seq) \in Nat \ {0} /\ Head(seq) = seq[1]
           /\ Len(Tail(seq)) = Len(seq) - 1
           /\ \A i \in 1..Len(seq) - 1 : Tail(seq)[i] = seq[i + 1]
<1>1. PICK S : seq \in Seq(S)
  BY DEF IsSequence
<1>2. Tail(seq) \in Seq(S)
  BY <1>1
<1>. QED
  BY <1>1, <1>2 DEF IsSequence

LEMMA QueueAppended ==
    ASSUME NEW queue, IsSequence(queue), NEW e, NEW w
    PROVE  /\ ~Open(e, w) /\ NoneQueued(queue, w) => NoneQueued(Append(queue, e), w)
           /\ ~Open(e, w) /\ OneQueued(queue, w) => OneQueued(Append(queue, e), w)
           /\ Open(e, w) /\ NoneQueued(queue, w) => OneQueued(Append(queue, e), w)
<1>. DEFINE longer == Append(queue, e)
<1>1. /\ Len(queue) \in Nat /\ Len(longer) = Len(queue) + 1 /\ longer[Len(queue) + 1] = e
      /\ \A i \in 1..Len(queue) : longer[i] = queue[i]
  BY Appended
<1>2. \A i \in 1..Len(longer) : i \in 1..Len(queue) \/ i = Len(queue) + 1
  BY <1>1
<1>3. /\ \A i \in 1..Len(queue) : i \in 1..Len(longer) /\ i # Len(queue) + 1
      /\ Len(queue) + 1 \in 1..Len(longer)
  BY <1>1
<1>. HIDE DEF longer
<1>4. ~Open(e, w) /\ NoneQueued(queue, w) => NoneQueued(longer, w)
  BY <1>1, <1>2 DEF NoneQueued
<1>5. ~Open(e, w) /\ OneQueued(queue, w) => OneQueued(longer, w)
  BY <1>1, <1>2, <1>3 DEF OneQueued
<1>6. Open(e, w) /\ NoneQueued(queue, w) => OneQueued(longer, w)
  BY <1>1, <1>2, <1>3 DEF OneQueued, NoneQueued
<1>. QED
  BY <1>4, <1>5, <1>6 DEF longer

LEMMA QueueTaken ==
    ASSUME NEW queue, IsSequence(queue), queue # <<>>, NEW w
    PROVE  /\ NoneQueued(queue, w) => ~Open(Head(queue), w) /\ NoneQueued(Tail(queue), w)
           /\ ~Open(Head(queue), w) /\ OneQueued(queue, w) => OneQueued(Tail(queue), w)
           /\ Open(Head(queue), w) /\ OneQueued(queue, w) => NoneQueued(Tail(queue), w)
<1>. DEFINE shorter == Tail(queue)
<1>1. /\ Len(queue) \in Nat \ {0} /\ Head(queue) = queue[1] /\ Len(shorter) = Len(queue) - 1
      /\ \A i \in 1..Len(queue) - 1 : shorter[i] = queue[i + 1]
  BY Taken
<1>2. /\ \A i \in 1..Len(shorter) : i + 1 \in 1..Len(queue) /\ i + 1 # 1
                                    /\ shorter[i] = queue[i + 1]
      /\ \A i \in 1..Len(queue) : i = 1 \/ (i - 1 \in 1..Len(shorter) /\ i - 1 + 1 = i)
      /\ \A i, j \in 1..Len(shorter) : i # j => i + 1 # j + 1
      /\ 1 \in 1..Len(queue)
  BY <1>1
<1>. HIDE DEF shorter
<1>3. NoneQueued(queue, w) => ~Open(Head(queue), w) /\ NoneQueued(shorter, w)
  BY <1>1, <1>2 DEF NoneQueued
<1>4. ASSUME ~Open(Head(queue), w), OneQueued(queue, w) PROVE OneQueued(shorter, w)
  <2>1. PICK k \in 1..Len(queue) :
            Open(queue[k], w) /\ \A i \in 1..Len(queue) : i # k => ~Open(queue[i], w)
    BY <1>4 DEF OneQueued
  <2>2. k # 1
    BY <1>1, <1>4, <2>1
  <2>3. k - 1 \in 1..Len(shorter) /\ Open(shorter[k - 1], w)
    BY <1>2, <2>1, <2>2
  <2>4. \A i \in 1..Len(shorter) : i # k - 1 => ~Open(shorter[i], w)
    BY <1>2, <2>1, <2>3
  <2>. QED
    BY <2>3, <2>4 DEF OneQueued
<1>5. ASSUME Open(Head(queue), w), OneQueued(queue, w) PROVE NoneQueued(shorter, w)
  BY <1>1, <1>2, <1>5 DEF OneQueued, NoneQueued
<1>. QED
  BY <1>3, <1>4, <1>5 DEF shorter

LEMMA AckAppended ==
    ASSUME NEW seq, IsSequence(seq), NEW e
    PROVE  /\ Writer!Ends(e.frame) /\ NoneAcked(seq) => NoneAcked(Append(seq, e))
           /\ Writer!Ends(e.frame) /\ OneAcked(seq) => OneAcked(Append(seq, e))
           /\ ~Writer!Ends(e.frame) /\ NoneAcked(seq) => OneAcked(Append(seq, e))
<1>. DEFINE longer == Append(seq, e)
<1>1. /\ Len(seq) \in Nat /\ Len(longer) = Len(seq) + 1 /\ longer[Len(seq) + 1] = e
      /\ \A i \in 1..Len(seq) : longer[i] = seq[i]
  BY Appended
<1>2. \A i \in 1..Len(longer) : i \in 1..Len(seq) \/ i = Len(seq) + 1
  BY <1>1
<1>3. /\ \A i \in 1..Len(seq) : i \in 1..Len(longer) /\ i # Len(seq) + 1
      /\ Len(seq) + 1 \in 1..Len(longer)
  BY <1>1
<1>. HIDE DEF longer
<1>4. Writer!Ends(e.frame) /\ NoneAcked(seq) => NoneAcked(longer)
  BY <1>1, <1>2 DEF NoneAcked
<1>5. Writer!Ends(e.frame) /\ OneAcked(seq) => OneAcked(longer)
  BY <1>1, <1>2, <1>3 DEF OneAcked
<1>6. ~Writer!Ends(e.frame) /\ NoneAcked(seq) => OneAcked(longer)
  BY <1>1, <1>2, <1>3 DEF OneAcked, NoneAcked
<1>. QED
  BY <1>4, <1>5, <1>6 DEF longer

LEMMA AckTaken ==
    ASSUME NEW seq, IsSequence(seq), seq # <<>>
    PROVE  /\ NoneAcked(seq) => Writer!Ends(Head(seq).frame) /\ NoneAcked(Tail(seq))
           /\ Writer!Ends(Head(seq).frame) /\ OneAcked(seq) => OneAcked(Tail(seq))
           /\ ~Writer!Ends(Head(seq).frame) /\ OneAcked(seq) => NoneAcked(Tail(seq))
<1>. DEFINE shorter == Tail(seq)
<1>1. /\ Len(seq) \in Nat \ {0} /\ Head(seq) = seq[1] /\ Len(shorter) = Len(seq) - 1
      /\ \A i \in 1..Len(seq) - 1 : shorter[i] = seq[i + 1]
  BY Taken
<1>2. /\ \A i \in 1..Len(shorter) : i + 1 \in 1..Len(seq) /\ i + 1 # 1
                                    /\ shorter[i] = seq[i + 1]
      /\ \A i \in 1..Len(seq) : i = 1 \/ (i - 1 \in 1..Len(shorter) /\ i - 1 + 1 = i)
      /\ 1 \in 1..Len(seq)
  BY <1>1
<1>. HIDE DEF shorter
<1>3. NoneAcked(seq) => Writer!Ends(Head(seq).frame) /\ NoneAcked(shorter)
  BY <1>1, <1>2 DEF NoneAcked
<1>4. ASSUME Writer!Ends(Head(seq).frame), OneAcked(seq) PROVE OneAcked(shorter)
  <2>1. PICK k \in 1..Len(seq) :
            ~Writer!Ends(seq[k].frame)
            /\ \A i \in 1..Len(seq) : i # k => Writer!Ends(seq[i].frame)
    BY <1>4 DEF OneAcked
  <2>2. k # 1
    BY <1>1, <1>4, <2>1
  <2>3. k - 1 \in 1..Len(shorter) /\ ~Writer!Ends(shorter[k - 1].frame)
    BY <1>2, <2>1, <2>2
  <2>4. \A i \in 1..Len(shorter) : i # k - 1 => Writer!Ends(shorter[i].frame)
    BY <1>2, <2>1, <2>3
  <2>. QED
    BY <2>3, <2>4 DEF OneAcked
<1>5. ASSUME ~Writer!Ends(Head(seq).frame), OneAcked(seq) PROVE NoneAcked(shorter)
  BY <1>1, <1>2, <1>5 DEF OneAcked, NoneAcked
<1>. QED
  BY <1>3, <1>4, <1>5 DEF shorter

-----------------------------------------------------------------------------
\* The empty sequence is one.
LEMMA Empty == IsSequence(<<>>) /\ Len(<<>>) = 0
<1>1. <<>> \in Seq({})
  OBVIOUS
<1>. QED
  BY <1>1 DEF IsSequence

\* Initially no writer has a frame.
LEMMA InitInv == ASSUME Init PROVE IInv
<1>. USE DEF Init, Writer!Init
<1>1. Shapes
  BY Empty DEF Shapes
<1>2. ASSUME NEW w \in Writers PROVE Free(w)
  BY Empty DEF Free, Writer!Idle, NoneQueued, NoneAcked
<1>. QED
  BY <1>1, <1>2 DEF IInv, Placed

\* What a writer waits for depends on these four.
Same(w) ==
    /\ promise'[w] = promise[w] /\ compounded'[w] = compounded[w] /\ acks'[w] = acks[w]

LEMMA OthersInv ==
    ASSUME NEW w, Placed(w), Same(w), UNCHANGED sendQueue
    PROVE  Placed(w)'
BY DEF Same, Placed, Free, Sending, InTransport, Answered, Writer!Idle, Writer!NoFrame

LEMMA StutterInv ==
    ASSUME IInv, UNCHANGED <<sendQueue, acks, compounded, promise>>
    PROVE  IInv'
<1>1. Shapes'
  BY DEF IInv, Shapes
<1>2. ASSUME NEW w \in Writers PROVE Placed(w)'
  BY <1>2, OthersInv DEF IInv, Same
<1>. QED
  BY <1>1, <1>2 DEF IInv

(***************************************************************************)
(* A frame is made and the promise is held, or it cannot be encrypted and  *)
(* the promise is given up.                                                *)
(***************************************************************************)
LEMMA CompoundFrame ==
    ASSUME Shapes, NEW w \in Writers, NEW m, NEW off, NEW rest,
           Writer!Idle(w), Writer!Compound(w, m, off, rest)
    PROVE  /\ compounded' = [v \in Writers |-> compounded'[v]]
           /\ promise' = [v \in Writers |-> promise'[v]]
           /\ \A v \in Writers \ {w} :
                promise'[v] = promise[v] /\ compounded'[v] = compounded[v]
           /\ \/ promise'[w] = "set" /\ ~Writer!Idle(w)'
              \/ promise'[w] = "null" /\ Writer!Idle(w)'
<1>. USE DEF Shapes, Writer!Set
<1>1. CASE promise' = Writer!Set(promise, w, "set")
  <2>1. PICK type, size, record : /\ type \in {"BULK", "FIRST", "MIDDLE", "LAST"}
           /\ compounded' = [compounded EXCEPT ![w] =
                [id |-> m.id, type |-> type, size |-> size, record |-> record]]
    <3>1. Writer!FrameType(m, off, rest, IF rest < MaxPayload THEN rest ELSE MaxPayload)
            \in {"BULK", "FIRST", "MIDDLE", "LAST"}
      BY DEF Writer!FrameType
    <3>2. "set" # "null" /\ promise'[w] = "set"
      BY <1>1
    <3>. QED
      BY <3>1, <3>2 DEF Writer!Compound, Writer!Reject
  <2>2. compounded'[w].type # "none"
    BY <2>1
  <2>3. ~Writer!Idle(w)'
    BY <2>2 DEF Writer!Idle, Writer!NoFrame
  <2>. QED
    BY <1>1, <2>1, <2>3
<1>2. CASE promise' = Writer!Set(promise, w, "null") /\ UNCHANGED compounded
  BY <1>2 DEF Writer!Idle, Writer!NoFrame
<1>. QED
  BY <1>1, <1>2 DEF Writer!Compound, Writer!Reject

LEMMA StreamInv ==
    ASSUME IInv, NEW w \in Writers, Writer!Stream(w)
    PROVE  IInv'
<1>1. CASE promise[w] = "set" /\ UNCHANGED <<promise, compounded>>
  BY <1>1, StutterInv DEF Writer!Stream
<1>2. CASE promise[w] = "null" /\ Writer!Compound(w, Head(calls[w]), 0, Head(calls[w]).size)
  <2>1. UNCHANGED <<acks, sendQueue>> /\ Writer!Idle(w)
    BY DEF Writer!Stream
  <2>2. Free(w)
    BY <1>2 DEF IInv, Placed, Sending, InTransport, Answered
  <2>3. /\ compounded' = [v \in Writers |-> compounded'[v]]
        /\ promise' = [v \in Writers |-> promise'[v]]
        /\ \A v \in Writers \ {w} :
             promise'[v] = promise[v] /\ compounded'[v] = compounded[v]
        /\ \/ promise'[w] = "set" /\ ~Writer!Idle(w)'
           \/ promise'[w] = "null" /\ Writer!Idle(w)'
    BY <1>2, <2>1, CompoundFrame DEF IInv
  <2>4. Shapes'
    BY <2>1, <2>3 DEF IInv, Shapes
  <2>5. Placed(w)'
    BY <2>1, <2>2, <2>3 DEF Placed, Free, Sending
  <2>6. ASSUME NEW v \in Writers \ {w} PROVE Placed(v)'
    BY <2>1, <2>3, <2>6, OthersInv DEF IInv, Same
  <2>. QED
    BY <2>4, <2>5, <2>6 DEF IInv
<1>. QED
  BY <1>1, <1>2 DEF Writer!Stream

\* The outcome of a frame is taken from those posted to w.
LEMMA AckedShapes ==
    ASSUME Shapes, NEW w \in Writers, NEW ends, NEW result, Writer!Acked(w, ends, result)
    PROVE  /\ acks' = [v \in Writers |-> acks'[v]] /\ \A v \in Writers : IsSequence(acks'[v])
           /\ acks'[w] = Tail(acks[w])
           /\ \A v \in Writers \ {w} : acks'[v] = acks[v]
           /\ IsSequence(acks[w]) /\ acks[w] # <<>>
           /\ Writer!Idle(w) /\ UNCHANGED sendQueue
<1>1. IsSequence(acks[w]) /\ acks[w] # <<>> /\ acks' = [acks EXCEPT ![w] = Tail(@)]
  BY DEF Shapes, Writer!Acked, Writer!Take
<1>2. IsSequence(Tail(acks[w]))
  BY <1>1, Taken
<1>. QED
  BY <1>1, <1>2 DEF Shapes, Writer!Acked

LEMMA SplitInv ==
    ASSUME IInv, NEW w \in Writers, Writer!StreamSplittedMessage(w) \/ Writer!SplitFails(w)
    PROVE  IInv'
<1>. DEFINE size == Head(acks[w]).frame.size
<1>1. PICK result : Writer!Acked(w, FALSE, result)
  BY DEF Writer!StreamSplittedMessage, Writer!SplitFails
<1>2. /\ acks' = [v \in Writers |-> acks'[v]] /\ \A v \in Writers : IsSequence(acks'[v])
      /\ acks'[w] = Tail(acks[w])
      /\ \A v \in Writers \ {w} : acks'[v] = acks[v]
      /\ IsSequence(acks[w]) /\ acks[w] # <<>>
      /\ Writer!Idle(w) /\ UNCHANGED sendQueue
  BY <1>1, AckedShapes DEF IInv
<1>3. ~Writer!Ends(Head(acks[w]).frame)
  BY <1>1 DEF Writer!Acked
<1>4. NoneQueued(sendQueue, w) /\ NoneAcked(Tail(acks[w]))
  <2>1. ~NoneAcked(acks[w])
    BY <1>2, <1>3, AckTaken
  <2>2. Answered(w)
    BY <2>1 DEF IInv, Placed, Free, Sending, InTransport
  <2>. QED
    BY <1>2, <1>3, <2>2, AckTaken DEF Answered
<1>5. /\ compounded' = [v \in Writers |-> compounded'[v]]
      /\ promise' = [v \in Writers |-> promise'[v]]
      /\ \A v \in Writers \ {w} :
           promise'[v] = promise[v] /\ compounded'[v] = compounded[v]
      /\ \/ promise'[w] = "set" /\ ~Writer!Idle(w)'
         \/ promise'[w] = "null" /\ Writer!Idle(w)'
  <2>1. CASE Writer!StreamSplittedMessage(w)
    BY <1>2, <2>1, CompoundFrame DEF IInv, Writer!StreamSplittedMessage
  <2>2. CASE Writer!SplitFails(w)
    BY <1>2, <2>2 DEF IInv, Shapes, Writer!SplitFails, Writer!Reject, Writer!Set,
                      Writer!Idle, Writer!NoFrame
  <2>. QED
    BY <2>1, <2>2
<1>6. Shapes'
  BY <1>2, <1>5 DEF IInv, Shapes
<1>7. Placed(w)'
  BY <1>2, <1>4, <1>5 DEF Placed, Free, Sending
<1>8. ASSUME NEW v \in Writers \ {w} PROVE Placed(v)'
  BY <1>2, <1>5, <1>8, OthersInv DEF IInv, Same
<1>. QED
  BY <1>6, <1>7, <1>8 DEF IInv

LEMMA ForwardInv ==
    ASSUME IInv, NEW w \in Writers, Writer!Forward(w)
    PROVE  IInv'
<1>1. PICK result : Writer!Acked(w, TRUE, result)
  BY DEF Writer!Forward
<1>2. /\ acks' = [v \in Writers |-> acks'[v]] /\ \A v \in Writers : IsSequence(acks'[v])
      /\ acks'[w] = Tail(acks[w])
      /\ \A v \in Writers \ {w} : acks'[v] = acks[v]
      /\ IsSequence(acks[w]) /\ acks[w] # <<>>
      /\ Writer!Idle(w) /\ UNCHANGED sendQueue
  BY <1>1, AckedShapes DEF IInv
<1>3. UNCHANGED <<promise, compounded>> /\ Writer!Ends(Head(acks[w]).frame)
  BY <1>1 DEF Writer!Forward, Writer!Acked
<1>4. /\ NoneAcked(acks[w]) => NoneAcked(acks'[w])
      /\ OneAcked(acks[w]) => OneAcked(acks'[w])
  BY <1>2, <1>3, AckTaken
<1>5. Shapes'
  BY <1>2, <1>3 DEF IInv, Shapes
<1>6. Placed(w)'
  BY <1>2, <1>3, <1>4 DEF IInv, Placed, Free, Sending, InTransport, Answered,
                          Writer!Idle, Writer!NoFrame
<1>7. ASSUME NEW v \in Writers \ {w} PROVE Placed(v)'
  BY <1>2, <1>3, <1>7, OthersInv DEF IInv, Same
<1>. QED
  BY <1>5, <1>6, <1>7 DEF IInv

-----------------------------------------------------------------------------
(***************************************************************************)
(* The frame of w goes to the transport: the last one frees the writer.    *)
(***************************************************************************)
LEMMA TransportSendInv ==
    ASSUME IInv, NEW w \in Writers, Writer!TransportSend(w)
    PROVE  IInv'
<1>. DEFINE entry == [writer |-> w, frame |-> compounded[w]]
<1>1. /\ sendQueue' = Append(sendQueue, entry) /\ UNCHANGED acks
      /\ compounded' = [compounded EXCEPT ![w] = Writer!NoFrame]
      /\ \/ Writer!Ends(compounded[w]) /\ promise' = [promise EXCEPT ![w] = "null"]
         \/ ~Writer!Ends(compounded[w]) /\ UNCHANGED promise
  BY DEF Writer!TransportSend, Writer!Set
<1>2. Sending(w)
  BY DEF IInv, Writer!TransportSend, Placed, Free, InTransport, Answered
<1>3. entry.writer = w /\ entry.frame = compounded[w]
  OBVIOUS
<1>. HIDE DEF entry
<1>4. IsSequence(sendQueue)
  BY DEF IInv, Shapes
<1>5. Shapes'
  <2>1. \A i \in 1..Len(sendQueue') : sendQueue'[i].writer \in Writers
    <3>1. /\ Len(sendQueue) \in Nat /\ Len(sendQueue') = Len(sendQueue) + 1
          /\ sendQueue'[Len(sendQueue) + 1] = entry
          /\ \A i \in 1..Len(sendQueue) : sendQueue'[i] = sendQueue[i]
      BY <1>1, <1>4, Appended
    <3>2. \A i \in 1..Len(sendQueue') : i \in 1..Len(sendQueue) \/ i = Len(sendQueue) + 1
      BY <3>1
    <3>. QED
      BY <1>3, <3>1, <3>2 DEF IInv, Shapes
  <2>2. IsSequence(sendQueue')
    BY <1>1, <1>4, Appended
  <2>. QED
    BY <1>1, <2>1, <2>2 DEF IInv, Shapes
<1>6. Placed(w)'
  <2>1. Writer!Idle(w)' /\ NoneAcked(acks'[w])
    BY <1>1, <1>2 DEF IInv, Shapes, Sending, Writer!Idle, Writer!NoFrame
  <2>2. CASE Writer!Ends(compounded[w])
    <3>1. NoneQueued(sendQueue', w)
      BY <1>1, <1>2, <1>3, <1>4, <2>2, QueueAppended DEF Open, Sending
    <3>2. promise'[w] = "null"
      BY <1>1, <2>2 DEF IInv, Shapes
    <3>. QED
      BY <2>1, <3>1, <3>2 DEF Placed, Free
  <2>3. CASE ~Writer!Ends(compounded[w])
    <3>1. OneQueued(sendQueue', w)
      BY <1>1, <1>2, <1>3, <1>4, <2>3, QueueAppended DEF Open, Sending
    <3>. QED
      BY <1>1, <1>2, <2>1, <2>3, <3>1 DEF Placed, InTransport, Sending
  <2>. QED
    BY <2>2, <2>3
<1>7. ASSUME NEW v \in Writers \ {w} PROVE Placed(v)'
  <2>1. /\ NoneQueued(sendQueue, v) => NoneQueued(sendQueue', v)
        /\ OneQueued(sendQueue, v) => OneQueued(sendQueue', v)
    BY <1>1, <1>3, <1>4, <1>7, QueueAppended DEF Open
  <2>2. Same(v)
    BY <1>1, <1>7 DEF IInv, Shapes, Same
  <2>. QED
    BY <1>7, <2>1, <2>2 DEF IInv, Same, Placed, Free, Sending, InTransport, Answered,
                            Writer!Idle, Writer!NoFrame
<1>. QED
  BY <1>5, <1>6, <1>7 DEF IInv

\* The oldest frame has been sent, or not, and its writer is told.
LEMMA TransportSendsInv ==
    ASSUME IInv, NEW result, TransportSends(result)
    PROVE  IInv'
<1>. DEFINE first == Head(sendQueue)
            ack == [frame |-> first.frame, result |-> result]
<1>1. /\ sendQueue # <<>> /\ sendQueue' = Tail(sendQueue) /\ UNCHANGED <<compounded, promise>>
      /\ acks' = [acks EXCEPT ![first.writer] = Append(@, ack)]
  BY DEF TransportSends
<1>2. ack.frame = first.frame
  OBVIOUS
<1>. HIDE DEF ack
<1>3. /\ IsSequence(sendQueue) /\ IsSequence(sendQueue')
      /\ Len(sendQueue) \in Nat \ {0} /\ first = sendQueue[1]
      /\ Len(sendQueue') = Len(sendQueue) - 1
      /\ \A i \in 1..Len(sendQueue) - 1 : sendQueue'[i] = sendQueue[i + 1]
  BY <1>1, Taken DEF IInv, Shapes
<1>4. PICK w \in Writers : w = first.writer
  <2>1. 1 \in 1..Len(sendQueue)
    BY <1>3
  <2>. QED
    BY <1>3, <2>1 DEF IInv, Shapes
<1>5. /\ IsSequence(acks[w]) /\ acks'[w] = Append(acks[w], ack)
      /\ \A v \in Writers \ {w} : acks'[v] = acks[v]
  BY <1>1, <1>4 DEF IInv, Shapes
<1>6. Shapes'
  <2>1. IsSequence(acks'[w])
    BY <1>5, Appended
  <2>2. \A i \in 1..Len(sendQueue') : sendQueue'[i].writer \in Writers
    <3>1. \A i \in 1..Len(sendQueue') : i + 1 \in 1..Len(sendQueue)
                                        /\ sendQueue'[i] = sendQueue[i + 1]
      BY <1>3
    <3>. QED
      BY <3>1 DEF IInv, Shapes
  <2>. QED
    BY <1>1, <1>3, <1>4, <1>5, <2>1, <2>2 DEF IInv, Shapes
<1>7. Placed(w)'
  <2>1. Placed(w) /\ Writer!Idle(w)' = Writer!Idle(w) /\ promise'[w] = promise[w]
    BY <1>1, <1>4 DEF IInv, Writer!Idle, Writer!NoFrame
  <2>2. CASE Writer!Ends(first.frame)
    <3>1. ~Open(first, w)
      BY <2>2 DEF Open
    <3>2. /\ NoneQueued(sendQueue, w) => NoneQueued(sendQueue', w)
          /\ OneQueued(sendQueue, w) => OneQueued(sendQueue', w)
      BY <1>1, <1>3, <3>1, QueueTaken
    <3>3. /\ NoneAcked(acks[w]) => NoneAcked(acks'[w])
          /\ OneAcked(acks[w]) => OneAcked(acks'[w])
      BY <1>2, <1>5, <2>2, AckAppended
    <3>. QED
      BY <2>1, <3>2, <3>3 DEF Placed, Free, Sending, InTransport, Answered
  <2>3. CASE ~Writer!Ends(first.frame)
    <3>1. Open(first, w)
      BY <1>4, <2>3 DEF Open
    <3>2. InTransport(w) /\ NoneQueued(sendQueue', w)
      BY <1>1, <1>3, <2>1, <3>1, QueueTaken DEF Placed, Free, Sending, InTransport, Answered
    <3>3. OneAcked(acks'[w])
      BY <1>2, <1>5, <2>3, <3>2, AckAppended DEF InTransport
    <3>. QED
      BY <2>1, <3>2, <3>3 DEF Placed, InTransport, Answered
  <2>. QED
    BY <2>2, <2>3
<1>8. ASSUME NEW v \in Writers \ {w} PROVE Placed(v)'
  <2>1. ~Open(first, v)
    BY <1>4, <1>8 DEF Open
  <2>2. /\ NoneQueued(sendQueue, v) => NoneQueued(sendQueue', v)
        /\ OneQueued(sendQueue, v) => OneQueued(sendQueue', v)
    BY <1>1, <1>3, <2>1, QueueTaken
  <2>3. Same(v)
    BY <1>1, <1>5, <1>8 DEF Same
  <2>. QED
    BY <1>8, <2>2, <2>3 DEF IInv, Same, Placed, Free, Sending, InTransport, Answered,
                            Writer!Idle, Writer!NoFrame
<1>. QED
  BY <1>4, <1>6, <1>7, <1>8 DEF IInv

\* Every step keeps the invariant.
LEMMA NextInv == ASSUME IInv, [Next]_vars PROVE IInv'
<1>1. ASSUME NEW size, NEW encrypted,
             EnqueueSend(size, encrypted) \/ Dispatch(size, encrypted)
      PROVE  IInv'
  BY <1>1, StutterInv DEF EnqueueSend, Dispatch, framesUnchanged
<1>2. CASE OutStreamMessageHandler \/ RejectSendPromiseQueue \/ LogOutcome
  BY <1>2, StutterInv DEF OutStreamMessageHandler, RejectSendPromiseQueue, LogOutcome,
                          framesUnchanged
<1>3. ASSUME NEW result, TransportSends(result) PROVE IInv'
  BY <1>3, TransportSendsInv
<1>4. ASSUME NEW w \in Writers, WriterStep(w) PROVE IInv'
  BY <1>4, StreamInv, SplitInv, ForwardInv, TransportSendInv DEF WriterStep, Writer!Next
<1>5. CASE UNCHANGED vars
  BY <1>5, StutterInv DEF vars
<1>. QED
  BY <1>1, <1>2, <1>3, <1>4, <1>5 DEF Next

\* The inductive invariant holds of every behaviour.
THEOREM Invariance == Spec => []IInv
<1>1. Init => IInv
  BY InitInv
<1>2. IInv /\ [Next]_vars => IInv'
  BY NextInv
<1>. QED
  BY <1>1, <1>2, PTL DEF Spec

-----------------------------------------------------------------------------
\* Wherever the frame is, it is counted once.
LEMMA Counted == ASSUME IInv PROVE BusyWriterHasFrame
<1>. SUFFICES ASSUME NEW w \in Writers
              PROVE  Cardinality(UnderWay(w)) + Cardinality(AnswersOf(w))
                        + (IF Writer!Idle(w) THEN 0 ELSE 1)
                     = IF promise[w] = "set" THEN 1 ELSE 0
  BY DEF BusyWriterHasFrame
<1>1. DOMAIN sendQueue = 1..Len(sendQueue) /\ DOMAIN acks[w] = 1..Len(acks[w])
  <2>1. ASSUME NEW seq, IsSequence(seq) PROVE DOMAIN seq = 1..Len(seq)
    BY <2>1 DEF IsSequence
  <2>. QED
    BY <2>1 DEF IInv, Shapes
<1>2. /\ NoneQueued(sendQueue, w) => Cardinality(UnderWay(w)) = 0
      /\ NoneAcked(acks[w]) => Cardinality(AnswersOf(w)) = 0
  <2>1. NoneQueued(sendQueue, w) => UnderWay(w) = {}
    BY <1>1 DEF NoneQueued, UnderWay, Open
  <2>2. NoneAcked(acks[w]) => AnswersOf(w) = {}
    BY <1>1 DEF NoneAcked, AnswersOf
  <2>. QED
    BY <2>1, <2>2, FS_EmptySet
<1>3. OneQueued(sendQueue, w) => Cardinality(UnderWay(w)) = 1
  <2>1. OneQueued(sendQueue, w) => \E k : UnderWay(w) = {k}
    BY <1>1 DEF OneQueued, UnderWay, Open
  <2>. QED
    BY <2>1, FS_Singleton
<1>4. OneAcked(acks[w]) => Cardinality(AnswersOf(w)) = 1
  <2>1. OneAcked(acks[w]) => \E k : AnswersOf(w) = {k}
    BY <1>1 DEF OneAcked, AnswersOf
  <2>. QED
    BY <2>1, FS_Singleton
<1>. QED
  BY <1>2, <1>3, <1>4 DEF IInv, Placed, Free, Sending, InTransport, Answered

(***************************************************************************)
(* A writer that turns messages away has a frame whose outcome comes back  *)
(* to it, and no outcome finds a writer without its message, whatever the  *)
(* interleaving of the two writers and wherever a send or an encryption    *)
(* fails (MessageOutStream.cpp:38-96, MessageSender.cpp:82-150).           *)
(***************************************************************************)
THEOREM NoWriterIsWedged == Spec => []BusyWriterHasFrame
<1>1. IInv => BusyWriterHasFrame
  BY Counted
<1>. QED
  BY <1>1, Invariance, PTL

-----------------------------------------------------------------------------
(***************************************************************************)
(* The order of the frames.  For each writer a number separates what has   *)
(* left it from what is still to come: no frame on the wire or with the    *)
(* transport is of a message after it, no message that waits is before it, *)
(* and the message in progress is that one.                                *)
(***************************************************************************)
Before(a, b) == a.id <= b.id /\ (a.record = 0 \/ b.record = 0 \/ a.record < b.record)

InOrder(seq) ==
    \A i, j \in 1..Len(seq) :
        i < j /\ seq[i].writer = seq[j].writer => Before(seq[i].frame, seq[j].frame)
Rising(seq) == \A i, j \in 1..Len(seq) : i < j => seq[i].id <= seq[j].id

\* The entries that have left their writers.
Gone == ToSet(wire) \cup ToSet(sendQueue)

OrderShapes ==
    /\ IsSequence(wire) /\ IsSequence(channelSendPromiseQueue)
    /\ calls = [w \in Writers |-> calls[w]] /\ \A w \in Writers : IsSequence(calls[w])
    /\ sent = [w \in Writers |-> sent[w]] /\ \A w \in Writers : IsSequence(sent[w])
    /\ message = [w \in Writers |-> message[w]]
    /\ records \in Nat

FramesInv ==
    /\ \A e \in Gone : e.frame.id \in Nat /\ e.frame.record \in 0..records
    /\ InOrder(wire) /\ InOrder(sendQueue)
    /\ \A a \in ToSet(wire), b \in ToSet(sendQueue) :
          a.writer = b.writer => Before(a.frame, b.frame)
    /\ \A w \in Writers : ~Writer!Idle(w) =>
          /\ compounded[w].id = message[w].id
          /\ compounded[w].record \in 0..records
          /\ \A e \in Gone : e.writer = w =>
                \/ e.frame.record = 0 \/ compounded[w].record = 0
                \/ e.frame.record < compounded[w].record

CallsInv ==
    \A w \in Writers :
        /\ Rising(calls[w])
        /\ \A m \in ToSet(calls[w]) : m.id \in 0..Len(sent[w])
        /\ w = "messenger" =>
              /\ Rising(channelSendPromiseQueue)
              /\ \A q \in ToSet(channelSendPromiseQueue) :
                    /\ q.id \in 0..Len(sent[w])
                    /\ \A m \in ToSet(calls[w]) : m.id <= q.id

\* The messages of w that wait.
Ahead(w) ==
    ToSet(calls[w]) \cup (IF w = "messenger" THEN ToSet(channelSendPromiseQueue) ELSE {})

Level(w, n) ==
    /\ \A e \in Gone : e.writer = w => e.frame.id <= n
    /\ promise[w] = "set" => message[w].id = n
    /\ \A m \in Ahead(w) : n <= m.id

LevelInv == \A w \in Writers : \E n \in 0..Len(sent[w]) : Level(w, n)

OrderInv == OrderShapes /\ FramesInv /\ CallsInv /\ LevelInv

-----------------------------------------------------------------------------
(***************************************************************************)
(* The elements of a queue, and their order.                               *)
(***************************************************************************)
LEMMA Elements ==
    ASSUME NEW seq, IsSequence(seq)
    PROVE  Len(seq) \in Nat /\ ToSet(seq) = {seq[i] : i \in 1..Len(seq)}
<1>1. PICK S : seq \in Seq(S)
  BY DEF IsSequence
<1>2. Len(seq) \in Nat /\ DOMAIN seq = 1..Len(seq)
  BY <1>1
<1>. QED
  BY <1>2 DEF ToSet

LEMMA ElementsAppended ==
    ASSUME NEW seq, IsSequence(seq), NEW e
    PROVE  /\ IsSequence(Append(seq, e)) /\ ToSet(Append(seq, e)) = ToSet(seq) \cup {e}
           /\ InOrder(seq) /\ (\A x \in ToSet(seq) : x.writer = e.writer => Before(x.frame, e.frame))
                => InOrder(Append(seq, e))
           /\ Rising(seq) /\ (\A x \in ToSet(seq) : x.id <= e.id) => Rising(Append(seq, e))
<1>. DEFINE longer == Append(seq, e)
<1>1. /\ IsSequence(longer) /\ Len(seq) \in Nat
      /\ Len(longer) = Len(seq) + 1 /\ longer[Len(seq) + 1] = e
      /\ \A i \in 1..Len(seq) : longer[i] = seq[i]
  BY Appended
<1>. HIDE DEF longer
<1>2. /\ \A i \in 1..Len(longer) : i \in 1..Len(seq) \/ i = Len(seq) + 1
      /\ \A i \in 1..Len(seq) : i \in 1..Len(longer)
      /\ Len(seq) + 1 \in 1..Len(longer)
      /\ \A i, j \in 1..Len(longer) : i < j => i \in 1..Len(seq)
  BY <1>1
<1>3. /\ ToSet(longer) = {longer[i] : i \in 1..Len(longer)}
      /\ ToSet(seq) = {seq[i] : i \in 1..Len(seq)}
  BY <1>1, Elements
<1>4. ToSet(longer) = ToSet(seq) \cup {e}
  BY <1>1, <1>2, <1>3
<1>5. \A i \in 1..Len(seq) : seq[i] \in ToSet(seq)
  BY <1>3
<1>6. ASSUME InOrder(seq), \A x \in ToSet(seq) : x.writer = e.writer => Before(x.frame, e.frame)
      PROVE  InOrder(longer)
  BY <1>1, <1>2, <1>5, <1>6 DEF InOrder
<1>7. ASSUME Rising(seq), \A x \in ToSet(seq) : x.id <= e.id PROVE Rising(longer)
  BY <1>1, <1>2, <1>5, <1>7 DEF Rising
<1>. QED
  BY <1>1, <1>4, <1>6, <1>7 DEF longer

LEMMA ElementsTaken ==
    ASSUME NEW seq, IsSequence(seq), seq # <<>>
    PROVE  /\ IsSequence(Tail(seq)) /\ ToSet(Tail(seq)) \subseteq ToSet(seq)
           /\ Head(seq) \in ToSet(seq)
           /\ InOrder(seq) => /\ InOrder(Tail(seq))
                              /\ \A x \in ToSet(Tail(seq)) : Head(seq).writer = x.writer =>
                                    Before(Head(seq).frame, x.frame)
           /\ Rising(seq) => /\ Rising(Tail(seq))
                             /\ \A x \in ToSet(Tail(seq)) : Head(seq).id <= x.id
<1>. DEFINE shorter == Tail(seq)
<1>1. /\ IsSequence(shorter) /\ Len(seq) \in Nat \ {0} /\ Head(seq) = seq[1]
      /\ Len(shorter) = Len(seq) - 1
      /\ \A i \in 1..Len(seq) - 1 : shorter[i] = seq[i + 1]
  BY Taken
<1>. HIDE DEF shorter
<1>2. /\ \A i \in 1..Len(shorter) : i + 1 \in 1..Len(seq) /\ 1 < i + 1
                                    /\ shorter[i] = seq[i + 1]
      /\ \A i, j \in 1..Len(shorter) : i < j => i + 1 < j + 1
      /\ 1 \in 1..Len(seq)
  BY <1>1
<1>3. /\ ToSet(shorter) = {shorter[i] : i \in 1..Len(shorter)}
      /\ ToSet(seq) = {seq[i] : i \in 1..Len(seq)}
  BY <1>1, Elements
<1>4. ToSet(shorter) \subseteq ToSet(seq) /\ Head(seq) \in ToSet(seq)
  BY <1>1, <1>2, <1>3
<1>5. ASSUME InOrder(seq)
      PROVE  /\ InOrder(shorter)
             /\ \A x \in ToSet(shorter) : Head(seq).writer = x.writer =>
                    Before(Head(seq).frame, x.frame)
  BY <1>1, <1>2, <1>3, <1>5 DEF InOrder
<1>6. ASSUME Rising(seq)
      PROVE  Rising(shorter) /\ \A x \in ToSet(shorter) : Head(seq).id <= x.id
  BY <1>1, <1>2, <1>3, <1>6 DEF Rising
<1>. QED
  BY <1>1, <1>4, <1>5, <1>6 DEF shorter

\* The first element and those behind it are all.
LEMMA HeadAndRest ==
    ASSUME NEW seq, IsSequence(seq), seq # <<>>
    PROVE  ToSet(seq) = {Head(seq)} \cup ToSet(Tail(seq))
<1>. DEFINE shorter == Tail(seq)
<1>1. /\ IsSequence(shorter) /\ Len(seq) \in Nat \ {0} /\ Head(seq) = seq[1]
      /\ Len(shorter) = Len(seq) - 1
      /\ \A i \in 1..Len(seq) - 1 : shorter[i] = seq[i + 1]
  BY Taken
<1>. HIDE DEF shorter
<1>2. /\ ToSet(shorter) = {shorter[i] : i \in 1..Len(shorter)}
      /\ ToSet(seq) = {seq[i] : i \in 1..Len(seq)}
  BY <1>1, Elements
<1>3. \A i \in 1..Len(seq) : i = 1 \/ (i - 1 \in 1..Len(shorter) /\ seq[i] = shorter[i - 1])
  BY <1>1
<1>4. \A i \in 1..Len(shorter) : i + 1 \in 1..Len(seq) /\ shorter[i] = seq[i + 1]
  BY <1>1
<1>5. 1 \in 1..Len(seq)
  BY <1>1
<1>. QED
  BY <1>1, <1>2, <1>3, <1>4, <1>5 DEF shorter

LEMMA NoElements ==
    ToSet(<<>>) = {} /\ IsSequence(<<>>) /\ InOrder(<<>>) /\ Rising(<<>>)
<1>1. IsSequence(<<>>) /\ Len(<<>>) = 0 /\ 1..0 = {}
  BY Empty
<1>2. ToSet(<<>>) = {}
  BY <1>1, Elements
<1>. QED
  BY <1>1, <1>2 DEF InOrder, Rising

\* Taking an element out leaves the others in their order.
LEMMA ElementsRemoved ==
    ASSUME NEW seq, IsSequence(seq), NEW i \in DOMAIN seq
    PROVE  /\ IsSequence(RemoveAt(seq, i)) /\ ToSet(RemoveAt(seq, i)) \subseteq ToSet(seq)
           /\ Rising(seq) => Rising(RemoveAt(seq, i))
<1>1. PICK S : seq \in Seq(S)
  BY DEF IsSequence
<1>2. /\ Len(seq) \in Nat /\ i \in 1..Len(seq) /\ \A k \in 1..Len(seq) : seq[k] \in S
  BY <1>1
<1>. DEFINE front == SubSeq(seq, 1, i - 1)
            back == SubSeq(seq, i + 1, Len(seq))
            rest == RemoveAt(seq, i)
<1>3. /\ 1 \in Int /\ i - 1 \in Int /\ i + 1 \in Int /\ Len(seq) \in Int
      /\ \A k \in 1..i - 1 : seq[k] \in S
      /\ \A k \in i + 1..Len(seq) : seq[k] \in S
  BY <1>2
<1>4. /\ front \in Seq(S) /\ Len(front) = IF 1 <= i - 1 THEN i - 1 - 1 + 1 ELSE 0
      /\ \A k \in 1..i - 1 - 1 + 1 : front[k] = seq[1 + k - 1]
  BY <1>3, SubSeqProperties, SMT
<1>5. /\ back \in Seq(S)
      /\ Len(back) = IF i + 1 <= Len(seq) THEN Len(seq) - (i + 1) + 1 ELSE 0
      /\ \A k \in 1..Len(seq) - (i + 1) + 1 : back[k] = seq[i + 1 + k - 1]
  BY <1>3, SubSeqProperties, SMT
<1>. HIDE DEF front, back
<1>6. /\ Len(front) = i - 1 /\ \A k \in 1..i - 1 : front[k] = seq[k]
      /\ Len(back) = Len(seq) - i /\ \A k \in 1..Len(seq) - i : back[k] = seq[i + k]
  <2>1. Len(front) = i - 1 /\ Len(back) = Len(seq) - i
    BY <1>2, <1>4, <1>5
  <2>2. /\ \A k \in 1..i - 1 : k \in 1..i - 1 - 1 + 1 /\ 1 + k - 1 = k
        /\ \A k \in 1..Len(seq) - i : k \in 1..Len(seq) - (i + 1) + 1 /\ i + 1 + k - 1 = i + k
    BY <1>2
  <2>3. \A k \in 1..i - 1 : front[k] = seq[k]
    BY <1>4, <2>2, Zenon
  <2>4. \A k \in 1..Len(seq) - i : back[k] = seq[i + k]
    BY <1>5, <2>2, Zenon
  <2>. QED
    BY <2>1, <2>3, <2>4
<1>7. /\ rest \in Seq(S) /\ Len(rest) = Len(front) + Len(back)
      /\ \A k \in 1..Len(front) + Len(back) : rest[k] =
            IF k <= Len(front) THEN front[k] ELSE back[k - Len(front)]
  BY <1>4, <1>5, ConcatProperties, Zenon DEF front, back, RemoveAt
<1>. HIDE DEF rest
<1>8. /\ Len(rest) = Len(seq) - 1
      /\ \A k \in 1..Len(rest) : rest[k] = seq[IF k < i THEN k ELSE k + 1]
  <2>1. /\ Len(rest) = Len(seq) - 1 /\ Len(front) = i - 1
        /\ \A k \in 1..Len(seq) - 1 : rest[k] =
              IF k <= i - 1 THEN front[k] ELSE back[k - (i - 1)]
    <3>1. Len(front) + Len(back) = Len(seq) - 1
      BY <1>2, <1>6
    <3>. QED
      BY <1>6, <1>7, <3>1, Zenon
  <2>2. ASSUME NEW k \in 1..Len(rest), k < i PROVE rest[k] = seq[k]
    <3>1. k \in 1..i - 1 /\ k \in 1..Len(seq) - 1 /\ k <= i - 1
      BY <1>2, <2>1, <2>2
    <3>. QED
      BY <1>6, <2>1, <3>1, Zenon
  <2>3. ASSUME NEW k \in 1..Len(rest), ~ k < i PROVE rest[k] = seq[k + 1]
    <3>1. /\ k - (i - 1) \in 1..Len(seq) - i /\ i + (k - (i - 1)) = k + 1
          /\ k \in 1..Len(seq) - 1 /\ ~ k <= i - 1
      BY <1>2, <2>1, <2>3
    <3>2. rest[k] = back[k - (i - 1)]
      BY <2>1, <3>1, Zenon
    <3>3. back[k - (i - 1)] = seq[i + (k - (i - 1))]
      BY <1>6, <3>1, Zenon
    <3>. QED
      BY <3>1, <3>2, <3>3
  <2>. QED
    BY <2>1, <2>2, <2>3
<1>9. /\ \A k \in 1..Len(rest) : (IF k < i THEN k ELSE k + 1) \in 1..Len(seq)
      /\ \A k, l \in 1..Len(rest) : k < l =>
            (IF k < i THEN k ELSE k + 1) < (IF l < i THEN l ELSE l + 1)
  BY <1>2, <1>8
<1>10. ToSet(rest) \subseteq ToSet(seq)
  <2>1. /\ ToSet(rest) = {rest[k] : k \in 1..Len(rest)}
        /\ ToSet(seq) = {seq[k] : k \in 1..Len(seq)}
    BY <1>1, <1>7, Elements DEF IsSequence
  <2>. QED
    BY <1>8, <1>9, <2>1
<1>11. Rising(seq) => Rising(rest)
  BY <1>8, <1>9 DEF Rising
<1>. QED
  BY <1>7, <1>10, <1>11 DEF IsSequence, rest

-----------------------------------------------------------------------------
\* Initially there are no frames and no messages.
LEMMA OrderInit == ASSUME Init PROVE OrderInv
<1>. USE DEF Init, Writer!Init
<1>1. OrderShapes
  BY NoElements DEF OrderShapes
<1>2. Gone = {} /\ \A w \in Writers : Writer!Idle(w)
  BY NoElements DEF Gone, Writer!Idle
<1>3. FramesInv
  BY <1>2, NoElements DEF FramesInv, Gone
<1>4. ASSUME NEW w \in Writers PROVE Len(sent[w]) = 0 /\ Ahead(w) = {} /\ promise[w] = "null"
  BY NoElements, Empty DEF Ahead
<1>5. CallsInv
  BY <1>4, NoElements DEF CallsInv
<1>6. LevelInv
  BY <1>2, <1>4 DEF LevelInv, Level
<1>. QED
  BY <1>1, <1>3, <1>5, <1>6 DEF OrderInv

(***************************************************************************)
(* Steps of the messenger and the handlers leave the frames alone.         *)
(***************************************************************************)
LEMMA FramesSame ==
    ASSUME UNCHANGED <<message, promise, compounded, records, sendQueue, wire>>
    PROVE  /\ FramesInv => FramesInv'
           /\ Gone' = Gone /\ \A w : promise'[w] = promise[w] /\ message'[w] = message[w]
BY DEF FramesInv, Gone, InOrder, Before, Writer!Idle, Writer!NoFrame

\* A message asked for gets a number above those of the messages before it.
LEMMA Asked ==
    ASSUME OrderShapes, NEW w \in Writers, NEW size, Ask(w, size)
    PROVE  /\ sent' = [v \in Writers |-> sent'[v]] /\ \A v \in Writers : IsSequence(sent'[v])
           /\ Len(sent[w]) \in Nat /\ Len(sent'[w]) = Len(sent[w]) + 1
           /\ \A v \in Writers \ {w} : sent'[v] = sent[v]
BY Appended DEF Ask, OrderShapes

LEMMA EnqueueSendOrder ==
    ASSUME OrderInv, NEW size, NEW encrypted, EnqueueSend(size, encrypted)
    PROVE  OrderInv'
<1>. DEFINE w == "messenger"
            queue == channelSendPromiseQueue
            m == NewMessage(w, size, encrypted)
<1>1. /\ w \in Writers /\ Ask(w, size) /\ queue' = Append(queue, m)
      /\ \/ queue = <<>> /\ calls' = [calls EXCEPT ![w] = Append(@, m)]
         \/ queue # <<>> /\ calls' = calls
      /\ UNCHANGED <<message, promise, compounded, records, sendQueue, wire>>
  <2>1. <<m>> # <<>> /\ Head(<<m>>) = m
    OBVIOUS
  <2>. QED
    BY <2>1 DEF EnqueueSend, DoSend, framesUnchanged
<1>2. m.id = Len(sent[w]) + 1
  BY DEF NewMessage
<1>. HIDE DEF m
<1>3. /\ sent' = [v \in Writers |-> sent'[v]] /\ \A v \in Writers : IsSequence(sent'[v])
      /\ Len(sent[w]) \in Nat /\ Len(sent'[w]) = Len(sent[w]) + 1
      /\ \A v \in Writers \ {w} : sent'[v] = sent[v]
  BY <1>1, Asked DEF OrderInv
<1>4. /\ IsSequence(queue) /\ IsSequence(calls[w])
      /\ Rising(calls[w]) /\ Rising(queue)
      /\ \A x \in ToSet(calls[w]) \cup ToSet(queue) : x.id \in 0..Len(sent[w]) /\ x.id <= m.id
      /\ \A x \in ToSet(calls[w]), q \in ToSet(queue) : x.id <= q.id
  BY <1>1, <1>2, <1>3 DEF OrderInv, OrderShapes, CallsInv
<1>5. /\ IsSequence(queue') /\ ToSet(queue') = ToSet(queue) \cup {m} /\ Rising(queue')
  BY <1>1, <1>4, ElementsAppended
<1>6. /\ calls' = [v \in Writers |-> calls'[v]]
      /\ \A v \in Writers \ {w} : calls'[v] = calls[v]
      /\ IsSequence(calls'[w]) /\ Rising(calls'[w])
      /\ \/ calls'[w] = calls[w]
         \/ queue = <<>> /\ ToSet(calls'[w]) = ToSet(calls[w]) \cup {m}
  <2>1. /\ IsSequence(Append(calls[w], m)) /\ Rising(Append(calls[w], m))
        /\ ToSet(Append(calls[w], m)) = ToSet(calls[w]) \cup {m}
    BY <1>4, ElementsAppended
  <2>. QED
    BY <1>1, <1>4, <2>1 DEF OrderInv, OrderShapes
<1>7. OrderShapes'
  BY <1>1, <1>3, <1>5, <1>6 DEF OrderInv, OrderShapes
<1>8. /\ \A x \in ToSet(calls'[w]) \cup ToSet(queue') :
            x = m \/ x \in ToSet(calls[w]) \cup ToSet(queue)
      /\ \A x \in ToSet(calls'[w]), q \in ToSet(queue') : x.id <= q.id
  <2>1. m.id <= m.id /\ ToSet(<<>>) = {}
    BY <1>2, <1>3, NoElements
  <2>2. CASE calls'[w] = calls[w]
    BY <1>4, <1>5, <2>2
  <2>3. CASE queue = <<>> /\ ToSet(calls'[w]) = ToSet(calls[w]) \cup {m}
    BY <1>4, <1>5, <2>1, <2>3
  <2>. QED
    BY <1>6, <2>2, <2>3
<1>9. CallsInv'
  <2>1. \A x \in ToSet(calls'[w]) \cup ToSet(queue') : x.id \in 0..Len(sent'[w])
    BY <1>2, <1>3, <1>4, <1>8
  <2>. QED
    BY <1>3, <1>5, <1>6, <1>8, <2>1 DEF OrderInv, CallsInv
<1>10. LevelInv'
  <2>1. Gone' = Gone /\ \A v : promise'[v] = promise[v] /\ message'[v] = message[v]
    BY <1>1, FramesSame
  <2>2. ASSUME NEW v \in Writers \ {w} PROVE \E n \in 0..Len(sent'[v]) : Level(v, n)'
    BY <1>3, <1>6, <2>1, <2>2 DEF OrderInv, LevelInv, Level, Ahead
  <2>3. \E n \in 0..Len(sent'[w]) : Level(w, n)'
    <3>1. PICK n \in 0..Len(sent[w]) : Level(w, n)
      BY <1>1 DEF OrderInv, LevelInv
    <3>2. n \in 0..Len(sent'[w]) /\ n <= m.id
      BY <1>2, <1>3, <3>1
    <3>3. \A x \in ToSet(calls'[w]) \cup ToSet(queue') : n <= x.id
      BY <1>8, <3>1, <3>2 DEF Level, Ahead
    <3>. QED
      BY <2>1, <3>1, <3>2, <3>3 DEF Level, Ahead
  <2>. QED
    BY <2>2, <2>3 DEF LevelInv
<1>. QED
  BY <1>1, <1>7, <1>9, <1>10, FramesSame DEF OrderInv

LEMMA DispatchOrder ==
    ASSUME OrderInv, NEW size, NEW encrypted, Dispatch(size, encrypted)
    PROVE  OrderInv'
<1>. DEFINE w == "sender"
            m == NewMessage(w, size, encrypted)
<1>1. /\ w \in Writers /\ Ask(w, size) /\ calls' = [calls EXCEPT ![w] = Append(@, m)]
      /\ UNCHANGED channelSendPromiseQueue
      /\ UNCHANGED <<message, promise, compounded, records, sendQueue, wire>>
  BY DEF Dispatch, framesUnchanged
<1>2. m.id = Len(sent[w]) + 1 /\ w # "messenger"
  BY DEF NewMessage
<1>. HIDE DEF m
<1>3. /\ sent' = [v \in Writers |-> sent'[v]] /\ \A v \in Writers : IsSequence(sent'[v])
      /\ Len(sent[w]) \in Nat /\ Len(sent'[w]) = Len(sent[w]) + 1
      /\ \A v \in Writers \ {w} : sent'[v] = sent[v]
  BY <1>1, Asked DEF OrderInv
<1>4. /\ IsSequence(calls[w]) /\ Rising(calls[w])
      /\ \A x \in ToSet(calls[w]) : x.id \in 0..Len(sent[w]) /\ x.id <= m.id
  BY <1>1, <1>2, <1>3 DEF OrderInv, OrderShapes, CallsInv
<1>5. /\ calls' = [v \in Writers |-> calls'[v]]
      /\ \A v \in Writers \ {w} : calls'[v] = calls[v]
      /\ IsSequence(calls'[w]) /\ Rising(calls'[w])
      /\ ToSet(calls'[w]) = ToSet(calls[w]) \cup {m}
  <2>1. /\ IsSequence(Append(calls[w], m)) /\ Rising(Append(calls[w], m))
        /\ ToSet(Append(calls[w], m)) = ToSet(calls[w]) \cup {m}
    BY <1>4, ElementsAppended
  <2>. QED
    BY <1>1, <2>1 DEF OrderInv, OrderShapes
<1>6. OrderShapes'
  BY <1>1, <1>3, <1>5 DEF OrderInv, OrderShapes
<1>7. CallsInv'
  <2>1. \A x \in ToSet(calls'[w]) : x.id \in 0..Len(sent'[w])
    BY <1>2, <1>3, <1>4, <1>5
  <2>. QED
    BY <1>1, <1>2, <1>3, <1>5, <2>1 DEF OrderInv, CallsInv, Rising
<1>8. LevelInv'
  <2>1. Gone' = Gone /\ \A v : promise'[v] = promise[v] /\ message'[v] = message[v]
    BY <1>1, FramesSame
  <2>2. ASSUME NEW v \in Writers \ {w} PROVE \E n \in 0..Len(sent'[v]) : Level(v, n)'
    BY <1>1, <1>3, <1>5, <2>1, <2>2 DEF OrderInv, LevelInv, Level, Ahead
  <2>3. \E n \in 0..Len(sent'[w]) : Level(w, n)'
    <3>1. PICK n \in 0..Len(sent[w]) : Level(w, n)
      BY <1>1 DEF OrderInv, LevelInv
    <3>2. n \in 0..Len(sent'[w]) /\ n <= m.id
      BY <1>2, <1>3, <3>1
    <3>3. \A x \in ToSet(calls'[w]) : n <= x.id
      BY <1>5, <3>1, <3>2 DEF Level, Ahead
    <3>. QED
      BY <1>2, <2>1, <3>1, <3>2, <3>3 DEF Level, Ahead
  <2>. QED
    BY <2>2, <2>3 DEF LevelInv
<1>. QED
  BY <1>1, <1>6, <1>7, <1>8, FramesSame DEF OrderInv

\* A function on the places of a sequence is one of the same length.
LEMMA Mapped ==
    ASSUME NEW seq, IsSequence(seq), NEW map, map = [i \in DOMAIN seq |-> map[i]]
    PROVE  IsSequence(map) /\ Len(map) = Len(seq)
<1>1. PICK S : seq \in Seq(S)
  BY DEF IsSequence
<1>2. Len(seq) \in Nat /\ DOMAIN seq = 1..Len(seq)
  BY <1>1
<1>. DEFINE T == {map[i] : i \in 1..Len(seq)}
<1>3. map \in [1..Len(seq) -> T]
  <2>1. map = [i \in 1..Len(seq) |-> map[i]] /\ \A i \in 1..Len(seq) : map[i] \in T
    BY <1>2
  <2>. QED
    BY <2>1
<1>. HIDE DEF T
<1>4. map \in UNION {[1..m -> T] : m \in Nat}
  BY <1>2, <1>3
<1>5. map \in Seq(T)
  BY <1>4, SeqDef, Zenon
<1>6. DOMAIN map = 1..Len(map) /\ Len(map) \in Nat /\ DOMAIN map = 1..Len(seq)
  BY <1>3, <1>5, LenProperties, Zenon
<1>7. Len(map) = Len(seq)
  BY <1>2, <1>6
<1>8. IsSequence(map)
  BY <1>5, Zenon DEF IsSequence
<1>. QED
  BY <1>7, <1>8

\* Settling messages keeps their number.
Counts ==
    /\ sent' = [v \in Writers |-> sent'[v]]
    /\ \A v \in Writers : IsSequence(sent'[v]) /\ Len(sent'[v]) = Len(sent[v])

LEMMA Settled ==
    ASSUME OrderShapes, NEW w \in Writers, NEW map,
           map = [i \in DOMAIN sent[w] |-> map[i]], sent' = [sent EXCEPT ![w] = map]
    PROVE  Counts
<1>1. IsSequence(map) /\ Len(map) = Len(sent[w])
  BY Mapped DEF OrderShapes
<1>. QED
  BY <1>1 DEF OrderShapes, Counts

LEMMA SettleOne ==
    ASSUME OrderShapes, NEW w \in Writers, NEW id, NEW result, Settle(w, id, result)
    PROVE  Counts
<1>. DEFINE map == [sent[w] EXCEPT ![id].promise = result]
<1>1. sent' = [sent EXCEPT ![w] = map]
  BY DEF Settle
<1>2. map = [i \in DOMAIN sent[w] |-> map[i]]
  OBVIOUS
<1>. HIDE DEF map
<1>. QED
  BY <1>1, <1>2, Settled

(***************************************************************************)
(* A step that takes messages of the messenger from its queue, and may     *)
(* have it stream one that is before those left.                           *)
(***************************************************************************)
LEMMA QueueStepOrder ==
    ASSUME OrderInv, Counts,
           UNCHANGED <<message, promise, compounded, records, sendQueue, wire>>,
           IsSequence(channelSendPromiseQueue'),
           Rising(channelSendPromiseQueue) => Rising(channelSendPromiseQueue'),
           ToSet(channelSendPromiseQueue') \subseteq ToSet(channelSendPromiseQueue),
           \/ UNCHANGED calls
           \/ /\ channelSendPromiseQueue' # <<>>
              /\ calls' = [calls EXCEPT !["messenger"] =
                              Append(@, Head(channelSendPromiseQueue'))]
    PROVE  OrderInv'
<1>. DEFINE w == "messenger"
            queue == channelSendPromiseQueue
<1>1. Gone' = Gone /\ \A v : promise'[v] = promise[v] /\ message'[v] = message[v]
  BY FramesSame
<1>2. CASE UNCHANGED calls \/ w \notin Writers
  <2>1. UNCHANGED calls
    BY <1>2 DEF OrderInv, OrderShapes
  <2>2. OrderShapes'
    BY <2>1 DEF OrderInv, OrderShapes, Counts
  <2>3. CallsInv'
    BY <2>1 DEF OrderInv, CallsInv, Counts, Rising
  <2>4. LevelInv'
    BY <1>1, <2>1 DEF OrderInv, LevelInv, Level, Ahead, Counts
  <2>. QED
    BY <2>2, <2>3, <2>4, FramesSame DEF OrderInv
<1>3. CASE ~UNCHANGED calls /\ w \in Writers
  <2>. DEFINE m == Head(queue')
  <2>1. queue' # <<>> /\ calls' = [calls EXCEPT ![w] = Append(@, m)]
    BY <1>3
  <2>2. /\ IsSequence(calls[w]) /\ Rising(calls[w]) /\ Rising(queue) /\ Rising(queue')
        /\ \A x \in ToSet(calls[w]) \cup ToSet(queue') : x.id \in 0..Len(sent[w])
        /\ \A x \in ToSet(calls[w]), q \in ToSet(queue') : x.id <= q.id
    BY <1>3 DEF OrderInv, OrderShapes, CallsInv
  <2>3. m \in ToSet(queue') /\ \A q \in ToSet(queue') : m.id <= q.id
    <3>1. m \in ToSet(queue') /\ \A q \in ToSet(Tail(queue')) : m.id <= q.id
      BY <2>1, <2>2, ElementsTaken
    <3>2. ToSet(queue') = {m} \cup ToSet(Tail(queue'))
      BY <2>1, HeadAndRest
    <3>. QED
      BY <2>2, <3>1, <3>2
  <2>. HIDE DEF m
  <2>4. /\ IsSequence(Append(calls[w], m)) /\ Rising(Append(calls[w], m))
        /\ ToSet(Append(calls[w], m)) = ToSet(calls[w]) \cup {m}
    BY <2>2, <2>3, ElementsAppended
  <2>5. /\ calls' = [v \in Writers |-> calls'[v]]
        /\ \A v \in Writers \ {w} : calls'[v] = calls[v]
        /\ IsSequence(calls'[w]) /\ Rising(calls'[w])
        /\ ToSet(calls'[w]) = ToSet(calls[w]) \cup {m}
    BY <1>3, <2>1, <2>4 DEF OrderInv, OrderShapes
  <2>6. OrderShapes'
    BY <2>2, <2>5 DEF OrderInv, OrderShapes, Counts
  <2>7. /\ \A x \in ToSet(calls'[w]) \cup ToSet(queue') :
              /\ x \in ToSet(calls[w]) \cup ToSet(queue)
              /\ x.id \in 0..Len(sent[w])
        /\ \A x \in ToSet(calls'[w]), q \in ToSet(queue') : x.id <= q.id
    BY <2>2, <2>3, <2>5
  <2>8. CallsInv'
    BY <2>2, <2>5, <2>7 DEF OrderInv, CallsInv, Counts
  <2>9. LevelInv'
    <3>1. ASSUME NEW v \in Writers \ {w} PROVE \E n \in 0..Len(sent'[v]) : Level(v, n)'
      BY <1>1, <2>5, <3>1 DEF OrderInv, LevelInv, Level, Ahead, Counts
    <3>2. \E n \in 0..Len(sent'[w]) : Level(w, n)'
      BY <1>1, <1>3, <2>7 DEF OrderInv, LevelInv, Level, Ahead, Counts
    <3>. QED
      BY <3>1, <3>2 DEF LevelInv
  <2>. QED
    BY <2>6, <2>8, <2>9, FramesSame DEF OrderInv
<1>. QED
  BY <1>2, <1>3

LEMMA HandlerOrder ==
    ASSUME OrderInv, OutStreamMessageHandler
    PROVE  OrderInv'
<1>1. /\ "messenger" \in Writers /\ Counts
      /\ UNCHANGED <<message, promise, compounded, records, sendQueue, wire>>
      /\ DoSend(channelSendPromiseQueue')
  BY SettleOne DEF OutStreamMessageHandler, Outcome, framesUnchanged, OrderInv
<1>2. PICK i \in DOMAIN channelSendPromiseQueue :
        channelSendPromiseQueue' = RemoveAt(channelSendPromiseQueue, i)
  BY DEF OutStreamMessageHandler, Erase
<1>3. /\ IsSequence(channelSendPromiseQueue')
      /\ ToSet(channelSendPromiseQueue') \subseteq ToSet(channelSendPromiseQueue)
      /\ Rising(channelSendPromiseQueue) => Rising(channelSendPromiseQueue')
  BY <1>2, ElementsRemoved DEF OrderInv, OrderShapes
<1>. QED
  BY <1>1, <1>3, QueueStepOrder DEF DoSend

LEMMA RejectOrder ==
    ASSUME OrderInv, RejectSendPromiseQueue
    PROVE  OrderInv'
<1>1. Counts
  <2>. DEFINE old == sent["messenger"]
              map == [id \in DOMAIN old |->
                        IF old[id].promise = "waiting" THEN [old[id] EXCEPT !.promise = "rejected"]
                        ELSE old[id]]
  <2>1. "messenger" \in Writers /\ sent' = [sent EXCEPT !["messenger"] = map]
    BY DEF RejectSendPromiseQueue, Outcome
  <2>2. map = [id \in DOMAIN sent["messenger"] |-> map[id]]
    OBVIOUS
  <2>. HIDE DEF map
  <2>. QED
    BY <2>1, <2>2, Settled DEF OrderInv
<1>2. /\ channelSendPromiseQueue' = <<>> /\ UNCHANGED calls
      /\ UNCHANGED <<message, promise, compounded, records, sendQueue, wire>>
  BY DEF RejectSendPromiseQueue, framesUnchanged
<1>. QED
  BY <1>1, <1>2, NoElements, QueueStepOrder

LEMMA LogOrder ==
    ASSUME OrderInv, LogOutcome
    PROVE  OrderInv'
<1>1. Counts
  BY SettleOne DEF LogOutcome, OrderInv
<1>2. /\ UNCHANGED <<channelSendPromiseQueue, calls>>
      /\ UNCHANGED <<message, promise, compounded, records, sendQueue, wire>>
  BY DEF LogOutcome, framesUnchanged
<1>. QED
  BY <1>1, <1>2, QueueStepOrder DEF OrderInv, OrderShapes

(***************************************************************************)
(* Steps of a writer.  What it makes of a message that is not before those *)
(* gone is not before them, and its record is the latest.                  *)
(***************************************************************************)
LEMMA CompoundOrder ==
    ASSUME OrderInv, Shapes, NEW w \in Writers, NEW m, NEW off, NEW rest,
           Writer!Idle(w), Writer!Compound(w, m, off, rest), UNCHANGED <<wire, sendQueue>>
    PROVE  /\ message' = [v \in Writers |-> message'[v]] /\ records' \in Nat /\ FramesInv'
           /\ \A v \in Writers \ {w} : message'[v] = message[v] /\ promise'[v] = promise[v]
           /\ promise'[w] = "set" => message'[w] = m
<1>1. /\ message = [v \in Writers |-> message[v]] /\ records \in Nat
      /\ promise = [v \in Writers |-> promise[v]]
      /\ compounded = [v \in Writers |-> compounded[v]]
      /\ \A e \in Gone : e.frame.id \in Nat /\ e.frame.record \in 0..records
      /\ InOrder(wire) /\ InOrder(sendQueue)
      /\ \A a \in ToSet(wire), b \in ToSet(sendQueue) :
            a.writer = b.writer => Before(a.frame, b.frame)
      /\ Gone' = Gone /\ InOrder(wire)' = InOrder(wire) /\ InOrder(sendQueue)' = InOrder(sendQueue)
  BY DEF OrderInv, OrderShapes, FramesInv, Shapes, Gone, InOrder, Before
<1>2. \A v \in Writers : ~Writer!Idle(v) =>
            /\ compounded[v].id = message[v].id
            /\ compounded[v].record \in 0..records
            /\ \A e \in Gone : e.writer = v =>
                  \/ e.frame.record = 0 \/ compounded[v].record = 0
                  \/ e.frame.record < compounded[v].record
  BY DEF OrderInv, FramesInv
<1>3. \/ /\ promise' = [promise EXCEPT ![w] = "set"] /\ message' = [message EXCEPT ![w] = m]
         /\ records' \in {records, records + 1}
         /\ \E frame :
              /\ compounded' = [compounded EXCEPT ![w] = frame]
              /\ frame.id = m.id
              /\ frame.record = 0 \/ (frame.record = records' /\ records' = records + 1)
      \/ /\ promise' = [promise EXCEPT ![w] = "null"]
         /\ message' = [message EXCEPT ![w] = Writer!NoMessage]
         /\ UNCHANGED <<records, compounded>>
  <2>1. CASE promise' = [promise EXCEPT ![w] = "set"] /\ message' = [message EXCEPT ![w] = m]
             /\ records' = (IF m.encrypted THEN records + 1 ELSE records)
             /\ \E type, size : compounded' = [compounded EXCEPT ![w] =
                    [id |-> m.id, type |-> type, size |-> size,
                     record |-> IF m.encrypted THEN records' ELSE 0]]
    <3>1. PICK type, size : compounded' = [compounded EXCEPT ![w] =
                    [id |-> m.id, type |-> type, size |-> size,
                     record |-> IF m.encrypted THEN records' ELSE 0]]
      BY <2>1
    <3>. DEFINE frame == [id |-> m.id, type |-> type, size |-> size,
                          record |-> IF m.encrypted THEN records' ELSE 0]
    <3>2. /\ compounded' = [compounded EXCEPT ![w] = frame] /\ frame.id = m.id
          /\ frame.record = 0 \/ (frame.record = records' /\ records' = records + 1)
      BY <2>1, <3>1
    <3>. HIDE DEF frame
    <3>. QED
      BY <2>1, <3>2
  <2>. QED
    BY <2>1 DEF Writer!Compound, Writer!Reset, Writer!Reject, Writer!Set
<1>4. /\ message' = [v \in Writers |-> message'[v]] /\ records' \in Nat /\ records <= records'
      /\ \A v \in Writers \ {w} :
            /\ message'[v] = message[v] /\ promise'[v] = promise[v]
            /\ compounded'[v] = compounded[v]
  BY <1>1, <1>3
<1>5. promise'[w] = "set" => message'[w] = m
  BY <1>1, <1>3
<1>6. \A e \in Gone' : e.frame.id \in Nat /\ e.frame.record \in 0..records'
  BY <1>1, <1>4
<1>7. ~Writer!Idle(w)' =>
            /\ compounded'[w].id = message'[w].id
            /\ compounded'[w].record \in 0..records'
            /\ \A e \in Gone' : e.writer = w =>
                  \/ e.frame.record = 0 \/ compounded'[w].record = 0
                  \/ e.frame.record < compounded'[w].record
  <2>1. CASE UNCHANGED compounded
    BY <2>1 DEF Writer!Idle, Writer!NoFrame
  <2>2. CASE /\ message' = [message EXCEPT ![w] = m]
             /\ \E frame :
                  /\ compounded' = [compounded EXCEPT ![w] = frame]
                  /\ frame.id = m.id
                  /\ frame.record = 0 \/ (frame.record = records' /\ records' = records + 1)
    <3>1. /\ compounded'[w].id = m.id /\ message'[w] = m
          /\ \/ compounded'[w].record = 0
             \/ compounded'[w].record = records' /\ records' = records + 1
      BY <1>1, <2>2
    <3>. QED
      BY <1>1, <1>4, <3>1
  <2>. QED
    BY <1>3, <2>1, <2>2
<1>8. \A v \in Writers \ {w} : ~Writer!Idle(v)' =>
            /\ compounded'[v].id = message'[v].id
            /\ compounded'[v].record \in 0..records'
            /\ \A e \in Gone' : e.writer = v =>
                  \/ e.frame.record = 0 \/ compounded'[v].record = 0
                  \/ e.frame.record < compounded'[v].record
  <2>1. ASSUME NEW v \in Writers \ {w}, ~Writer!Idle(v)' PROVE ~Writer!Idle(v)
    BY <1>4, <2>1 DEF Writer!Idle, Writer!NoFrame
  <2>. QED
    BY <1>1, <1>2, <1>4, <2>1
<1>9. \A a \in ToSet(wire'), b \in ToSet(sendQueue') :
            a.writer = b.writer => Before(a.frame, b.frame)
  BY <1>1
<1>10. FramesInv'
  BY <1>1, <1>6, <1>7, <1>8, <1>9 DEF FramesInv, Before
<1>. QED
  BY <1>4, <1>5, <1>10

LEMMA StreamOrder ==
    ASSUME OrderInv, IInv, NEW w \in Writers, Writer!Stream(w),
           UNCHANGED <<channelSendPromiseQueue, wire, sent>>
    PROVE  OrderInv'
<1>0. PICK m : m = Head(calls[w])
  OBVIOUS
<1>1. /\ calls[w] # <<>> /\ IsSequence(calls[w]) /\ Writer!Idle(w)
      /\ calls' = [calls EXCEPT ![w] = Tail(@)] /\ UNCHANGED <<sendQueue, wire>>
      /\ Rising(calls[w]) /\ \A x \in ToSet(calls[w]) : x.id \in 0..Len(sent[w])
  BY DEF Writer!Stream, Writer!Take, OrderInv, OrderShapes, CallsInv
<1>2. /\ IsSequence(Tail(calls[w])) /\ ToSet(Tail(calls[w])) \subseteq ToSet(calls[w])
      /\ m \in ToSet(calls[w]) /\ Rising(Tail(calls[w]))
      /\ \A x \in ToSet(Tail(calls[w])) : m.id <= x.id
  BY <1>0, <1>1, ElementsTaken
<1>3. /\ calls' = [v \in Writers |-> calls'[v]] /\ calls'[w] = Tail(calls[w])
      /\ \A v \in Writers \ {w} : calls'[v] = calls[v]
  BY <1>1 DEF OrderInv, OrderShapes
<1>4. CallsInv'
  <2>1. \A v \in Writers : /\ Rising(calls'[v]) /\ IsSequence(calls'[v])
                           /\ ToSet(calls'[v]) \subseteq ToSet(calls[v])
    BY <1>2, <1>3 DEF OrderInv, OrderShapes, CallsInv
  <2>. QED
    BY <2>1 DEF OrderInv, CallsInv, Rising
<1>5. \A v \in Writers : IsSequence(calls'[v])
  BY <1>2, <1>3 DEF OrderInv, OrderShapes
<1>6. Gone' = Gone
  BY <1>1 DEF Gone
<1>7. CASE UNCHANGED <<message, promise, compounded, records>>
  <2>1. OrderShapes' /\ FramesInv'
    BY <1>1, <1>3, <1>5, <1>7, FramesSame DEF OrderInv, OrderShapes
  <2>2. LevelInv'
    <3>1. \A v \in Writers : Ahead(v)' \subseteq Ahead(v)
      BY <1>2, <1>3 DEF Ahead
    <3>. QED
      BY <1>6, <1>7, <3>1 DEF OrderInv, LevelInv, Level
  <2>. QED
    BY <1>4, <2>1, <2>2 DEF OrderInv
<1>8. CASE Writer!Compound(w, m, 0, m.size)
  <2>1. /\ message' = [v \in Writers |-> message'[v]] /\ records' \in Nat /\ FramesInv'
        /\ \A v \in Writers \ {w} : message'[v] = message[v] /\ promise'[v] = promise[v]
        /\ promise'[w] = "set" => message'[w] = m
    BY <1>1, <1>8, CompoundOrder DEF IInv
  <2>2. OrderShapes'
    BY <1>1, <1>3, <1>5, <2>1 DEF OrderInv, OrderShapes
  <2>3. LevelInv'
    <3>1. ASSUME NEW v \in Writers \ {w} PROVE \E n \in 0..Len(sent'[v]) : Level(v, n)'
      BY <1>3, <1>6, <2>1, <3>1 DEF OrderInv, LevelInv, Level, Ahead
    <3>2. Level(w, m.id)' /\ m.id \in 0..Len(sent'[w])
      <4>1. PICK n \in 0..Len(sent[w]) : Level(w, n)
        BY DEF OrderInv, LevelInv
      <4>2. m.id \in 0..Len(sent[w]) /\ n <= m.id
        BY <1>1, <1>2, <4>1 DEF Level, Ahead
      <4>3. \A e \in Gone' : e.writer = w => e.frame.id <= m.id
        BY <1>6, <4>1, <4>2 DEF Level, OrderInv, FramesInv
      <4>4. \A x \in Ahead(w)' : m.id <= x.id
        BY <1>1, <1>2, <1>3 DEF Ahead, OrderInv, CallsInv
      <4>. QED
        BY <2>1, <4>2, <4>3, <4>4 DEF Level
    <3>. QED
      BY <3>1, <3>2 DEF LevelInv
  <2>. QED
    BY <1>4, <2>1, <2>2, <2>3 DEF OrderInv
<1>. QED
  BY <1>0, <1>7, <1>8 DEF Writer!Stream

LEMMA SplitOrder ==
    ASSUME OrderInv, IInv, NEW w \in Writers,
           Writer!StreamSplittedMessage(w) \/ Writer!SplitFails(w),
           UNCHANGED <<channelSendPromiseQueue, wire, sent>>
    PROVE  OrderInv'
<1>1. PICK result : Writer!Acked(w, FALSE, result)
  BY DEF Writer!StreamSplittedMessage, Writer!SplitFails
<1>2. UNCHANGED <<calls, sendQueue>> /\ Writer!Idle(w) /\ Gone' = Gone
  BY <1>1 DEF Writer!Acked, Gone
<1>3. promise[w] = "set"
  <2>1. /\ IsSequence(acks[w]) /\ acks[w] # <<>> /\ ~Writer!Ends(Head(acks[w]).frame)
    BY <1>1 DEF Writer!Acked, IInv, Shapes
  <2>2. ~NoneAcked(acks[w])
    BY <2>1, AckTaken
  <2>. QED
    BY <2>2 DEF IInv, Placed, Free, Sending, InTransport, Answered
<1>4. /\ message' = [v \in Writers |-> message'[v]] /\ records' \in Nat /\ FramesInv'
      /\ \A v \in Writers \ {w} : message'[v] = message[v] /\ promise'[v] = promise[v]
      /\ promise'[w] = "set" => message'[w] = message[w]
  <2>1. CASE Writer!StreamSplittedMessage(w)
    BY <1>2, <2>1, CompoundOrder DEF IInv, Writer!StreamSplittedMessage
  <2>2. CASE Writer!SplitFails(w)
    <3>1. /\ message' = [message EXCEPT ![w] = Writer!NoMessage]
          /\ promise' = [promise EXCEPT ![w] = "null"] /\ UNCHANGED <<compounded, records>>
      BY <2>2 DEF Writer!SplitFails, Writer!Reset, Writer!Reject, Writer!Set
    <3>2. /\ message' = [v \in Writers |-> message'[v]] /\ records' \in Nat
          /\ \A v \in Writers \ {w} : message'[v] = message[v] /\ promise'[v] = promise[v]
          /\ promise'[w] = "null"
      BY <3>1 DEF OrderInv, OrderShapes, IInv, Shapes
    <3>3. \A v \in Writers : ~Writer!Idle(v)' => ~Writer!Idle(v) /\ message'[v] = message[v]
      BY <1>2, <3>1, <3>2 DEF Writer!Idle, Writer!NoFrame
    <3>4. FramesInv'
      BY <1>2, <3>1, <3>3 DEF OrderInv, FramesInv, InOrder, Before
    <3>. QED
      BY <3>2, <3>4
  <2>. QED
    BY <2>1, <2>2
<1>5. OrderShapes'
  BY <1>2, <1>4 DEF OrderInv, OrderShapes
<1>6. CallsInv'
  BY <1>2 DEF OrderInv, CallsInv, Rising
<1>7. LevelInv'
  <2>1. ASSUME NEW v \in Writers PROVE \E n \in 0..Len(sent'[v]) : Level(v, n)'
    <3>1. PICK n \in 0..Len(sent[v]) : Level(v, n)
      BY DEF OrderInv, LevelInv
    <3>2. promise'[v] = "set" => promise[v] = "set" /\ message'[v] = message[v]
      BY <1>3, <1>4
    <3>. QED
      BY <1>2, <3>1, <3>2 DEF Level, Ahead
  <2>. QED
    BY <2>1 DEF LevelInv
<1>. QED
  BY <1>4, <1>5, <1>6, <1>7 DEF OrderInv

LEMMA ForwardOrder ==
    ASSUME OrderInv, NEW w \in Writers, Writer!Forward(w),
           UNCHANGED <<channelSendPromiseQueue, wire, sent>>
    PROVE  OrderInv'
<1>1. /\ UNCHANGED <<calls, message, promise, compounded, records, sendQueue, wire>>
  BY DEF Writer!Forward, Writer!Acked
<1>2. OrderShapes' /\ CallsInv'
  BY <1>1 DEF OrderInv, OrderShapes, CallsInv, Rising
<1>3. LevelInv'
  BY <1>1 DEF OrderInv, LevelInv, Level, Ahead, Gone
<1>. QED
  BY <1>1, <1>2, <1>3, FramesSame DEF OrderInv

\* The frame of w joins those gone, which are not after it.
LEMMA TransportSendOrder ==
    ASSUME OrderInv, IInv, NEW w \in Writers, Writer!TransportSend(w),
           UNCHANGED <<channelSendPromiseQueue, wire, sent>>
    PROVE  OrderInv'
<1>0. PICK entry : entry = [writer |-> w, frame |-> compounded[w]]
  OBVIOUS
<1>1. /\ ~Writer!Idle(w) /\ sendQueue' = Append(sendQueue, entry)
      /\ compounded' = [compounded EXCEPT ![w] = Writer!NoFrame]
      /\ UNCHANGED <<calls, records>>
      /\ \/ /\ promise' = [promise EXCEPT ![w] = "null"]
            /\ message' = [message EXCEPT ![w] = Writer!NoMessage]
         \/ UNCHANGED <<promise, message>>
  BY <1>0 DEF Writer!TransportSend, Writer!Set, Writer!Reset
<1>2. /\ message' = [v \in Writers |-> message'[v]]
      /\ \A v \in Writers \ {w} : /\ message'[v] = message[v] /\ promise'[v] = promise[v]
                                  /\ compounded'[v] = compounded[v]
      /\ promise'[w] = "set" => promise[w] = "set" /\ message'[w] = message[w]
      /\ Writer!Idle(w)' /\ promise[w] = "set"
  BY <1>1 DEF OrderInv, OrderShapes, IInv, Shapes, Writer!Idle, Writer!NoFrame, Placed, Free,
              Sending, InTransport, Answered
<1>3. PICK n \in 0..Len(sent[w]) : Level(w, n)
  BY DEF OrderInv, LevelInv
<1>4. /\ entry.writer = w /\ entry.frame = compounded[w]
      /\ entry.frame.id = n /\ entry.frame.record \in 0..records /\ n \in Nat
      /\ \A e \in Gone : e.writer = w => Before(e.frame, entry.frame)
  <2>1. Len(sent[w]) \in Nat
    BY Elements DEF OrderInv, OrderShapes
  <2>2. compounded[w].id = n
    BY <1>1, <1>2, <1>3 DEF OrderInv, FramesInv, Level
  <2>. QED
    BY <1>0, <1>1, <1>3, <2>1, <2>2 DEF OrderInv, FramesInv, Level, Before
<1>5. /\ IsSequence(sendQueue) /\ ToSet(sendQueue') = ToSet(sendQueue) \cup {entry}
      /\ InOrder(sendQueue)'
  <2>1. \A e \in ToSet(sendQueue) : e.writer = entry.writer => Before(e.frame, entry.frame)
    BY <1>4 DEF Gone
  <2>2. IsSequence(sendQueue) /\ InOrder(sendQueue)
    BY DEF OrderInv, FramesInv, IInv, Shapes
  <2>3. ToSet(sendQueue') = ToSet(sendQueue) \cup {entry} /\ InOrder(sendQueue')
    BY <1>1, <2>1, <2>2, ElementsAppended
  <2>. QED
    BY <2>2, <2>3 DEF InOrder, Before
<1>6. Gone' = Gone \cup {entry}
  BY <1>5 DEF Gone
<1>7. FramesInv'
  <2>1. \A e \in Gone' : e.frame.id \in Nat /\ e.frame.record \in 0..records'
    BY <1>1, <1>4, <1>6 DEF OrderInv, FramesInv
  <2>2. \A a \in ToSet(wire'), b \in ToSet(sendQueue') :
          a.writer = b.writer => Before(a.frame, b.frame)
    BY <1>4, <1>5 DEF OrderInv, FramesInv, Gone
  <2>3. \A v \in Writers : ~Writer!Idle(v)' =>
          /\ compounded'[v].id = message'[v].id
          /\ compounded'[v].record \in 0..records'
          /\ \A e \in Gone' : e.writer = v =>
                \/ e.frame.record = 0 \/ compounded'[v].record = 0
                \/ e.frame.record < compounded'[v].record
    <3>1. ASSUME NEW v \in Writers, ~Writer!Idle(v)' PROVE v # w /\ ~Writer!Idle(v)
      BY <1>2, <3>1 DEF Writer!Idle, Writer!NoFrame
    <3>. QED
      BY <1>1, <1>2, <1>4, <1>6, <3>1 DEF OrderInv, FramesInv
  <2>4. InOrder(wire)'
    BY DEF OrderInv, FramesInv, InOrder, Before
  <2>. QED
    BY <1>5, <2>1, <2>2, <2>3, <2>4 DEF FramesInv, Before
<1>8. OrderShapes' /\ CallsInv'
  BY <1>1, <1>2 DEF OrderInv, OrderShapes, CallsInv, Rising
<1>9. LevelInv'
  <2>1. Level(w, n)' /\ n \in 0..Len(sent'[w])
    <3>1. \A e \in Gone' : e.writer = w => e.frame.id <= n
      BY <1>3, <1>4, <1>6 DEF Level
    <3>2. Ahead(w)' = Ahead(w) /\ n \in 0..Len(sent'[w])
      BY <1>1, <1>3 DEF Ahead
    <3>. QED
      BY <1>2, <1>3, <3>1, <3>2 DEF Level
  <2>2. ASSUME NEW v \in Writers \ {w} PROVE \E k \in 0..Len(sent'[v]) : Level(v, k)'
    <3>1. PICK k \in 0..Len(sent[v]) : Level(v, k)
      BY <2>2 DEF OrderInv, LevelInv
    <3>2. Ahead(v)' = Ahead(v) /\ k \in 0..Len(sent'[v])
      BY <1>1, <1>2 DEF Ahead
    <3>3. promise'[v] = promise[v] /\ message'[v] = message[v]
      BY <1>1, <1>2, <2>2
    <3>4. \A e \in Gone' : e.writer = v => e.frame.id <= k
      BY <1>4, <1>6, <2>2, <3>1 DEF Level
    <3>5. Level(v, k)'
      BY <3>1, <3>2, <3>3, <3>4 DEF Level
    <3>. QED
      BY <3>2, <3>5
  <2>. QED
    BY <2>1, <2>2 DEF LevelInv
<1>. QED
  BY <1>7, <1>8, <1>9 DEF OrderInv

\* The oldest frame of the transport goes to the wire behind those there, or is lost.
LEMMA TransportSendsOrder ==
    ASSUME OrderInv, IInv, NEW result, TransportSends(result)
    PROVE  OrderInv'
<1>0. PICK first : first = Head(sendQueue)
  OBVIOUS
<1>1. /\ sendQueue # <<>> /\ sendQueue' = Tail(sendQueue)
      /\ wire' = Append(wire, first) \/ wire' = wire
      /\ UNCHANGED <<calls, message, promise, compounded, records,
                     channelSendPromiseQueue, sent>>
  BY <1>0 DEF TransportSends
<1>2. /\ ToSet(sendQueue') \subseteq ToSet(sendQueue) /\ first \in ToSet(sendQueue)
      /\ InOrder(sendQueue')
      /\ \A e \in ToSet(sendQueue') : first.writer = e.writer => Before(first.frame, e.frame)
  BY <1>0, <1>1, ElementsTaken DEF OrderInv, FramesInv, IInv, Shapes
<1>3. IsSequence(wire) /\ InOrder(wire)
  BY DEF OrderInv, OrderShapes, FramesInv
<1>4. /\ IsSequence(wire') /\ ToSet(wire') \subseteq ToSet(wire) \cup {first}
      /\ InOrder(wire')
  <2>1. \A e \in ToSet(wire) : e.writer = first.writer => Before(e.frame, first.frame)
    BY <1>2 DEF OrderInv, FramesInv
  <2>2. /\ IsSequence(Append(wire, first)) /\ InOrder(Append(wire, first))
        /\ ToSet(Append(wire, first)) = ToSet(wire) \cup {first}
    BY <1>3, <2>1, ElementsAppended
  <2>. QED
    BY <1>1, <1>3, <2>2
<1>5. Gone' \subseteq Gone
  BY <1>2, <1>4 DEF Gone
<1>6. FramesInv'
  <2>1. \A a \in ToSet(wire'), b \in ToSet(sendQueue') :
          a.writer = b.writer => Before(a.frame, b.frame)
    BY <1>2, <1>4 DEF OrderInv, FramesInv
  <2>2. \A w \in Writers : Writer!Idle(w)' = Writer!Idle(w)
    BY <1>1 DEF Writer!Idle, Writer!NoFrame
  <2>3. InOrder(wire)' /\ InOrder(sendQueue)'
    BY <1>2, <1>4 DEF InOrder, Before
  <2>4. \A a \in ToSet(wire'), b \in ToSet(sendQueue') :
          a.writer = b.writer => Before(a.frame, b.frame)'
    BY <2>1 DEF Before
  <2>. QED
    BY <1>1, <1>5, <2>2, <2>3, <2>4 DEF OrderInv, FramesInv
<1>7. OrderShapes' /\ CallsInv'
  BY <1>1, <1>4 DEF OrderInv, OrderShapes, CallsInv, Rising
<1>8. LevelInv'
  BY <1>1, <1>5 DEF OrderInv, LevelInv, Level, Ahead
<1>. QED
  BY <1>6, <1>7, <1>8 DEF OrderInv

LEMMA StutterOrder == ASSUME OrderInv, UNCHANGED vars PROVE OrderInv'
<1>1. OrderShapes' /\ CallsInv'
  BY DEF vars, OrderInv, OrderShapes, CallsInv, Rising
<1>2. LevelInv'
  BY DEF vars, OrderInv, LevelInv, Level, Ahead, Gone
<1>. QED
  BY <1>1, <1>2, FramesSame DEF OrderInv, vars

\* Every step keeps the order.
LEMMA NextOrder == ASSUME OrderInv, IInv, [Next]_vars PROVE OrderInv'
<1>1. ASSUME NEW size, NEW encrypted,
             EnqueueSend(size, encrypted) \/ Dispatch(size, encrypted)
      PROVE  OrderInv'
  BY <1>1, EnqueueSendOrder, DispatchOrder
<1>2. CASE OutStreamMessageHandler \/ RejectSendPromiseQueue \/ LogOutcome
  BY <1>2, HandlerOrder, RejectOrder, LogOrder
<1>3. ASSUME NEW result, TransportSends(result) PROVE OrderInv'
  BY <1>3, TransportSendsOrder
<1>4. ASSUME NEW w \in Writers, WriterStep(w) PROVE OrderInv'
  BY <1>4, StreamOrder, SplitOrder, ForwardOrder, TransportSendOrder
     DEF WriterStep, Writer!Next
<1>5. CASE UNCHANGED vars
  BY <1>5, StutterOrder
<1>. QED
  BY <1>1, <1>2, <1>3, <1>4, <1>5 DEF Next

(***************************************************************************)
(* The frames of each writer reach the phone in the order of their records *)
(* and of their messages, for every number and size of messages and        *)
(* wherever an encryption or a send fails (MessageOutStream.cpp:38-96,     *)
(* Messenger.cpp:55-122).                                                  *)
(***************************************************************************)
THEOREM FramesAreInOrder == Spec => []NoInterleaving
<1>1. Init => IInv /\ OrderInv
  BY InitInv, OrderInit
<1>2. IInv /\ OrderInv /\ [Next]_vars => IInv' /\ OrderInv'
  BY NextInv, NextOrder
<1>3. OrderInv => NoInterleaving
  <2>1. ASSUME OrderInv PROVE DOMAIN wire = 1..Len(wire)
    <3>1. PICK S : wire \in Seq(S)
      BY <2>1 DEF OrderInv, OrderShapes, IsSequence
    <3>. QED
      BY <3>1
  <2>. QED
    BY <2>1 DEF OrderInv, FramesInv, InOrder, Before, NoInterleaving
<1>. QED
  BY <1>1, <1>2, <1>3, PTL DEF Spec

-----------------------------------------------------------------------------
(***************************************************************************)
(* The iterator of the messenger.  At most one of its messages is with its *)
(* writer, and it is the first of channelSendPromiseQueue_, wherever it    *)
(* is: in the call of stream, in the frame made of it, in the transport,   *)
(* in the outcome of that frame, or in the outcome the messenger is told.  *)
(***************************************************************************)
Increasing(seq) == \A i, j \in 1..Len(seq) : i < j => seq[i].id < seq[j].id

NoneFrom(queue) == \A i \in 1..Len(queue) : queue[i].writer # "messenger"
OneFrom(queue, frame) ==
    \E k \in 1..Len(queue) :
        /\ queue[k].writer = "messenger" /\ queue[k].frame = frame
        /\ \A i \in 1..Len(queue) : i # k => queue[i].writer # "messenger"

NothingMade == Writer!Idle("messenger") /\ promise["messenger"] = "null"
NothingSent == NoneFrom(sendQueue) /\ acks["messenger"] = <<>>

\* A frame that left the writer: with the last of a message the promise left too.
Carries(frame, id) ==
    /\ frame.id = id
    /\ IF Writer!Ends(frame) THEN promise["messenger"] = "null"
       ELSE promise["messenger"] = "set" /\ message["messenger"].id = id

Called(id) ==
    /\ \E c : calls["messenger"] = <<c>> /\ c.id = id
    /\ NothingMade /\ NothingSent /\ posted["messenger"] = <<>>
Made(id) ==
    /\ calls["messenger"] = <<>>
    /\ ~Writer!Idle("messenger") /\ compounded["messenger"].id = id
    /\ promise["messenger"] = "set" /\ message["messenger"].id = id
    /\ NothingSent /\ posted["messenger"] = <<>>
Passed(id) ==
    /\ calls["messenger"] = <<>> /\ Writer!Idle("messenger")
    /\ \E frame : OneFrom(sendQueue, frame) /\ Carries(frame, id)
    /\ acks["messenger"] = <<>> /\ posted["messenger"] = <<>>
Came(id) ==
    /\ calls["messenger"] = <<>> /\ Writer!Idle("messenger")
    /\ NoneFrom(sendQueue)
    /\ \E a : acks["messenger"] = <<a>> /\ Carries(a.frame, id)
    /\ posted["messenger"] = <<>>
Told(id) ==
    /\ calls["messenger"] = <<>> /\ NothingMade /\ NothingSent
    /\ \E o : posted["messenger"] = <<o>> /\ o.id = id

UnderWayOf(id) == Called(id) \/ Made(id) \/ Passed(id) \/ Came(id) \/ Told(id)

AtRest ==
    /\ calls["messenger"] = <<>> /\ NothingMade /\ NothingSent /\ posted["messenger"] = <<>>

OnlyFirst ==
    IF channelSendPromiseQueue = <<>> THEN AtRest
    ELSE UnderWayOf(channelSendPromiseQueue[1].id)

QueuedIds ==
    /\ Increasing(channelSendPromiseQueue)
    /\ \A i \in 1..Len(channelSendPromiseQueue) :
          channelSendPromiseQueue[i].id \in 1..Len(sent["messenger"])

IteratorInv ==
    /\ posted = [w \in Writers |-> posted[w]]
    /\ "messenger" \in Writers => QueuedIds /\ OnlyFirst

\* Taking the first element out leaves those behind it.
LEMMA FirstRemoved ==
    ASSUME NEW seq, IsSequence(seq), seq # <<>>
    PROVE  RemoveAt(seq, 1) = Tail(seq)
<1>1. PICK S : seq \in Seq(S)
  BY DEF IsSequence
<1>2. Len(seq) \in Nat \ {0}
  BY <1>1
<1>3. SubSeq(seq, 1, 1 - 1) = <<>>
  BY <1>1
<1>4. SubSeq(seq, 1 + 1, Len(seq)) = Tail(seq)
  BY <1>1, <1>2
<1>5. Tail(seq) \in Seq(S)
  BY <1>1
<1>. QED
  BY <1>3, <1>4, <1>5 DEF RemoveAt

LEMMA LaneAppended ==
    ASSUME NEW queue, IsSequence(queue), NEW e
    PROVE  /\ e.writer # "messenger" /\ NoneFrom(queue) => NoneFrom(Append(queue, e))
           /\ \A f : e.writer # "messenger" /\ OneFrom(queue, f) => OneFrom(Append(queue, e), f)
           /\ e.writer = "messenger" /\ NoneFrom(queue) => OneFrom(Append(queue, e), e.frame)
<1>. DEFINE longer == Append(queue, e)
<1>1. /\ Len(queue) \in Nat /\ Len(longer) = Len(queue) + 1 /\ longer[Len(queue) + 1] = e
      /\ \A i \in 1..Len(queue) : longer[i] = queue[i]
  BY Appended
<1>2. /\ \A i \in 1..Len(longer) : i \in 1..Len(queue) \/ i = Len(queue) + 1
      /\ \A i \in 1..Len(queue) : i \in 1..Len(longer) /\ i # Len(queue) + 1
      /\ Len(queue) + 1 \in 1..Len(longer)
  BY <1>1
<1>. HIDE DEF longer
<1>3. e.writer # "messenger" /\ NoneFrom(queue) => NoneFrom(longer)
  BY <1>1, <1>2 DEF NoneFrom
<1>4. ASSUME NEW f, e.writer # "messenger", OneFrom(queue, f) PROVE OneFrom(longer, f)
  BY <1>1, <1>2, <1>4 DEF OneFrom
<1>5. e.writer = "messenger" /\ NoneFrom(queue) => OneFrom(longer, e.frame)
  BY <1>1, <1>2 DEF OneFrom, NoneFrom
<1>. QED
  BY <1>3, <1>4, <1>5 DEF longer

LEMMA LaneTaken ==
    ASSUME NEW queue, IsSequence(queue), queue # <<>>
    PROVE  /\ NoneFrom(queue) => Head(queue).writer # "messenger" /\ NoneFrom(Tail(queue))
           /\ \A f : Head(queue).writer # "messenger" /\ OneFrom(queue, f)
                        => OneFrom(Tail(queue), f)
           /\ \A f : Head(queue).writer = "messenger" /\ OneFrom(queue, f)
                        => f = Head(queue).frame /\ NoneFrom(Tail(queue))
<1>. DEFINE shorter == Tail(queue)
<1>1. /\ Len(queue) \in Nat \ {0} /\ Head(queue) = queue[1] /\ Len(shorter) = Len(queue) - 1
      /\ \A i \in 1..Len(queue) - 1 : shorter[i] = queue[i + 1]
  BY Taken
<1>2. /\ \A i \in 1..Len(shorter) : i + 1 \in 1..Len(queue) /\ i + 1 # 1
                                    /\ shorter[i] = queue[i + 1]
      /\ \A i \in 1..Len(queue) : i = 1 \/ (i - 1 \in 1..Len(shorter) /\ i - 1 + 1 = i)
      /\ \A i, j \in 1..Len(shorter) : i # j => i + 1 # j + 1
      /\ 1 \in 1..Len(queue)
  BY <1>1
<1>. HIDE DEF shorter
<1>3. NoneFrom(queue) => Head(queue).writer # "messenger" /\ NoneFrom(shorter)
  BY <1>1, <1>2 DEF NoneFrom
<1>4. ASSUME NEW f, OneFrom(queue, f), Head(queue).writer # "messenger"
      PROVE  OneFrom(shorter, f)
  <2>1. PICK k \in 1..Len(queue) :
            /\ queue[k].writer = "messenger" /\ queue[k].frame = f
            /\ \A i \in 1..Len(queue) : i # k => queue[i].writer # "messenger"
    BY <1>4 DEF OneFrom
  <2>2. k # 1
    BY <1>1, <1>4, <2>1
  <2>3. k - 1 \in 1..Len(shorter) /\ shorter[k - 1] = queue[k]
    BY <1>2, <2>1, <2>2
  <2>4. \A i \in 1..Len(shorter) : i # k - 1 => shorter[i].writer # "messenger"
    BY <1>2, <2>1, <2>3
  <2>. QED
    BY <2>1, <2>3, <2>4 DEF OneFrom
<1>5. ASSUME NEW f, OneFrom(queue, f), Head(queue).writer = "messenger"
      PROVE  f = Head(queue).frame /\ NoneFrom(shorter)
  BY <1>1, <1>2, <1>5 DEF OneFrom, NoneFrom
<1>. QED
  BY <1>3, <1>4, <1>5 DEF shorter

\* A sequence of one.
LEMMA One ==
    ASSUME NEW x
    PROVE  /\ <<x>> # <<>> /\ Head(<<x>>) = x /\ Tail(<<x>>) = <<>> /\ Append(<<>>, x) = <<x>>
OBVIOUS

LEMMA IteratorInit == ASSUME Init PROVE IteratorInv
<1>. USE DEF Init, Writer!Init
<1>1. posted = [w \in Writers |-> posted[w]]
  OBVIOUS
<1>2. ASSUME "messenger" \in Writers PROVE AtRest
  BY <1>2, Empty DEF AtRest, NothingMade, NothingSent, Writer!Idle, NoneFrom
<1>3. QueuedIds
  BY Empty DEF QueuedIds, Increasing
<1>. QED
  BY <1>1, <1>2, <1>3 DEF IteratorInv, OnlyFirst

\* A step that is not about the messenger's message.
Aside ==
    /\ calls'["messenger"] = calls["messenger"]
    /\ message'["messenger"] = message["messenger"]
    /\ promise'["messenger"] = promise["messenger"]
    /\ compounded'["messenger"] = compounded["messenger"]
    /\ acks'["messenger"] = acks["messenger"]
    /\ posted'["messenger"] = posted["messenger"]
    /\ NoneFrom(sendQueue) => NoneFrom(sendQueue')
    /\ \A f : OneFrom(sendQueue, f) => OneFrom(sendQueue', f)

LEMMA AsideSame ==
    ASSUME Aside
    PROVE  /\ AtRest => AtRest'
           /\ \A id : UnderWayOf(id) => UnderWayOf(id)'
<1>1. /\ Writer!Idle("messenger")' = Writer!Idle("messenger")
      /\ NothingMade => NothingMade'
      /\ NoneFrom(sendQueue) => NoneFrom(sendQueue)'
      /\ \A f : OneFrom(sendQueue, f) => OneFrom(sendQueue, f)'
  BY DEF Aside, NothingMade, Writer!Idle, Writer!NoFrame, NoneFrom, OneFrom
<1>2. NothingSent => NothingSent'
  BY <1>1 DEF NothingSent, Aside
<1>3. AtRest => AtRest'
  BY <1>1, <1>2 DEF AtRest, Aside
<1>4. ASSUME NEW id, NEW f, Carries(f, id) PROVE Carries(f, id)'
  BY <1>4 DEF Carries, Aside, Writer!Ends
<1>5. ASSUME NEW id, Called(id) PROVE Called(id)'
  BY <1>1, <1>2, <1>5 DEF Called, Aside
<1>6. ASSUME NEW id, Made(id) PROVE Made(id)'
  BY <1>1, <1>2, <1>6 DEF Made, Aside
<1>7. ASSUME NEW id, Passed(id) PROVE Passed(id)'
  BY <1>1, <1>4, <1>7 DEF Passed, Aside
<1>8. ASSUME NEW id, Came(id) PROVE Came(id)'
  BY <1>1, <1>4, <1>8 DEF Came, Aside
<1>9. ASSUME NEW id, Told(id) PROVE Told(id)'
  BY <1>1, <1>2, <1>9 DEF Told, Aside
<1>. QED
  BY <1>3, <1>5, <1>6, <1>7, <1>8, <1>9 DEF UnderWayOf

LEMMA IteratorAside ==
    ASSUME IteratorInv, Aside, posted' = [w \in Writers |-> posted'[w]],
           UNCHANGED channelSendPromiseQueue, Len(sent'["messenger"]) = Len(sent["messenger"])
    PROVE  IteratorInv'
<1>1. QueuedIds => QueuedIds'
  BY DEF QueuedIds, Increasing
<1>2. OnlyFirst => OnlyFirst'
  BY AsideSame DEF OnlyFirst
<1>. QED
  BY <1>1, <1>2 DEF IteratorInv

-----------------------------------------------------------------------------
(***************************************************************************)
(* A frame is made of the messenger's message, or it is rejected.          *)
(***************************************************************************)
LEMMA MessengerCompound ==
    ASSUME IInv, OrderInv, IteratorInv, "messenger" \in Writers,
           NEW id, NEW m, m.id = id, NEW off, NEW rest,
           Writer!Idle("messenger"), Writer!Compound("messenger", m, off, rest),
           posted["messenger"] = <<>>, calls'["messenger"] = <<>>, NothingSent'
    PROVE  Made(id)' \/ Told(id)'
<1>. DEFINE w == "messenger"
<1>1. CASE /\ message' = [message EXCEPT ![w] = m] /\ promise' = [promise EXCEPT ![w] = "set"]
           /\ UNCHANGED posted
           /\ \E type, size, record : compounded' = [compounded EXCEPT ![w] =
                    [id |-> m.id, type |-> type, size |-> size, record |-> record]]
  <2>1. ~Writer!Idle(w)'
    <3>1. promise'[w] = "set"
      BY <1>1 DEF IInv, Shapes
    <3>. QED
      BY <3>1, CompoundFrame DEF IInv
  <2>2. compounded'[w].id = id /\ message'[w].id = id /\ promise'[w] = "set" /\ posted'[w] = <<>>
    BY <1>1 DEF IInv, Shapes, OrderInv, OrderShapes
  <2>. QED
    BY <2>1, <2>2 DEF Made
<1>2. CASE /\ promise' = [promise EXCEPT ![w] = "null"] /\ UNCHANGED compounded
           /\ posted' = [posted EXCEPT ![w] = Append(@, [id |-> m.id, result |-> "rejected"])]
  <2>1. NothingMade'
    BY <1>2 DEF NothingMade, Writer!Idle, Writer!NoFrame, IInv, Shapes
  <2>2. posted'[w] = <<[id |-> id, result |-> "rejected"]>>
    BY <1>2, One DEF IteratorInv
  <2>3. \E o : posted'[w] = <<o>> /\ o.id = id
    BY <2>2
  <2>. QED
    BY <2>1, <2>3 DEF Told
<1>. QED
  BY <1>1, <1>2 DEF Writer!Compound, Writer!Reject, Writer!Set, Writer!Put

-----------------------------------------------------------------------------
(***************************************************************************)
(* The steps of its writer move the message on.                            *)
(***************************************************************************)
LEMMA MessengerStream ==
    ASSUME IInv, OrderInv, IteratorInv, "messenger" \in Writers,
           NEW id, UnderWayOf(id), Writer!Stream("messenger")
    PROVE  UnderWayOf(id)'
<1>. DEFINE w == "messenger"
<1>1. calls[w] # <<>> /\ calls' = [calls EXCEPT ![w] = Tail(@)] /\ UNCHANGED <<acks, sendQueue>>
  BY DEF Writer!Stream, Writer!Take
<1>2. PICK c : calls[w] = <<c>> /\ c.id = id
  BY <1>1 DEF UnderWayOf, Called, Made, Passed, Came, Told
<1>3. NothingMade /\ NothingSent /\ posted[w] = <<>>
  BY <1>1 DEF UnderWayOf, Called, Made, Passed, Came, Told
<1>4. calls'[w] = <<>> /\ Head(calls[w]) = c
  BY <1>1, <1>2, One DEF OrderInv, OrderShapes
<1>5. Writer!Compound(w, c, 0, c.size)
  BY <1>3, <1>4 DEF Writer!Stream, NothingMade
<1>6. NothingSent'
  BY <1>1, <1>3 DEF NothingSent, NoneFrom
<1>. QED
  BY <1>2, <1>3, <1>4, <1>5, <1>6, MessengerCompound DEF UnderWayOf, NothingMade

LEMMA MessengerSplit ==
    ASSUME IInv, OrderInv, IteratorInv, "messenger" \in Writers,
           NEW id, UnderWayOf(id),
           Writer!StreamSplittedMessage("messenger") \/ Writer!SplitFails("messenger")
    PROVE  UnderWayOf(id)'
<1>. DEFINE w == "messenger"
<1>1. /\ acks[w] # <<>> /\ acks' = [acks EXCEPT ![w] = Tail(@)] /\ UNCHANGED <<calls, sendQueue>>
      /\ ~Writer!Ends(Head(acks[w]).frame) /\ Writer!Idle(w)
  BY DEF Writer!StreamSplittedMessage, Writer!SplitFails, Writer!Acked, Writer!Take
<1>2. calls[w] = <<>> /\ NoneFrom(sendQueue) /\ posted[w] = <<>>
  BY <1>1 DEF UnderWayOf, Called, Made, Passed, Came, Told, NothingSent
<1>3. PICK a : acks[w] = <<a>> /\ Carries(a.frame, id)
  BY <1>1 DEF UnderWayOf, Called, Made, Passed, Came, Told, NothingSent
<1>4. Head(acks[w]) = a /\ acks'[w] = <<>>
  BY <1>1, <1>3, One DEF IInv, Shapes
<1>5. a.frame.id = id /\ message[w].id = id
  BY <1>1, <1>3, <1>4 DEF Carries
<1>6. NothingSent' /\ calls'[w] = <<>>
  BY <1>1, <1>2, <1>4 DEF NothingSent, NoneFrom
<1>7. CASE Writer!StreamSplittedMessage(w)
  <2>1. PICK m, off, rest : m = message[w] /\ Writer!Compound(w, m, off, rest)
    BY <1>7 DEF Writer!StreamSplittedMessage
  <2>. QED
    BY <1>1, <1>2, <1>5, <1>6, <2>1, MessengerCompound DEF UnderWayOf
<1>8. CASE Writer!SplitFails(w)
  <2>1. /\ UNCHANGED compounded /\ promise' = [promise EXCEPT ![w] = "null"]
        /\ posted' = [posted EXCEPT ![w] = Append(@, [id |-> id, result |-> "rejected"])]
    BY <1>4, <1>5, <1>8 DEF Writer!SplitFails, Writer!Reject, Writer!Set, Writer!Put
  <2>2. NothingMade'
    BY <1>1, <2>1 DEF NothingMade, Writer!Idle, Writer!NoFrame, IInv, Shapes
  <2>3. posted'[w] = <<[id |-> id, result |-> "rejected"]>>
    BY <1>2, <2>1, One DEF IteratorInv
  <2>4. \E o : posted'[w] = <<o>> /\ o.id = id
    BY <2>3
  <2>. QED
    BY <1>6, <2>2, <2>4 DEF UnderWayOf, Told
<1>. QED
  BY <1>7, <1>8

LEMMA MessengerForward ==
    ASSUME IInv, OrderInv, IteratorInv, "messenger" \in Writers,
           NEW id, UnderWayOf(id), Writer!Forward("messenger")
    PROVE  UnderWayOf(id)'
<1>. DEFINE w == "messenger"
<1>1. PICK result :
        /\ acks[w] # <<>> /\ acks' = [acks EXCEPT ![w] = Tail(@)]
        /\ Writer!Ends(Head(acks[w]).frame) /\ Writer!Idle(w)
        /\ posted' = [posted EXCEPT ![w] =
                        Append(@, [id |-> Head(acks[w]).frame.id, result |-> result])]
        /\ UNCHANGED <<calls, sendQueue, promise, compounded>>
  BY DEF Writer!Forward, Writer!Acked, Writer!Take, Writer!Put
<1>2. calls[w] = <<>> /\ NoneFrom(sendQueue) /\ posted[w] = <<>>
  BY <1>1 DEF UnderWayOf, Called, Made, Passed, Came, Told, NothingSent
<1>3. PICK a : acks[w] = <<a>> /\ Carries(a.frame, id)
  BY <1>1 DEF UnderWayOf, Called, Made, Passed, Came, Told, NothingSent
<1>4. Head(acks[w]) = a /\ acks'[w] = <<>>
  BY <1>1, <1>3, One DEF IInv, Shapes
<1>5. a.frame.id = id /\ promise[w] = "null"
  BY <1>1, <1>3, <1>4 DEF Carries
<1>6. posted'[w] = <<[id |-> id, result |-> result]>>
  BY <1>1, <1>2, <1>4, <1>5, One DEF IteratorInv
<1>7. \E o : posted'[w] = <<o>> /\ o.id = id
  BY <1>6
<1>8. NothingMade' /\ NothingSent' /\ calls'[w] = <<>>
  BY <1>1, <1>2, <1>4, <1>5 DEF NothingMade, NothingSent, NoneFrom, Writer!Idle, Writer!NoFrame
<1>. QED
  BY <1>7, <1>8 DEF UnderWayOf, Told

LEMMA MessengerTransportSend ==
    ASSUME IInv, OrderInv, IteratorInv, "messenger" \in Writers,
           NEW id, UnderWayOf(id), Writer!TransportSend("messenger")
    PROVE  UnderWayOf(id)'
<1>. DEFINE w == "messenger"
<1>1. PICK frame : frame = compounded[w]
  OBVIOUS
<1>2. /\ ~Writer!Idle(w)
      /\ sendQueue' = Append(sendQueue, [writer |-> w, frame |-> frame])
      /\ compounded' = [compounded EXCEPT ![w] = Writer!NoFrame]
      /\ IF Writer!Ends(frame) THEN promise' = [promise EXCEPT ![w] = "null"]
         ELSE UNCHANGED <<message, promise>>
      /\ UNCHANGED <<calls, acks, posted>>
  BY <1>1 DEF Writer!TransportSend, Writer!Set
<1>3. Made(id)
  BY <1>2 DEF UnderWayOf, Called, Passed, Came, Told, NothingMade
<1>4. OneFrom(sendQueue', frame)
  <2>1. PICK e : e = [writer |-> w, frame |-> frame]
    OBVIOUS
  <2>2. e.writer = "messenger" /\ e.frame = frame /\ sendQueue' = Append(sendQueue, e)
    BY <1>2, <2>1
  <2>3. IsSequence(sendQueue) /\ NoneFrom(sendQueue)
    BY <1>3 DEF IInv, Shapes, Made, NothingSent
  <2>. QED
    BY <2>2, <2>3, LaneAppended
<1>5. OneFrom(sendQueue, frame)'
  BY <1>4 DEF OneFrom
<1>6. Writer!Idle(w)'
  BY <1>2 DEF Writer!Idle, Writer!NoFrame, IInv, Shapes
<1>7. Carries(frame, id)'
  BY <1>1, <1>2, <1>3 DEF Carries, Made, Writer!Ends, IInv, Shapes
<1>8. calls'[w] = <<>> /\ acks'[w] = <<>> /\ posted'[w] = <<>>
  BY <1>2, <1>3 DEF Made, NothingSent
<1>. QED
  BY <1>5, <1>6, <1>7, <1>8 DEF UnderWayOf, Passed

\* A change for one writer is none for the messenger's.
LEMMA OthersKept ==
    ASSUME "messenger" \in Writers, NEW w \in Writers, w # "messenger",
           NEW f, f = [v \in Writers |-> f[v]], NEW g, g = f \/ \E x : g = [f EXCEPT ![w] = x]
    PROVE  g["messenger"] = f["messenger"] /\ g = [v \in Writers |-> g[v]]
OBVIOUS

\* Steps of the other writer are aside, whatever it adds to the transport's queue.
LEMMA OtherWriter ==
    ASSUME IInv, OrderInv, IteratorInv, NEW w \in Writers, w # "messenger", Writer!Next(w)
    PROVE  /\ "messenger" \in Writers => Aside
           /\ posted' = [v \in Writers |-> posted'[v]]
<1>1. /\ calls = [v \in Writers |-> calls[v]] /\ message = [v \in Writers |-> message[v]]
      /\ promise = [v \in Writers |-> promise[v]] /\ acks = [v \in Writers |-> acks[v]]
      /\ compounded = [v \in Writers |-> compounded[v]]
      /\ posted = [v \in Writers |-> posted[v]] /\ IsSequence(sendQueue)
  BY DEF IInv, Shapes, OrderInv, OrderShapes, IteratorInv
<1>2. /\ sendQueue' = sendQueue \/ \E e : e.writer = w /\ sendQueue' = Append(sendQueue, e)
      /\ calls' = calls \/ \E x : calls' = [calls EXCEPT ![w] = x]
      /\ message' = message \/ \E x : message' = [message EXCEPT ![w] = x]
      /\ promise' = promise \/ \E x : promise' = [promise EXCEPT ![w] = x]
      /\ compounded' = compounded \/ \E x : compounded' = [compounded EXCEPT ![w] = x]
      /\ acks' = acks \/ \E x : acks' = [acks EXCEPT ![w] = x]
      /\ posted' = posted \/ \E x : posted' = [posted EXCEPT ![w] = x]
  <2>. USE DEF Writer!Reset, Writer!Reject, Writer!Set, Writer!Put, Writer!Take, Writer!Acked
  <2>1. CASE Writer!Stream(w)
    BY <2>1 DEF Writer!Stream, Writer!Compound
  <2>2. CASE Writer!TransportSend(w)
    <3>1. [writer |-> w, frame |-> compounded[w]].writer = w
      OBVIOUS
    <3>. QED
      BY <2>2, <3>1 DEF Writer!TransportSend
  <2>3. CASE Writer!StreamSplittedMessage(w)
    BY <2>3 DEF Writer!StreamSplittedMessage, Writer!Compound
  <2>4. CASE Writer!SplitFails(w)
    BY <2>4 DEF Writer!SplitFails
  <2>5. CASE Writer!Forward(w)
    BY <2>5 DEF Writer!Forward
  <2>. QED
    BY <2>1, <2>2, <2>3, <2>4, <2>5 DEF Writer!Next
<1>3. /\ NoneFrom(sendQueue) => NoneFrom(sendQueue')
      /\ \A f : OneFrom(sendQueue, f) => OneFrom(sendQueue', f)
  <2>1. CASE sendQueue' = sendQueue
    BY <2>1
  <2>2. ASSUME NEW e, e.writer = w, sendQueue' = Append(sendQueue, e)
        PROVE  /\ NoneFrom(sendQueue) => NoneFrom(sendQueue')
               /\ \A f : OneFrom(sendQueue, f) => OneFrom(sendQueue', f)
    BY <1>1, <2>2, LaneAppended
  <2>. QED
    BY <1>2, <2>1, <2>2
<1>4. ASSUME "messenger" \in Writers
      PROVE  /\ calls'["messenger"] = calls["messenger"]
             /\ message'["messenger"] = message["messenger"]
             /\ promise'["messenger"] = promise["messenger"]
             /\ compounded'["messenger"] = compounded["messenger"]
             /\ acks'["messenger"] = acks["messenger"]
             /\ posted'["messenger"] = posted["messenger"]
  BY <1>1, <1>2, <1>4, OthersKept
<1>5. posted' = [v \in Writers |-> posted'[v]]
  <2>1. CASE posted' = posted
    BY <1>1, <2>1
  <2>2. ASSUME NEW x, posted' = [posted EXCEPT ![w] = x]
        PROVE  posted' = [v \in Writers |-> posted'[v]]
    BY <1>1, <2>2
  <2>. QED
    BY <1>2, <2>1, <2>2
<1>. QED
  BY <1>3, <1>4, <1>5 DEF Aside

\* A writer that has nothing to do does nothing.
LEMMA RestsQuietly ==
    ASSUME AtRest, Writer!Next("messenger")
    PROVE  FALSE
BY DEF AtRest, NothingMade, NothingSent, Writer!Next, Writer!Stream, Writer!TransportSend,
       Writer!StreamSplittedMessage, Writer!SplitFails, Writer!Forward, Writer!Acked

LEMMA WriterIterator ==
    ASSUME IInv, OrderInv, IteratorInv, NEW w \in Writers, WriterStep(w)
    PROVE  IteratorInv'
<1>1. UNCHANGED <<channelSendPromiseQueue, sent>> /\ Writer!Next(w)
  BY DEF WriterStep
<1>2. CASE w # "messenger"
  <2>1. "messenger" \notin Writers => IteratorInv'
    BY <1>1, <1>2, OtherWriter DEF IteratorInv
  <2>. QED
    BY <1>1, <1>2, <2>1, OtherWriter, IteratorAside
<1>3. CASE w = "messenger"
  <2>1. PICK id : id = channelSendPromiseQueue[1].id
    OBVIOUS
  <2>2. channelSendPromiseQueue # <<>> /\ UnderWayOf(id)
    BY <1>1, <1>3, <2>1, RestsQuietly DEF IteratorInv, OnlyFirst
  <2>3. UnderWayOf(id)'
    BY <1>1, <1>3, <2>2, MessengerStream, MessengerSplit, MessengerForward,
       MessengerTransportSend DEF Writer!Next
  <2>4. posted' = [v \in Writers |-> posted'[v]]
    BY <1>1 DEF IteratorInv, Writer!Next, Writer!Stream, Writer!TransportSend,
                Writer!StreamSplittedMessage, Writer!SplitFails, Writer!Forward,
                Writer!Compound, Writer!Reject, Writer!Put
  <2>5. OnlyFirst'
    <3>1. channelSendPromiseQueue' # <<>> /\ channelSendPromiseQueue'[1].id = id
      BY <1>1, <2>1, <2>2
    <3>. QED
      BY <2>3, <3>1 DEF OnlyFirst
  <2>6. QueuedIds'
    BY <1>1, <1>3 DEF IteratorInv, QueuedIds, Increasing
  <2>. QED
    BY <2>4, <2>5, <2>6 DEF IteratorInv
<1>. QED
  BY <1>2, <1>3

\* The transport is done with its oldest frame.
LEMMA TransportIterator ==
    ASSUME IInv, OrderInv, IteratorInv, NEW result, TransportSends(result)
    PROVE  IteratorInv'
<1>1. PICK first : first = Head(sendQueue)
  OBVIOUS
<1>2. PICK ack : ack = [frame |-> first.frame, result |-> result]
  OBVIOUS
<1>3. /\ sendQueue # <<>> /\ sendQueue' = Tail(sendQueue) /\ IsSequence(sendQueue)
      /\ acks' = [acks EXCEPT ![first.writer] = Append(@, ack)]
      /\ acks = [v \in Writers |-> acks[v]]
      /\ UNCHANGED <<calls, message, promise, compounded, posted, channelSendPromiseQueue, sent>>
  BY <1>1, <1>2 DEF TransportSends, IInv, Shapes
<1>4. posted' = [v \in Writers |-> posted'[v]]
  BY <1>3 DEF IteratorInv
<1>5. CASE first.writer # "messenger" \/ "messenger" \notin Writers
  <2>1. acks'["messenger"] = acks["messenger"]
    BY <1>3, <1>5
  <2>2. CASE first.writer # "messenger"
    <3>1. Aside
      BY <1>1, <1>3, <2>1, <2>2, LaneTaken DEF Aside
    <3>. QED
      BY <1>3, <1>4, <3>1, IteratorAside
  <2>3. CASE "messenger" \notin Writers
    BY <1>4, <2>3 DEF IteratorInv
  <2>. QED
    BY <1>5, <2>2, <2>3
<1>6. CASE first.writer = "messenger" /\ "messenger" \in Writers
  <2>1. PICK id : id = channelSendPromiseQueue[1].id
    OBVIOUS
  <2>2. ~NoneFrom(sendQueue)
    BY <1>1, <1>3, <1>6, LaneTaken
  <2>3. channelSendPromiseQueue # <<>> /\ Passed(id)
    BY <1>6, <2>1, <2>2 DEF IteratorInv, OnlyFirst, AtRest, NothingSent, UnderWayOf,
                            Called, Made, Came, Told
  <2>4. PICK frame : OneFrom(sendQueue, frame) /\ Carries(frame, id)
    BY <2>3 DEF Passed
  <2>5. frame = first.frame /\ NoneFrom(sendQueue')
    BY <1>1, <1>3, <1>6, <2>4, LaneTaken
  <2>6. ack.frame = frame /\ acks'["messenger"] = <<ack>>
    BY <1>2, <1>3, <1>6, <2>3, <2>5, One DEF Passed
  <2>7. Carries(ack.frame, id)'
    BY <1>3, <2>4, <2>6 DEF Carries, Writer!Ends
  <2>8. calls'["messenger"] = <<>> /\ posted'["messenger"] = <<>> /\ Writer!Idle("messenger")'
    BY <1>3, <2>3 DEF Passed, Writer!Idle, Writer!NoFrame
  <2>9. NoneFrom(sendQueue)'
    BY <2>5 DEF NoneFrom
  <2>10. Came(id)'
    BY <2>6, <2>7, <2>8, <2>9 DEF Came
  <2>11. OnlyFirst'
    <3>1. channelSendPromiseQueue' # <<>> /\ channelSendPromiseQueue'[1].id = id
      BY <1>3, <2>1, <2>3
    <3>. QED
      BY <2>10, <3>1 DEF OnlyFirst, UnderWayOf
  <2>12. QueuedIds'
    BY <1>3, <1>6 DEF IteratorInv, QueuedIds, Increasing
  <2>. QED
    BY <1>4, <2>11, <2>12 DEF IteratorInv
<1>. QED
  BY <1>5, <1>6

-----------------------------------------------------------------------------
(***************************************************************************)
(* Steps of the messenger and of the handlers.                             *)
(***************************************************************************)
LEMMA EnqueueSendIterator ==
    ASSUME IInv, OrderInv, IteratorInv, NEW size, NEW encrypted, EnqueueSend(size, encrypted)
    PROVE  IteratorInv'
<1>. DEFINE w == "messenger"
            queue == channelSendPromiseQueue
<1>1. PICK m : m = NewMessage(w, size, encrypted)
  OBVIOUS
<1>2. /\ w \in Writers /\ Ask(w, size) /\ queue' = Append(queue, m)
      /\ \/ queue = <<>> /\ calls' = [calls EXCEPT ![w] = Append(@, m)]
         \/ queue # <<>> /\ calls' = calls
      /\ UNCHANGED <<message, promise, compounded, acks, sendQueue, posted>>
  <2>1. <<m>> # <<>> /\ Head(<<m>>) = m
    OBVIOUS
  <2>. QED
    BY <1>1, <2>1 DEF EnqueueSend, DoSend, framesUnchanged
<1>3. m.id = Len(sent[w]) + 1
  BY <1>1 DEF NewMessage
<1>4. Len(sent[w]) \in Nat /\ Len(sent'[w]) = Len(sent[w]) + 1
  BY <1>2, Asked DEF OrderInv
<1>5. /\ Len(queue) \in Nat /\ Len(queue') = Len(queue) + 1
      /\ queue'[Len(queue) + 1] = m
      /\ \A i \in 1..Len(queue) : queue'[i] = queue[i]
  BY <1>2, Appended DEF OrderInv, OrderShapes
<1>6. /\ \A i \in 1..Len(queue) : queue[i].id \in 1..Len(sent[w])
      /\ \A i, j \in 1..Len(queue) : i < j => queue[i].id < queue[j].id
  BY <1>2 DEF IteratorInv, QueuedIds, Increasing
<1>7. QueuedIds'
  <2>1. \A i \in 1..Len(queue') : i \in 1..Len(queue) \/ i = Len(queue) + 1
    BY <1>5
  <2>2. \A i \in 1..Len(queue) : queue[i].id < m.id /\ queue[i].id \in 1..Len(sent'[w])
    BY <1>3, <1>4, <1>6
  <2>3. m.id \in 1..Len(sent'[w])
    BY <1>3, <1>4
  <2>4. ASSUME NEW i \in 1..Len(queue'), NEW j \in 1..Len(queue'), i < j
        PROVE  queue'[i].id < queue'[j].id
    <3>1. i \in 1..Len(queue)
      BY <1>5, <2>4
    <3>. QED
      BY <1>5, <1>6, <2>1, <2>2, <2>4, <3>1
  <2>5. \A i \in 1..Len(queue') : queue'[i].id \in 1..Len(sent'[w])
    BY <1>5, <2>1, <2>2, <2>3
  <2>. QED
    BY <2>4, <2>5 DEF QueuedIds, Increasing
<1>8. CASE queue = <<>>
  <2>1. AtRest /\ calls'[w] = <<m>> /\ queue' = <<m>>
    BY <1>2, <1>8, One DEF IteratorInv, OnlyFirst, AtRest, OrderInv, OrderShapes
  <2>2. NothingMade' /\ NothingSent' /\ posted'[w] = <<>>
    BY <1>2, <2>1 DEF AtRest, NothingMade, NothingSent, NoneFrom, Writer!Idle, Writer!NoFrame
  <2>3. Called(m.id)'
    BY <2>1, <2>2 DEF Called
  <2>4. queue' # <<>> /\ queue'[1] = m
    BY <2>1
  <2>. QED
    BY <1>2, <1>7, <2>3, <2>4 DEF IteratorInv, OnlyFirst, UnderWayOf
<1>9. CASE queue # <<>>
  <2>1. PICK id : id = queue[1].id
    OBVIOUS
  <2>2. Aside /\ UnderWayOf(id)
    BY <1>2, <1>9, <2>1 DEF Aside, IteratorInv, OnlyFirst
  <2>3. UnderWayOf(id)'
    BY <2>2, AsideSame
  <2>4. queue' # <<>> /\ queue'[1].id = id
    <3>1. Len(queue) >= 1 /\ Len(<<>>) = 0
      BY <1>9, Taken, Empty DEF OrderInv, OrderShapes
    <3>2. 1 \in 1..Len(queue) /\ Len(queue') # 0
      BY <1>5, <3>1
    <3>. QED
      BY <1>5, <2>1, <3>1, <3>2
  <2>. QED
    BY <1>2, <1>7, <2>3, <2>4 DEF IteratorInv, OnlyFirst
<1>. QED
  BY <1>8, <1>9

\* What the messenger is told is of the first message of its queue.
LEMMA ToldFirst ==
    ASSUME OrderInv, IteratorInv, "messenger" \in Writers, posted["messenger"] # <<>>
    PROVE  /\ channelSendPromiseQueue # <<>>
           /\ Told(channelSendPromiseQueue[1].id)
           /\ Head(posted["messenger"]).id = channelSendPromiseQueue[1].id
           /\ Tail(posted["messenger"]) = <<>>
<1>1. channelSendPromiseQueue # <<>> /\ Told(channelSendPromiseQueue[1].id)
  BY DEF IteratorInv, OnlyFirst, AtRest, UnderWayOf, Called, Made, Passed, Came
<1>2. PICK o : posted["messenger"] = <<o>> /\ o.id = channelSendPromiseQueue[1].id
  BY <1>1 DEF Told
<1>. QED
  BY <1>1, <1>2, One

\* The message that is erased is the first of the queue.
LEMMA ErasesFirst ==
    ASSUME OrderInv, IteratorInv, OutStreamMessageHandler
    PROVE  /\ channelSendPromiseQueue # <<>> /\ Told(channelSendPromiseQueue[1].id)
           /\ Head(posted["messenger"]).id = channelSendPromiseQueue[1].id
           /\ Tail(posted["messenger"]) = <<>>
           /\ channelSendPromiseQueue' = Tail(channelSendPromiseQueue)
<1>. DEFINE w == "messenger"
            queue == channelSendPromiseQueue
<1>1. w \in Writers /\ posted[w] # <<>> /\ Erase(Head(posted[w]).id)
  BY DEF OutStreamMessageHandler, Outcome
<1>2. /\ queue # <<>> /\ Told(queue[1].id) /\ Head(posted[w]).id = queue[1].id
      /\ Tail(posted[w]) = <<>>
  BY <1>1, ToldFirst
<1>3. /\ IsSequence(queue) /\ Len(queue) \in Nat \ {0} /\ DOMAIN queue = 1..Len(queue)
  <2>1. PICK S : queue \in Seq(S)
    BY DEF OrderInv, OrderShapes, IsSequence
  <2>. QED
    BY <1>2, <2>1 DEF IsSequence
<1>4. /\ \A i, j \in 1..Len(queue) : i < j => queue[i].id < queue[j].id
      /\ \A i \in 1..Len(queue) : queue[i].id \in 1..Len(sent[w])
  BY <1>1 DEF IteratorInv, QueuedIds, Increasing
<1>5. PICK i \in 1..Len(queue) : queue[i].id = queue[1].id /\ queue' = RemoveAt(queue, i)
  BY <1>1, <1>2, <1>3 DEF Erase
<1>6. Len(sent[w]) \in Nat
  BY <1>1, Elements DEF OrderInv, OrderShapes
<1>7. i = 1
  <2>1. 1 \in 1..Len(queue) /\ (i = 1 \/ 1 < i)
    BY <1>3
  <2>2. 1 < i => queue[1].id < queue[i].id
    BY <1>4, <2>1
  <2>3. queue[1].id \in 1..Len(sent[w])
    BY <1>4, <2>1
  <2>. QED
    BY <1>5, <1>6, <2>1, <2>2, <2>3
<1>. QED
  BY <1>2, <1>3, <1>5, <1>7, FirstRemoved

LEMMA HandlerIterator ==
    ASSUME IInv, OrderInv, IteratorInv, OutStreamMessageHandler
    PROVE  IteratorInv'
<1>. DEFINE w == "messenger"
            queue == channelSendPromiseQueue
<1>1. /\ w \in Writers /\ posted[w] # <<>> /\ posted' = [posted EXCEPT ![w] = Tail(@)]
      /\ Erase(Head(posted[w]).id) /\ DoSend(queue')
      /\ UNCHANGED <<message, promise, compounded, acks, sendQueue>> /\ Counts
  BY SettleOne DEF OutStreamMessageHandler, Outcome, framesUnchanged, OrderInv
<1>2. /\ queue # <<>> /\ Told(queue[1].id) /\ Head(posted[w]).id = queue[1].id
      /\ Tail(posted[w]) = <<>> /\ queue' = Tail(queue)
  BY ErasesFirst
<1>3. IsSequence(queue) /\ Len(queue) \in Nat \ {0}
  BY <1>2, Taken DEF OrderInv, OrderShapes
<1>4. \A i, j \in 1..Len(queue) : i < j => queue[i].id < queue[j].id
  BY <1>1 DEF IteratorInv, QueuedIds, Increasing
<1>5. \A i \in 1..Len(queue) : queue[i].id \in 1..Len(sent[w])
  BY <1>1 DEF IteratorInv, QueuedIds
<1>6. /\ Len(queue') = Len(queue) - 1
      /\ \A i \in 1..Len(queue) - 1 : queue'[i] = queue[i + 1]
  BY <1>2, <1>3, Taken
<1>7. QueuedIds'
  <2>1. \A i \in 1..Len(queue') : i + 1 \in 1..Len(queue) /\ queue'[i] = queue[i + 1]
    BY <1>3, <1>6
  <2>2. \A i, j \in 1..Len(queue') : i < j => i + 1 < j + 1
    OBVIOUS
  <2>3. \A i, j \in 1..Len(queue') : i < j => queue'[i].id < queue'[j].id
    BY <1>4, <2>1, <2>2
  <2>4. \A i \in 1..Len(queue') : queue'[i].id \in 1..Len(sent'[w])
    BY <1>1, <1>5, <2>1 DEF Counts
  <2>. QED
    BY <2>3, <2>4 DEF QueuedIds, Increasing
<1>8. NothingMade' /\ NothingSent' /\ posted'[w] = <<>>
  BY <1>1, <1>2 DEF Told, NothingMade, NothingSent, NoneFrom, Writer!Idle, Writer!NoFrame,
                    IteratorInv
<1>9. posted' = [v \in Writers |-> posted'[v]]
  BY <1>1 DEF IteratorInv
<1>10. CASE queue' = <<>>
  <2>1. calls'[w] = <<>>
    BY <1>1, <1>2, <1>10 DEF DoSend, Told
  <2>. QED
    BY <1>7, <1>8, <1>9, <1>10, <2>1 DEF IteratorInv, OnlyFirst, AtRest
<1>11. CASE queue' # <<>>
  <2>1. PICK m : m = Head(queue')
    OBVIOUS
  <2>2. calls'[w] = <<m>>
    BY <1>1, <1>2, <1>11, <2>1, One DEF DoSend, Told, OrderInv, OrderShapes
  <2>3. m = queue'[1]
    BY <1>11, <2>1
  <2>4. Called(m.id)'
    BY <1>8, <2>2 DEF Called
  <2>. QED
    BY <1>7, <1>9, <1>11, <2>3, <2>4 DEF IteratorInv, OnlyFirst, UnderWayOf
<1>. QED
  BY <1>10, <1>11

LEMMA RejectIterator ==
    ASSUME IInv, OrderInv, IteratorInv, RejectSendPromiseQueue
    PROVE  IteratorInv'
<1>. DEFINE w == "messenger"
<1>1. /\ w \in Writers /\ posted[w] # <<>> /\ posted' = [posted EXCEPT ![w] = Tail(@)]
      /\ channelSendPromiseQueue' = <<>>
      /\ UNCHANGED <<calls, message, promise, compounded, acks, sendQueue>>
  BY DEF RejectSendPromiseQueue, Outcome, framesUnchanged
<1>2. PICK id : Told(id) /\ Tail(posted[w]) = <<>>
  BY <1>1, ToldFirst
<1>3. NothingMade' /\ NothingSent' /\ posted'[w] = <<>> /\ calls'[w] = <<>>
  BY <1>1, <1>2 DEF Told, NothingMade, NothingSent, NoneFrom, Writer!Idle, Writer!NoFrame,
                    IteratorInv
<1>4. QueuedIds'
  BY <1>1, Empty DEF QueuedIds, Increasing
<1>5. posted' = [v \in Writers |-> posted'[v]]
  BY <1>1 DEF IteratorInv
<1>. QED
  BY <1>1, <1>3, <1>4, <1>5 DEF IteratorInv, OnlyFirst, AtRest

LEMMA SenderIterator ==
    ASSUME IInv, OrderInv, IteratorInv,
           LogOutcome \/ \E size, encrypted : Dispatch(size, encrypted)
    PROVE  IteratorInv'
<1>. DEFINE w == "sender"
<1>1. /\ w \in Writers /\ w # "messenger"
      /\ UNCHANGED <<message, promise, compounded, acks, sendQueue, channelSendPromiseQueue>>
      /\ calls' = calls \/ \E x : calls' = [calls EXCEPT ![w] = x]
      /\ posted' = posted \/ \E x : posted' = [posted EXCEPT ![w] = x]
      /\ \E x : sent' = [sent EXCEPT ![w] = x]
  BY DEF LogOutcome, Dispatch, Ask, Settle, framesUnchanged
<1>2. /\ calls = [v \in Writers |-> calls[v]] /\ sent = [v \in Writers |-> sent[v]]
      /\ posted = [v \in Writers |-> posted[v]]
  BY DEF OrderInv, OrderShapes, IteratorInv
<1>3. posted' = [v \in Writers |-> posted'[v]]
  <2>1. ASSUME NEW x, posted' = [posted EXCEPT ![w] = x]
        PROVE  posted' = [v \in Writers |-> posted'[v]]
    BY <1>2, <2>1
  <2>. QED
    BY <1>1, <1>2, <2>1
<1>4. ASSUME "messenger" \in Writers
      PROVE  /\ calls'["messenger"] = calls["messenger"]
             /\ posted'["messenger"] = posted["messenger"]
             /\ sent'["messenger"] = sent["messenger"]
  BY <1>1, <1>2, <1>4, OthersKept
<1>5. ASSUME "messenger" \in Writers PROVE Aside
  BY <1>1, <1>4, <1>5 DEF Aside
<1>. QED
  BY <1>1, <1>3, <1>4, <1>5, IteratorAside DEF IteratorInv

LEMMA StutterIterator == ASSUME IteratorInv, UNCHANGED vars PROVE IteratorInv'
<1>1. Aside
  BY DEF vars, Aside
<1>. QED
  BY <1>1, IteratorAside DEF vars, IteratorInv

LEMMA NextIterator == ASSUME IInv, OrderInv, IteratorInv, [Next]_vars PROVE IteratorInv'
<1>1. ASSUME NEW size, NEW encrypted,
             EnqueueSend(size, encrypted) \/ Dispatch(size, encrypted)
      PROVE  IteratorInv'
  BY <1>1, EnqueueSendIterator, SenderIterator
<1>2. CASE OutStreamMessageHandler \/ RejectSendPromiseQueue \/ LogOutcome
  BY <1>2, HandlerIterator, RejectIterator, SenderIterator
<1>3. ASSUME NEW result, TransportSends(result) PROVE IteratorInv'
  BY <1>3, TransportIterator
<1>4. ASSUME NEW w \in Writers, WriterStep(w) PROVE IteratorInv'
  BY <1>4, WriterIterator
<1>5. CASE UNCHANGED vars
  BY <1>5, StutterIterator
<1>. QED
  BY <1>1, <1>2, <1>3, <1>4, <1>5 DEF Next

(***************************************************************************)
(* The outcome that comes to the messenger is that of the first message of *)
(* its queue, so the iterator its handler erases is valid, however many    *)
(* messages are queued meanwhile and wherever one fails                    *)
(* (Messenger.cpp:55-122).                                                 *)
(***************************************************************************)
THEOREM IteratorStaysValid == Spec => []IteratorIsValid
<1>1. Init => IInv /\ OrderInv /\ IteratorInv
  BY InitInv, OrderInit, IteratorInit
<1>2. IInv /\ OrderInv /\ IteratorInv /\ [Next]_vars => IInv' /\ OrderInv' /\ IteratorInv'
  BY NextInv, NextOrder, NextIterator
<1>3. OrderInv /\ IteratorInv => IteratorIsValid
  <2>1. ASSUME OrderInv, IteratorInv, "messenger" \in Writers, posted["messenger"] # <<>>
        PROVE  /\ channelSendPromiseQueue # <<>>
               /\ Head(channelSendPromiseQueue).id = Head(posted["messenger"]).id
    BY <2>1, ToldFirst
  <2>. QED
    BY <2>1 DEF IteratorIsValid
<1>. QED
  BY <1>1, <1>2, <1>3, PTL DEF Spec

-----------------------------------------------------------------------------
(***************************************************************************)
(* The frames of a message.  Those on the wire are the next pieces of it,  *)
(* in turn (WireInv), and the message is in one place (Stage): untouched,  *)
(* with a frame of it made, in the transport, or back, or over, and then   *)
(* it is complete or its promise is not resolved.                          *)
(***************************************************************************)
\* How many frames of a message have reached the phone.
Count(w, id) == Cardinality(OnWire(w, id))

\* The frame that carries a message of this size from n full frames on.
Begun(size, n) == n = 0 \/ n * MaxPayload < size \/ (n = 1 /\ size = MaxPayload)
Piece(size, n, frame) ==
    LET rest == size - n * MaxPayload
    IN  IF size < MaxPayload THEN n = 0 /\ frame.type = "BULK" /\ frame.size = size
        ELSE /\ Begun(size, n)
             /\ frame.size = (IF rest < MaxPayload THEN rest ELSE MaxPayload)
             /\ frame.type = IF n = 0 THEN "FIRST"
                             ELSE IF rest > MaxPayload THEN "MIDDLE" ELSE "LAST"

\* The last frame of a message on the wire.
LastIs(w, id, frame) ==
    \E i \in OnWire(w, id) : wire[i].frame = frame /\ \A j \in OnWire(w, id) : j <= i
Complete(w, id) == \E frame : LastIs(w, id, frame) /\ Writer!Ends(frame)

\* No frame of a message is in the queue, or just this one.
IsOf(e, w, id) == e.writer = w /\ e.frame.id = id
NoneOf(queue, w, id) == \A i \in 1..Len(queue) : ~IsOf(queue[i], w, id)
OneOf(queue, w, id, frame) ==
    \E k \in 1..Len(queue) :
        /\ IsOf(queue[k], w, id) /\ queue[k].frame = frame
        /\ \A i \in 1..Len(queue) : i # k => ~IsOf(queue[i], w, id)
NoAckOf(seq, id) == \A i \in 1..Len(seq) : seq[i].frame.id # id
OneAckOf(seq, id, ack) ==
    \E k \in 1..Len(seq) :
        /\ seq[k] = ack /\ ack.frame.id = id
        /\ \A i \in 1..Len(seq) : i # k => seq[i].frame.id # id

Makes(w, id) == ~Writer!Idle(w) /\ compounded[w].id = id

\* The writer has the message in hand, n full frames of it done.
Holds(w, id, n) ==
    /\ message[w].id = id /\ message[w].size = sent[w][id].size
    /\ sent[w][id].size >= MaxPayload =>
          offset[w] = n * MaxPayload /\ remaining[w] = sent[w][id].size - n * MaxPayload

NotResolved(w, id) ==
    /\ id \in 1..Len(sent[w]) => sent[w][id].promise # "resolved"
    /\ \A o \in ToSet(posted[w]) : o.id = id => o.result # "resolved"

\* Where a message is: nothing is made of it yet, a frame of it is made, is in the
\* transport, or its outcome came, or nothing more comes of it.
Untouched(w, id) ==
    /\ ~Makes(w, id) /\ NoneOf(sendQueue, w, id) /\ NoAckOf(acks[w], id)
    /\ NotResolved(w, id) /\ OnWire(w, id) = {}
FrameMade(w, id) ==
    /\ id \in 1..Len(sent[w]) /\ NotResolved(w, id)
    /\ Makes(w, id) /\ NoneOf(sendQueue, w, id) /\ NoAckOf(acks[w], id)
    /\ Piece(sent[w][id].size, Count(w, id), compounded[w]) /\ Holds(w, id, Count(w, id))
FrameQueued(w, id) ==
    /\ id \in 1..Len(sent[w]) /\ NotResolved(w, id)
    /\ ~Makes(w, id) /\ NoAckOf(acks[w], id)
    /\ \E frame : /\ OneOf(sendQueue, w, id, frame)
                  /\ Piece(sent[w][id].size, Count(w, id), frame)
                  /\ ~Writer!Ends(frame) => Holds(w, id, Count(w, id))
FrameBack(w, id) ==
    /\ id \in 1..Len(sent[w]) /\ NotResolved(w, id)
    /\ ~Makes(w, id) /\ NoneOf(sendQueue, w, id)
    /\ \E ack : /\ OneAckOf(acks[w], id, ack)
                /\ ack.result = "resolved" =>
                      /\ LastIs(w, id, ack.frame)
                      /\ ~Writer!Ends(ack.frame) => Holds(w, id, Count(w, id) - 1)
Over(w, id) ==
    /\ id \in 1..Len(sent[w])
    /\ ~Makes(w, id) /\ NoneOf(sendQueue, w, id) /\ NoAckOf(acks[w], id)
    /\ NotResolved(w, id) \/ Complete(w, id)

Stage(w, id) ==
    Untouched(w, id) \/ FrameMade(w, id) \/ FrameQueued(w, id) \/ FrameBack(w, id) \/ Over(w, id)

\* A message that waits for its writer.
Waits(w, m) ==
    m.id \in 1..Len(sent[w]) /\ m.size = sent[w][m.id].size /\ Untouched(w, m.id)

WaitInv ==
    /\ \A w \in Writers : Increasing(calls[w]) /\ \A m \in ToSet(calls[w]) : Waits(w, m)
    /\ "messenger" \in Writers =>
          \A i \in 2..Len(channelSendPromiseQueue) :
              Waits("messenger", channelSendPromiseQueue[i])

\* What came is what should have come next.
WireInv ==
    \A i \in 1..Len(wire) :
        LET e == wire[i]
        IN  /\ e.writer \in Writers /\ e.frame.id \in 1..Len(sent[e.writer])
            /\ Piece(sent[e.writer][e.frame.id].size,
                     Cardinality(Earlier(OnWire(e.writer, e.frame.id), i)), e.frame)

PieceShapes ==
    /\ offset = [w \in Writers |-> offset[w]] /\ remaining = [w \in Writers |-> remaining[w]]
    /\ \A w \in Writers : IsSequence(posted[w])
    /\ \A w \in Writers : \A id \in 1..Len(sent[w]) :
          \E result : \E size \in Nat : sent[w][id] = [size |-> size, promise |-> result]

PiecesInv == PieceShapes /\ WireInv /\ WaitInv /\ \A w \in Writers : \A id : Stage(w, id)

-----------------------------------------------------------------------------
(***************************************************************************)
(* The frames of one message in a queue.                                   *)
(***************************************************************************)
LEMMA OfAppended ==
    ASSUME NEW queue, IsSequence(queue), NEW e, NEW w, NEW id
    PROVE  /\ ~IsOf(e, w, id) /\ NoneOf(queue, w, id) => NoneOf(Append(queue, e), w, id)
           /\ \A f : ~IsOf(e, w, id) /\ OneOf(queue, w, id, f) => OneOf(Append(queue, e), w, id, f)
           /\ IsOf(e, w, id) /\ NoneOf(queue, w, id) => OneOf(Append(queue, e), w, id, e.frame)
<1>. DEFINE longer == Append(queue, e)
<1>1. /\ Len(queue) \in Nat /\ Len(longer) = Len(queue) + 1 /\ longer[Len(queue) + 1] = e
      /\ \A i \in 1..Len(queue) : longer[i] = queue[i]
  BY Appended
<1>2. /\ \A i \in 1..Len(longer) : i \in 1..Len(queue) \/ i = Len(queue) + 1
      /\ \A i \in 1..Len(queue) : i \in 1..Len(longer) /\ i # Len(queue) + 1
      /\ Len(queue) + 1 \in 1..Len(longer)
  BY <1>1
<1>. HIDE DEF longer
<1>3. ~IsOf(e, w, id) /\ NoneOf(queue, w, id) => NoneOf(longer, w, id)
  BY <1>1, <1>2 DEF NoneOf
<1>4. ASSUME NEW f, ~IsOf(e, w, id), OneOf(queue, w, id, f) PROVE OneOf(longer, w, id, f)
  BY <1>1, <1>2, <1>4 DEF OneOf
<1>5. IsOf(e, w, id) /\ NoneOf(queue, w, id) => OneOf(longer, w, id, e.frame)
  BY <1>1, <1>2 DEF OneOf, NoneOf
<1>. QED
  BY <1>3, <1>4, <1>5 DEF longer

LEMMA OfTaken ==
    ASSUME NEW queue, IsSequence(queue), queue # <<>>, NEW w, NEW id
    PROVE  /\ NoneOf(queue, w, id) => ~IsOf(Head(queue), w, id) /\ NoneOf(Tail(queue), w, id)
           /\ \A f : ~IsOf(Head(queue), w, id) /\ OneOf(queue, w, id, f)
                        => OneOf(Tail(queue), w, id, f)
           /\ \A f : IsOf(Head(queue), w, id) /\ OneOf(queue, w, id, f)
                        => f = Head(queue).frame /\ NoneOf(Tail(queue), w, id)
<1>. DEFINE shorter == Tail(queue)
<1>1. /\ Len(queue) \in Nat \ {0} /\ Head(queue) = queue[1] /\ Len(shorter) = Len(queue) - 1
      /\ \A i \in 1..Len(queue) - 1 : shorter[i] = queue[i + 1]
  BY Taken
<1>2. /\ \A i \in 1..Len(shorter) : i + 1 \in 1..Len(queue) /\ i + 1 # 1
                                    /\ shorter[i] = queue[i + 1]
      /\ \A i \in 1..Len(queue) : i = 1 \/ (i - 1 \in 1..Len(shorter) /\ i - 1 + 1 = i)
      /\ \A i, j \in 1..Len(shorter) : i # j => i + 1 # j + 1
      /\ 1 \in 1..Len(queue)
  BY <1>1
<1>. HIDE DEF shorter
<1>3. NoneOf(queue, w, id) => ~IsOf(Head(queue), w, id) /\ NoneOf(shorter, w, id)
  BY <1>1, <1>2 DEF NoneOf
<1>4. ASSUME NEW f, OneOf(queue, w, id, f), ~IsOf(Head(queue), w, id)
      PROVE  OneOf(shorter, w, id, f)
  <2>1. PICK k \in 1..Len(queue) :
            /\ IsOf(queue[k], w, id) /\ queue[k].frame = f
            /\ \A i \in 1..Len(queue) : i # k => ~IsOf(queue[i], w, id)
    BY <1>4 DEF OneOf
  <2>2. k # 1
    BY <1>1, <1>4, <2>1
  <2>3. k - 1 \in 1..Len(shorter) /\ shorter[k - 1] = queue[k]
    BY <1>2, <2>1, <2>2
  <2>4. \A i \in 1..Len(shorter) : i # k - 1 => ~IsOf(shorter[i], w, id)
    BY <1>2, <2>1, <2>3
  <2>. QED
    BY <2>1, <2>3, <2>4 DEF OneOf
<1>5. ASSUME NEW f, OneOf(queue, w, id, f), IsOf(Head(queue), w, id)
      PROVE  f = Head(queue).frame /\ NoneOf(shorter, w, id)
  BY <1>1, <1>2, <1>5 DEF OneOf, NoneOf
<1>. QED
  BY <1>3, <1>4, <1>5 DEF shorter

\* The same of the outcomes, which all are the writer's.
LEMMA OfAckAppended ==
    ASSUME NEW seq, IsSequence(seq), NEW e, NEW id
    PROVE  /\ e.frame.id # id /\ NoAckOf(seq, id) => NoAckOf(Append(seq, e), id)
           /\ \A a : e.frame.id # id /\ OneAckOf(seq, id, a) => OneAckOf(Append(seq, e), id, a)
           /\ e.frame.id = id /\ NoAckOf(seq, id) => OneAckOf(Append(seq, e), id, e)
<1>. DEFINE longer == Append(seq, e)
<1>1. /\ Len(seq) \in Nat /\ Len(longer) = Len(seq) + 1 /\ longer[Len(seq) + 1] = e
      /\ \A i \in 1..Len(seq) : longer[i] = seq[i]
  BY Appended
<1>2. /\ \A i \in 1..Len(longer) : i \in 1..Len(seq) \/ i = Len(seq) + 1
      /\ \A i \in 1..Len(seq) : i \in 1..Len(longer) /\ i # Len(seq) + 1
      /\ Len(seq) + 1 \in 1..Len(longer)
  BY <1>1
<1>. HIDE DEF longer
<1>3. e.frame.id # id /\ NoAckOf(seq, id) => NoAckOf(longer, id)
  BY <1>1, <1>2 DEF NoAckOf
<1>4. ASSUME NEW a, e.frame.id # id, OneAckOf(seq, id, a) PROVE OneAckOf(longer, id, a)
  BY <1>1, <1>2, <1>4 DEF OneAckOf
<1>5. e.frame.id = id /\ NoAckOf(seq, id) => OneAckOf(longer, id, e)
  BY <1>1, <1>2 DEF OneAckOf, NoAckOf
<1>. QED
  BY <1>3, <1>4, <1>5 DEF longer

LEMMA OfAckTaken ==
    ASSUME NEW seq, IsSequence(seq), seq # <<>>, NEW id
    PROVE  /\ NoAckOf(seq, id) => Head(seq).frame.id # id /\ NoAckOf(Tail(seq), id)
           /\ \A a : Head(seq).frame.id # id /\ OneAckOf(seq, id, a)
                        => OneAckOf(Tail(seq), id, a)
           /\ \A a : Head(seq).frame.id = id /\ OneAckOf(seq, id, a)
                        => a = Head(seq) /\ NoAckOf(Tail(seq), id)
<1>. DEFINE shorter == Tail(seq)
<1>1. /\ Len(seq) \in Nat \ {0} /\ Head(seq) = seq[1] /\ Len(shorter) = Len(seq) - 1
      /\ \A i \in 1..Len(seq) - 1 : shorter[i] = seq[i + 1]
  BY Taken
<1>2. /\ \A i \in 1..Len(shorter) : i + 1 \in 1..Len(seq) /\ i + 1 # 1
                                    /\ shorter[i] = seq[i + 1]
      /\ \A i \in 1..Len(seq) : i = 1 \/ (i - 1 \in 1..Len(shorter) /\ i - 1 + 1 = i)
      /\ \A i, j \in 1..Len(shorter) : i # j => i + 1 # j + 1
      /\ 1 \in 1..Len(seq)
  BY <1>1
<1>. HIDE DEF shorter
<1>3. NoAckOf(seq, id) => Head(seq).frame.id # id /\ NoAckOf(shorter, id)
  BY <1>1, <1>2 DEF NoAckOf
<1>4. ASSUME NEW a, OneAckOf(seq, id, a), Head(seq).frame.id # id
      PROVE  OneAckOf(shorter, id, a)
  <2>1. PICK k \in 1..Len(seq) :
            /\ seq[k] = a /\ a.frame.id = id
            /\ \A i \in 1..Len(seq) : i # k => seq[i].frame.id # id
    BY <1>4 DEF OneAckOf
  <2>2. k # 1
    BY <1>1, <1>4, <2>1
  <2>3. k - 1 \in 1..Len(shorter) /\ shorter[k - 1] = seq[k]
    BY <1>2, <2>1, <2>2
  <2>4. \A i \in 1..Len(shorter) : i # k - 1 => shorter[i].frame.id # id
    BY <1>2, <2>1, <2>3
  <2>. QED
    BY <2>1, <2>3, <2>4 DEF OneAckOf
<1>5. ASSUME NEW a, OneAckOf(seq, id, a), Head(seq).frame.id = id
      PROVE  a = Head(seq) /\ NoAckOf(shorter, id)
  BY <1>1, <1>2, <1>5 DEF OneAckOf, NoAckOf
<1>. QED
  BY <1>3, <1>4, <1>5 DEF shorter

-----------------------------------------------------------------------------
(***************************************************************************)
(* The places of the frames of a message on the wire.                      *)
(***************************************************************************)
LEMMA Places ==
    ASSUME IsSequence(wire), NEW w, NEW id
    PROVE  /\ Len(wire) \in Nat /\ OnWire(w, id) = {i \in 1..Len(wire) : IsOf(wire[i], w, id)}
           /\ IsFiniteSet(OnWire(w, id)) /\ Count(w, id) \in Nat
           /\ OnWire(w, id) # {} => Count(w, id) > 0
<1>1. PICK S : wire \in Seq(S)
  BY DEF IsSequence
<1>2. Len(wire) \in Nat /\ DOMAIN wire = 1..Len(wire)
  BY <1>1
<1>3. OnWire(w, id) = {i \in 1..Len(wire) : IsOf(wire[i], w, id)}
  BY <1>2 DEF OnWire, IsOf
<1>4. IsFiniteSet(OnWire(w, id))
  <2>1. IsFiniteSet(1..Len(wire)) /\ OnWire(w, id) \subseteq 1..Len(wire)
    BY <1>2, <1>3, FS_Interval
  <2>. QED
    BY <2>1, FS_Subset
<1>5. Count(w, id) \in Nat
  BY <1>4, FS_CardinalityType DEF Count
<1>6. OnWire(w, id) # {} => Count(w, id) # 0
  BY <1>4, FS_EmptySet DEF Count
<1>. QED
  BY <1>2, <1>3, <1>4, <1>5, <1>6

\* A frame that comes is the last one of its message; those of others stay as they are.
LEMMA FrameCame ==
    ASSUME IsSequence(wire), NEW e, wire' = Append(wire, e), NEW w, NEW id
    PROVE  /\ ~IsOf(e, w, id) => /\ OnWire(w, id)' = OnWire(w, id)
                                 /\ Count(w, id)' = Count(w, id)
                                 /\ \A f : LastIs(w, id, f) => LastIs(w, id, f)'
           /\ IsOf(e, w, id) => /\ OnWire(w, id)' = OnWire(w, id) \cup {Len(wire) + 1}
                                /\ Count(w, id)' = Count(w, id) + 1
                                /\ LastIs(w, id, e.frame)'
<1>1. /\ IsSequence(wire') /\ Len(wire) \in Nat
      /\ Len(wire') = Len(wire) + 1 /\ wire'[Len(wire) + 1] = e
      /\ \A i \in 1..Len(wire) : wire'[i] = wire[i]
  BY Appended
<1>2. /\ \A i \in 1..Len(wire') : i \in 1..Len(wire) \/ i = Len(wire) + 1
      /\ \A i \in 1..Len(wire) : i \in 1..Len(wire') /\ i <= Len(wire) + 1 /\ i # Len(wire) + 1
      /\ Len(wire) + 1 \in 1..Len(wire') /\ Len(wire) + 1 <= Len(wire) + 1
  BY <1>1
<1>3. /\ OnWire(w, id) = {i \in 1..Len(wire) : IsOf(wire[i], w, id)}
      /\ IsFiniteSet(OnWire(w, id)) /\ Count(w, id) \in Nat
  BY Places
<1>4. OnWire(w, id)' = {i \in 1..Len(wire') : IsOf(wire'[i], w, id)}
  <2>1. PICK S : wire' \in Seq(S)
    BY <1>1 DEF IsSequence
  <2>2. DOMAIN wire' = 1..Len(wire')
    BY <2>1
  <2>. QED
    BY <2>2 DEF OnWire, IsOf
<1>5. CASE ~IsOf(e, w, id)
  <2>1. OnWire(w, id)' = OnWire(w, id)
    BY <1>1, <1>2, <1>3, <1>4, <1>5
  <2>2. Count(w, id)' = Count(w, id)
    BY <2>1 DEF Count
  <2>3. ASSUME NEW f, LastIs(w, id, f) PROVE LastIs(w, id, f)'
    BY <1>1, <1>3, <2>1, <2>3 DEF LastIs
  <2>. QED
    BY <1>5, <2>1, <2>2, <2>3
<1>6. CASE IsOf(e, w, id)
  <2>1. OnWire(w, id)' = OnWire(w, id) \cup {Len(wire) + 1}
    BY <1>1, <1>2, <1>3, <1>4, <1>6
  <2>2. Len(wire) + 1 \notin OnWire(w, id)
    BY <1>2, <1>3
  <2>3. Cardinality(OnWire(w, id) \cup {Len(wire) + 1}) = Cardinality(OnWire(w, id)) + 1
    BY <1>3, <2>2, FS_AddElement
  <2>4. Count(w, id)' = Count(w, id) + 1
    BY <2>1, <2>3 DEF Count
  <2>5. \A j \in OnWire(w, id)' : j <= Len(wire) + 1
    BY <1>2, <1>3, <2>1
  <2>6. LastIs(w, id, e.frame)'
    BY <1>1, <2>1, <2>5 DEF LastIs
  <2>. QED
    BY <1>6, <2>1, <2>4, <2>6
<1>. QED
  BY <1>5, <1>6

\* There is one last frame, and all but it are before it.
LEMMA LastHasOthersBefore ==
    ASSUME IsSequence(wire), NEW w, NEW id, NEW f, LastIs(w, id, f)
    PROVE  \E i \in OnWire(w, id) :
              /\ wire[i].frame = f /\ \A j \in OnWire(w, id) : j <= i
              /\ Count(w, id) = Cardinality(Earlier(OnWire(w, id), i)) + 1
<1>1. PICK i \in OnWire(w, id) : wire[i].frame = f /\ \A j \in OnWire(w, id) : j <= i
  BY DEF LastIs
<1>2. /\ OnWire(w, id) = {j \in 1..Len(wire) : IsOf(wire[j], w, id)} /\ Len(wire) \in Nat
      /\ IsFiniteSet(OnWire(w, id))
  BY Places
<1>3. OnWire(w, id) = Earlier(OnWire(w, id), i) \cup {i} /\ i \notin Earlier(OnWire(w, id), i)
  BY <1>1, <1>2 DEF Earlier
<1>4. IsFiniteSet(Earlier(OnWire(w, id), i))
  BY <1>2, FS_Subset DEF Earlier
<1>5. Cardinality(Earlier(OnWire(w, id), i) \cup {i}) = Cardinality(Earlier(OnWire(w, id), i)) + 1
  BY <1>3, <1>4, FS_AddElement
<1>6. Count(w, id) = Cardinality(Earlier(OnWire(w, id), i)) + 1
  BY <1>3, <1>5 DEF Count
<1>. QED
  BY <1>1, <1>6

\* A frame with another behind it has fewer before it.
LEMMA FewerBefore ==
    ASSUME IsSequence(wire), NEW w, NEW id, NEW i \in OnWire(w, id), NEW j \in OnWire(w, id), j < i
    PROVE  /\ Cardinality(Earlier(OnWire(w, id), j)) \in Nat
           /\ Cardinality(Earlier(OnWire(w, id), i)) \in Nat
           /\ Cardinality(Earlier(OnWire(w, id), j)) + 1 <= Cardinality(Earlier(OnWire(w, id), i))
<1>. DEFINE P == OnWire(w, id)
<1>1. P = {k \in 1..Len(wire) : IsOf(wire[k], w, id)} /\ Len(wire) \in Nat /\ IsFiniteSet(P)
  BY Places
<1>2. IsFiniteSet(Earlier(P, j)) /\ IsFiniteSet(Earlier(P, i))
  BY <1>1, FS_Subset DEF Earlier
<1>3. j \notin Earlier(P, j) /\ Earlier(P, j) \cup {j} \subseteq Earlier(P, i)
  BY <1>1 DEF Earlier
<1>4. /\ Cardinality(Earlier(P, j) \cup {j}) = Cardinality(Earlier(P, j)) + 1
      /\ IsFiniteSet(Earlier(P, j) \cup {j})
  BY <1>2, <1>3, FS_AddElement
<1>5. Cardinality(Earlier(P, j) \cup {j}) <= Cardinality(Earlier(P, i))
  BY <1>2, <1>3, FS_Subset
<1>6. Cardinality(Earlier(P, j)) \in Nat /\ Cardinality(Earlier(P, i)) \in Nat
  BY <1>2, FS_CardinalityType
<1>. QED
  BY <1>4, <1>5, <1>6

-----------------------------------------------------------------------------
(***************************************************************************)
(* The sizes of the frames of a message.                                   *)
(***************************************************************************)
\* A number is its quotient and its rest.
LEMMA Divided ==
    ASSUME NEW M \in Nat, M > 0, NEW q \in Nat, NEW r \in 0..M - 1, NEW a \in Nat, a = q * M + r
    PROVE  a \div M = q /\ a % M = r
<1>. QED
  OBVIOUS

LEMMA Times ==
    ASSUME NEW m \in Nat
    PROVE  /\ m * MaxPayload \in Nat /\ (m + 1) * MaxPayload = m * MaxPayload + MaxPayload
           /\ 0 * MaxPayload = 0 /\ 1 * MaxPayload = MaxPayload
           /\ MaxPayload \in Nat /\ MaxPayload > 0
BY SendPathAssumption

LEMMA TimesLess ==
    ASSUME NEW m \in Nat, NEW n \in Nat, m <= n
    PROVE  m * MaxPayload <= n * MaxPayload
<1>1. PICK d \in Nat : n = m + d
  <2>1. n - m \in Nat /\ n = m + (n - m)
    OBVIOUS
  <2>. QED
    BY <2>1
<1>2. MaxPayload \in Nat
  BY SendPathAssumption
<1>3. n * MaxPayload = m * MaxPayload + d * MaxPayload
  BY <1>1, <1>2
<1>. QED
  BY <1>2, <1>3, Times

\* What is made of a message of which n full frames are done.
LEMMA PieceMade ==
    ASSUME NEW m, m.size \in Nat, NEW n \in Nat, NEW off, NEW rest, NEW size, NEW frame,
           m.size < MaxPayload => n = 0 /\ rest = m.size,
           m.size >= MaxPayload => /\ off = n * MaxPayload /\ rest = m.size - n * MaxPayload
                                   /\ Begun(m.size, n),
           size = (IF rest < MaxPayload THEN rest ELSE MaxPayload),
           frame.type = Writer!FrameType(m, off, rest, size), frame.size = size
    PROVE  Piece(m.size, n, frame)
<1>1. /\ n * MaxPayload \in Nat /\ MaxPayload \in Nat /\ MaxPayload > 0
      /\ 0 * MaxPayload = 0
  BY Times
<1>2. CASE m.size < MaxPayload
  BY <1>1, <1>2 DEF Piece, Writer!FrameType
<1>3. CASE m.size >= MaxPayload
  <2>1. off = 0 <=> n = 0
    <3>1. n # 0 => 1 <= n
      OBVIOUS
    <3>2. n # 0 => 1 * MaxPayload <= n * MaxPayload
      BY <3>1, TimesLess
    <3>. QED
      BY <1>1, <1>3, <3>2, Times
  <2>2. ~(m.size < MaxPayload) /\ rest \in Int
    BY <1>1, <1>3
  <2>3. rest - size > 0 <=> rest > MaxPayload
    BY <1>1, <2>2
  <2>4. frame.type = IF n = 0 THEN "FIRST" ELSE IF rest > MaxPayload THEN "MIDDLE" ELSE "LAST"
    BY <2>1, <2>2, <2>3 DEF Writer!FrameType
  <2>. QED
    BY <1>3, <2>2, <2>4 DEF Piece
<1>. QED
  BY <1>1, <1>2, <1>3

\* A frame that is not the last one is full, and something is left to send after it.
LEMMA MoreToSend ==
    ASSUME NEW size \in Nat, NEW n \in Nat, NEW frame, Piece(size, n, frame), ~Writer!Ends(frame)
    PROVE  /\ size >= MaxPayload /\ frame.size = MaxPayload
           /\ (n + 1) * MaxPayload = n * MaxPayload + MaxPayload /\ Begun(size, n + 1)
<1>1. /\ n * MaxPayload \in Nat /\ (n + 1) * MaxPayload = n * MaxPayload + MaxPayload
      /\ MaxPayload \in Nat /\ MaxPayload > 0 /\ 0 * MaxPayload = 0
  BY Times
<1>2. ~(size < MaxPayload)
  BY DEF Piece, Writer!Ends
<1>3. n = 0 \/ size - n * MaxPayload > MaxPayload
  BY <1>2 DEF Piece, Writer!Ends
<1>4. frame.size = MaxPayload
  BY <1>1, <1>2, <1>3 DEF Piece
<1>5. Begun(size, n + 1)
  <2>1. CASE n = 0
    <3>1. (n + 1) * MaxPayload = MaxPayload /\ n + 1 = 1
      BY <1>1, <2>1
    <3>2. MaxPayload < size \/ size = MaxPayload
      BY <1>1, <1>2
    <3>. QED
      BY <3>1, <3>2 DEF Begun
  <2>2. CASE n # 0
    <3>1. n * MaxPayload + MaxPayload < size
      BY <1>1, <1>3, <2>2
    <3>. QED
      BY <1>1, <3>1 DEF Begun
  <2>. QED
    BY <2>1, <2>2
<1>. QED
  BY <1>1, <1>2, <1>4, <1>5

\* How many frames a message has, by the place of its last one.
LEMMA FramesInAll ==
    ASSUME NEW size \in Nat, NEW n \in Nat, NEW frame, Piece(size, n, frame), Writer!Ends(frame)
    PROVE  IF size < MaxPayload THEN n = 0 /\ frame.type = "BULK" /\ frame.size = size
           ELSE /\ n >= 1 /\ frame.type = "LAST" /\ frame.size = size - n * MaxPayload
                /\ n * MaxPayload < size \/ (n = 1 /\ size = MaxPayload)
                /\ n + 1 = size \div MaxPayload
                         + (IF size % MaxPayload = 0 /\ size # MaxPayload THEN 0 ELSE 1)
<1>. DEFINE M == MaxPayload
            rest == size - n * M
<1>1. /\ n * M \in Nat /\ (n + 1) * M = n * M + M /\ 0 * M = 0 /\ 1 * M = M
      /\ M \in Nat /\ M > 0
  BY Times
<1>2. CASE size < M
  BY <1>2 DEF Piece
<1>3. CASE ~(size < M)
  <2>1. n # 0 /\ frame.type = "LAST" /\ ~(rest > M) /\ Begun(size, n)
    BY <1>3 DEF Piece, Writer!Ends
  <2>2. n >= 1 /\ (n * M < size \/ (n = 1 /\ size = M))
    BY <2>1 DEF Begun
  <2>3. rest \in Nat /\ rest <= M
    <3>1. rest <= M
      BY <1>1, <2>1
    <3>2. n * M <= size
      BY <1>1, <2>2
    <3>. QED
      BY <1>1, <3>1, <3>2
  <2>4. frame.size = rest
    BY <1>1, <1>3, <2>3 DEF Piece
  <2>5. n + 1 = size \div M + (IF size % M = 0 /\ size # M THEN 0 ELSE 1)
    <3>1. CASE rest < M
      <4>1. size = n * M + rest /\ rest \in 0..M - 1
        BY <1>1, <2>3, <3>1
      <4>2. size \div M = n /\ size % M = rest
        BY <1>1, <4>1, Divided
      <4>3. ~(size % M = 0 /\ size # M)
        BY <1>1, <2>2, <2>3, <4>1, <4>2
      <4>. QED
        BY <4>2, <4>3
    <3>2. CASE rest = M
      <4>1. size = (n + 1) * M + 0 /\ 0 \in 0..M - 1 /\ n + 1 \in Nat
        BY <1>1, <2>3, <3>2
      <4>2. size \div M = n + 1 /\ size % M = 0
        BY <1>1, <4>1, Divided
      <4>3. size # M
        <5>1. 1 * M <= n * M
          BY <2>2, TimesLess
        <5>. QED
          BY <1>1, <4>1, <5>1
      <4>. QED
        BY <4>2, <4>3
    <3>. QED
      BY <1>1, <2>3, <3>1, <3>2
  <2>. QED
    BY <1>3, <2>1, <2>2, <2>4, <2>5
<1>. QED
  BY <1>2, <1>3

-----------------------------------------------------------------------------
\* With its last frame on the wire a message is whole.
LEMMA CompleteIsWhole ==
    ASSUME IsSequence(wire), WireInv, PieceShapes, NEW w \in Writers,
           NEW id \in 1..Len(sent[w]), Complete(w, id)
    PROVE  Whole(OnWire(w, id), sent[w][id].size)
<1>. DEFINE P == OnWire(w, id)
            before(i) == Cardinality(Earlier(P, i))
<1>1. PICK size : size = sent[w][id].size
  OBVIOUS
<1>2. size \in Nat
  <2>1. PICK r : \E s \in Nat : sent[w][id] = [size |-> s, promise |-> r]
    BY DEF PieceShapes
  <2>. QED
    BY <1>1, <2>1
<1>3. PICK last \in P : /\ Writer!Ends(wire[last].frame) /\ Count(w, id) = before(last) + 1
                        /\ \A i \in P : i <= last
  BY LastHasOthersBefore DEF Complete
<1>4. P = {j \in 1..Len(wire) : IsOf(wire[j], w, id)} /\ Len(wire) \in Nat /\ IsFiniteSet(P)
  BY Places
<1>5. \A i \in P : before(i) \in Nat /\ Piece(size, before(i), wire[i].frame)
  <2>1. ASSUME NEW i \in P PROVE before(i) \in Nat
    <3>1. IsFiniteSet(Earlier(P, i))
      BY <1>4, FS_Subset DEF Earlier
    <3>. QED
      BY <3>1, FS_CardinalityType
  <2>2. ASSUME NEW i \in P PROVE Piece(size, before(i), wire[i].frame)
    BY <1>1, <1>4 DEF WireInv, IsOf
  <2>. QED
    BY <2>1, <2>2
<1>6. \A i \in P : i # last => before(i) + 1 <= before(last)
  <2>1. \A i \in P : i # last => i < last
    BY <1>3, <1>4
  <2>. QED
    BY <2>1, FewerBefore
<1>7. PICK n \in Nat : n = before(last)
  BY <1>5
<1>8. /\ Piece(size, n, wire[last].frame) /\ Cardinality(P) = n + 1
      /\ \A i \in P : i # last => before(i) + 1 <= n
  BY <1>3, <1>5, <1>6, <1>7 DEF Count
<1>9. IF size < MaxPayload
      THEN n = 0 /\ wire[last].frame.type = "BULK" /\ wire[last].frame.size = size
      ELSE /\ n >= 1 /\ wire[last].frame.type = "LAST"
           /\ wire[last].frame.size = size - n * MaxPayload
           /\ n * MaxPayload < size \/ (n = 1 /\ size = MaxPayload)
           /\ n + 1 = size \div MaxPayload
                    + (IF size % MaxPayload = 0 /\ size # MaxPayload THEN 0 ELSE 1)
  BY <1>2, <1>3, <1>8, FramesInAll
<1>10. CASE size < MaxPayload
  <2>1. n = 0 /\ wire[last].frame.type = "BULK" /\ wire[last].frame.size = size
    BY <1>9, <1>10
  <2>2. \A i \in P : i = last
    BY <1>5, <1>8, <2>1
  <2>3. Cardinality(P) = 1 /\ \A i \in P : wire[i].frame.type = "BULK" /\ wire[i].frame.size = size
    BY <1>8, <2>1, <2>2
  <2>. QED
    BY <1>1, <1>10, <2>3 DEF Whole
<1>11. CASE ~(size < MaxPayload)
  <2>1. /\ n >= 1 /\ wire[last].frame.type = "LAST"
        /\ wire[last].frame.size = size - n * MaxPayload
        /\ n * MaxPayload < size \/ (n = 1 /\ size = MaxPayload)
        /\ Cardinality(P) = size \div MaxPayload
                    + (IF size % MaxPayload = 0 /\ size # MaxPayload THEN 0 ELSE 1)
    BY <1>8, <1>9, <1>11
  <2>2. ASSUME NEW i \in P, before(i) + 1 = Cardinality(P)
        PROVE  wire[i].frame.type = "LAST" /\ wire[i].frame.size = size - before(i) * MaxPayload
    <3>1. i = last
      BY <1>5, <1>7, <1>8, <2>2
    <3>. QED
      BY <1>7, <2>1, <3>1
  <2>3. ASSUME NEW i \in P, before(i) + 1 # Cardinality(P)
        PROVE  /\ wire[i].frame.type = (IF before(i) = 0 THEN "FIRST" ELSE "MIDDLE")
               /\ wire[i].frame.size = MaxPayload
    <3>1. PICK k \in Nat : k = before(i)
      BY <1>5
    <3>2. Piece(size, k, wire[i].frame) /\ k + 1 <= n
      BY <1>5, <1>7, <1>8, <2>3, <3>1
    <3>3. /\ k * MaxPayload \in Nat /\ (k + 1) * MaxPayload = k * MaxPayload + MaxPayload
          /\ (k + 1) * MaxPayload <= n * MaxPayload /\ n * MaxPayload \in Nat
          /\ MaxPayload \in Nat /\ MaxPayload > 0 /\ 0 * MaxPayload = 0
      <4>1. k + 1 \in Nat /\ k + 1 <= n
        BY <3>2
      <4>2. (k + 1) * MaxPayload <= n * MaxPayload
        BY <4>1, TimesLess
      <4>. QED
        BY <4>2, Times
    <3>4. CASE k = 0
      <4>1. ~(size - k * MaxPayload < MaxPayload)
        BY <1>2, <1>11, <3>3, <3>4
      <4>2. wire[i].frame.type = "FIRST" /\ wire[i].frame.size = MaxPayload
        BY <1>11, <3>2, <3>4, <4>1 DEF Piece
      <4>. QED
        BY <3>1, <3>4, <4>2
    <3>5. CASE k # 0
      <4>1. n # 1
        BY <3>2, <3>5
      <4>2. size - k * MaxPayload > MaxPayload
        BY <1>2, <2>1, <3>3, <4>1
      <4>3. wire[i].frame.type = "MIDDLE"
        BY <1>11, <3>2, <3>5, <4>2 DEF Piece
      <4>4. ~(size - k * MaxPayload < MaxPayload)
        BY <1>2, <3>3, <4>2
      <4>5. wire[i].frame.size = MaxPayload
        BY <1>11, <3>2, <4>4 DEF Piece
      <4>. QED
        BY <3>1, <3>5, <4>3, <4>5
    <3>. QED
      BY <3>4, <3>5
  <2>. HIDE DEF before, P
  <2>4. \A i \in P : LET f == wire[i].frame
                     IN  IF before(i) + 1 = Cardinality(P)
                         THEN f.type = "LAST" /\ f.size = size - before(i) * MaxPayload
                         ELSE /\ f.type = (IF before(i) = 0 THEN "FIRST" ELSE "MIDDLE")
                              /\ f.size = MaxPayload
    BY <2>2, <2>3
  <2>5. Whole(P, size)
    BY <1>11, <2>1, <2>4, Zenon DEF Whole, before
  <2>. QED
    BY <1>1, <2>5 DEF P
<1>. QED
  BY <1>10, <1>11

-----------------------------------------------------------------------------
(***************************************************************************)
(* A step that is not about a message leaves it where it is.               *)
(***************************************************************************)
\* The writer waits for a frame of the message.
WaitedFor(w, id) ==
    \/ Makes(w, id)
    \/ \E f : OneOf(sendQueue, w, id, f) /\ ~Writer!Ends(f)
    \/ \E a : OneAckOf(acks[w], id, a) /\ ~Writer!Ends(a.frame)

SizesKept ==
    \A w \in Writers : \A id \in 1..Len(sent[w]) :
        id \in 1..Len(sent'[w]) /\ sent'[w][id].size = sent[w][id].size

Kept(w, id) ==
    /\ \/ compounded'[w] = compounded[w]
       \/ ~Makes(w, id) /\ ~Makes(w, id)'
    /\ NoneOf(sendQueue, w, id) => NoneOf(sendQueue', w, id)
    /\ \A f : OneOf(sendQueue, w, id, f) => OneOf(sendQueue', w, id, f)
    /\ NoAckOf(acks[w], id) => NoAckOf(acks'[w], id)
    /\ \A a : OneAckOf(acks[w], id, a) => OneAckOf(acks'[w], id, a)
    /\ OnWire(w, id)' = OnWire(w, id) /\ \A f : LastIs(w, id, f) => LastIs(w, id, f)'
    /\ \/ message'[w] = message[w] /\ offset'[w] = offset[w] /\ remaining'[w] = remaining[w]
       \/ ~WaitedFor(w, id)
    /\ NotResolved(w, id) => NotResolved(w, id)'

LEMMA UntouchedKept ==
    ASSUME NEW w \in Writers, NEW id, Kept(w, id), Untouched(w, id)
    PROVE  Untouched(w, id)'
<1>1. ~Makes(w, id)'
  BY DEF Kept, Untouched, Makes, Writer!Idle, Writer!NoFrame
<1>2. NoneOf(sendQueue, w, id)' /\ NoAckOf(acks[w], id)'
  BY DEF Kept, Untouched, NoneOf, NoAckOf, IsOf
<1>3. NotResolved(w, id)' /\ OnWire(w, id)' = {}
  BY DEF Kept, Untouched
<1>. QED
  BY <1>1, <1>2, <1>3 DEF Untouched

LEMMA StageKept ==
    ASSUME NEW w \in Writers, NEW id, Kept(w, id), SizesKept, Stage(w, id)
    PROVE  Stage(w, id)'
<1>1. CASE Untouched(w, id)
  BY <1>1, UntouchedKept DEF Stage
<1>2. /\ NoneOf(sendQueue, w, id) => NoneOf(sendQueue, w, id)'
      /\ NoAckOf(acks[w], id) => NoAckOf(acks[w], id)'
      /\ \A f : OneOf(sendQueue, w, id, f) => OneOf(sendQueue, w, id, f)'
      /\ \A a : OneAckOf(acks[w], id, a) => OneAckOf(acks[w], id, a)'
      /\ Makes(w, id)' <=> Makes(w, id)
      /\ Count(w, id)' = Count(w, id)
      /\ Complete(w, id) => Complete(w, id)'
  BY DEF Kept, NoneOf, NoAckOf, OneOf, OneAckOf, IsOf, Makes, Writer!Idle, Writer!NoFrame, Count,
         Complete, Writer!Ends
<1>3. CASE id \in 1..Len(sent[w])
  <2>1. PICK size, n : size = sent[w][id].size /\ n = Count(w, id)
    OBVIOUS
  <2>2. id \in 1..Len(sent[w])' /\ size = sent[w][id].size' /\ n = Count(w, id)'
    BY <1>2, <1>3, <2>1 DEF SizesKept
  <2>3. ASSUME NEW f PROVE Piece(size, n, f)' <=> Piece(size, n, f)
    BY DEF Piece, Begun
  <2>4. ASSUME NEW k, WaitedFor(w, id), Holds(w, id, k) PROVE Holds(w, id, k)'
    BY <2>1, <2>2, <2>4 DEF Kept, Holds
  <2>5. CASE FrameMade(w, id)
    <3>1. compounded'[w] = compounded[w] /\ WaitedFor(w, id)
      BY <2>5 DEF FrameMade, Kept, WaitedFor
    <3>2. Holds(w, id, n)' /\ Piece(size, n, compounded[w])'
      BY <2>1, <2>4, <2>5, <3>1 DEF FrameMade, Piece, Begun
    <3>. QED
      BY <1>2, <2>2, <2>5, <3>2 DEF FrameMade, Kept, Stage
  <2>6. CASE FrameQueued(w, id)
    <3>1. PICK f : /\ OneOf(sendQueue, w, id, f) /\ Piece(size, n, f)
                   /\ ~Writer!Ends(f) => Holds(w, id, n)
      BY <2>1, <2>6 DEF FrameQueued
    <3>2. OneOf(sendQueue, w, id, f)' /\ Piece(size, n, f)'
      BY <1>2, <2>3, <3>1
    <3>3. ~Writer!Ends(f) => Holds(w, id, n)'
      BY <2>4, <3>1 DEF WaitedFor
    <3>4. (~Writer!Ends(f))' => ~Writer!Ends(f)
      BY DEF Writer!Ends
    <3>. QED
      BY <1>2, <2>2, <2>6, <3>2, <3>3, <3>4 DEF FrameQueued, Kept, Stage
  <2>7. CASE FrameBack(w, id)
    <3>1. PICK a : /\ OneAckOf(acks[w], id, a)
                   /\ a.result = "resolved" =>
                         LastIs(w, id, a.frame) /\ (~Writer!Ends(a.frame) => Holds(w, id, n - 1))
      BY <2>1, <2>7 DEF FrameBack
    <3>2. OneAckOf(acks[w], id, a)' /\ (LastIs(w, id, a.frame) => LastIs(w, id, a.frame)')
      BY <1>2, <3>1 DEF Kept
    <3>3. ~Writer!Ends(a.frame) /\ Holds(w, id, n - 1) => Holds(w, id, n - 1)'
      BY <2>4, <3>1 DEF WaitedFor
    <3>4. (~Writer!Ends(a.frame))' => ~Writer!Ends(a.frame)
      BY DEF Writer!Ends
    <3>. QED
      BY <1>2, <2>2, <2>7, <3>1, <3>2, <3>3, <3>4 DEF FrameBack, Kept, Stage
  <2>8. CASE Over(w, id)
    BY <1>2, <2>2, <2>8 DEF Over, Kept, Stage
  <2>. QED
    BY <1>1, <2>5, <2>6, <2>7, <2>8 DEF Stage
<1>. QED
  BY <1>1, <1>3 DEF Stage, FrameMade, FrameQueued, FrameBack, Over

\* Taking from and adding to calls in rising order.
LEMMA IncreasingAppended ==
    ASSUME NEW seq, IsSequence(seq), Increasing(seq), NEW e, \A x \in ToSet(seq) : x.id < e.id
    PROVE  Increasing(Append(seq, e))
<1>. DEFINE longer == Append(seq, e)
<1>1. /\ Len(seq) \in Nat /\ Len(longer) = Len(seq) + 1 /\ longer[Len(seq) + 1] = e
      /\ \A i \in 1..Len(seq) : longer[i] = seq[i]
  BY Appended
<1>. HIDE DEF longer
<1>2. /\ \A i \in 1..Len(longer) : i \in 1..Len(seq) \/ i = Len(seq) + 1
      /\ \A i, j \in 1..Len(longer) : i < j => i \in 1..Len(seq)
  BY <1>1
<1>3. \A i \in 1..Len(seq) : seq[i].id < e.id
  BY Elements
<1>4. Increasing(longer)
  BY <1>1, <1>2, <1>3 DEF Increasing
<1>. QED
  BY <1>4 DEF longer

LEMMA IncreasingTaken ==
    ASSUME NEW seq, IsSequence(seq), seq # <<>>, Increasing(seq)
    PROVE  Increasing(Tail(seq)) /\ \A x \in ToSet(Tail(seq)) : Head(seq).id < x.id
<1>. DEFINE shorter == Tail(seq)
<1>1. /\ IsSequence(shorter) /\ Len(seq) \in Nat \ {0} /\ Head(seq) = seq[1]
      /\ Len(shorter) = Len(seq) - 1
      /\ \A i \in 1..Len(seq) - 1 : shorter[i] = seq[i + 1]
  BY Taken
<1>. HIDE DEF shorter
<1>2. /\ \A i \in 1..Len(shorter) : i + 1 \in 1..Len(seq) /\ 1 < i + 1
                                    /\ shorter[i] = seq[i + 1]
      /\ \A i, j \in 1..Len(shorter) : i < j => i + 1 < j + 1
      /\ 1 \in 1..Len(seq)
  BY <1>1
<1>3. ToSet(shorter) = {shorter[i] : i \in 1..Len(shorter)}
  BY <1>1, Elements
<1>4. ASSUME NEW i \in 1..Len(shorter), NEW j \in 1..Len(shorter), i < j
      PROVE  shorter[i].id < shorter[j].id
  <2>1. i + 1 \in 1..Len(seq) /\ j + 1 \in 1..Len(seq) /\ i + 1 < j + 1
    BY <1>2, <1>4
  <2>2. seq[i + 1].id < seq[j + 1].id
    BY <2>1 DEF Increasing
  <2>. QED
    BY <1>2, <2>2
<1>5. ASSUME NEW i \in 1..Len(shorter) PROVE Head(seq).id < shorter[i].id
  <2>1. seq[1].id < seq[i + 1].id
    BY <1>2 DEF Increasing
  <2>. QED
    BY <1>1, <1>2, <2>1
<1>6. Increasing(shorter) /\ \A x \in ToSet(shorter) : Head(seq).id < x.id
  BY <1>3, <1>4, <1>5 DEF Increasing
<1>. QED
  BY <1>6 DEF shorter

-----------------------------------------------------------------------------
(***************************************************************************)
(* What keeps a message where it is, part by part.                         *)
(***************************************************************************)
QueueKept(w, id) ==
    /\ NoneOf(sendQueue, w, id) => NoneOf(sendQueue', w, id)
    /\ \A f : OneOf(sendQueue, w, id, f) => OneOf(sendQueue', w, id, f)
AcksKept(w, id) ==
    /\ NoAckOf(acks[w], id) => NoAckOf(acks'[w], id)
    /\ \A a : OneAckOf(acks[w], id, a) => OneAckOf(acks'[w], id, a)
WireKept(w, id) ==
    OnWire(w, id)' = OnWire(w, id) /\ \A f : LastIs(w, id, f) => LastIs(w, id, f)'
HandKept(w) ==
    message'[w] = message[w] /\ offset'[w] = offset[w] /\ remaining'[w] = remaining[w]

LEMMA QueueStays ==
    ASSUME IsSequence(sendQueue), NEW w, NEW id,
           \/ UNCHANGED sendQueue
           \/ \E e : ~IsOf(e, w, id) /\ sendQueue' = Append(sendQueue, e)
           \/ sendQueue # <<>> /\ ~IsOf(Head(sendQueue), w, id) /\ sendQueue' = Tail(sendQueue)
    PROVE  QueueKept(w, id)
<1>1. CASE UNCHANGED sendQueue
  BY <1>1 DEF QueueKept
<1>2. ASSUME NEW e, ~IsOf(e, w, id), sendQueue' = Append(sendQueue, e)
      PROVE  QueueKept(w, id)
  BY <1>2, OfAppended DEF QueueKept
<1>3. CASE sendQueue # <<>> /\ ~IsOf(Head(sendQueue), w, id) /\ sendQueue' = Tail(sendQueue)
  BY <1>3, OfTaken DEF QueueKept
<1>. QED
  BY <1>1, <1>2, <1>3

LEMMA AcksStay ==
    ASSUME NEW w, IsSequence(acks[w]), NEW id,
           \/ acks'[w] = acks[w]
           \/ \E e : e.frame.id # id /\ acks'[w] = Append(acks[w], e)
           \/ acks[w] # <<>> /\ Head(acks[w]).frame.id # id /\ acks'[w] = Tail(acks[w])
    PROVE  AcksKept(w, id)
<1>1. CASE acks'[w] = acks[w]
  BY <1>1 DEF AcksKept
<1>2. ASSUME NEW e, e.frame.id # id, acks'[w] = Append(acks[w], e) PROVE AcksKept(w, id)
  BY <1>2, OfAckAppended DEF AcksKept
<1>3. CASE acks[w] # <<>> /\ Head(acks[w]).frame.id # id /\ acks'[w] = Tail(acks[w])
  BY <1>3, OfAckTaken DEF AcksKept
<1>. QED
  BY <1>1, <1>2, <1>3

LEMMA WireStays ==
    ASSUME IsSequence(wire), NEW w, NEW id,
           UNCHANGED wire \/ \E e : ~IsOf(e, w, id) /\ wire' = Append(wire, e)
    PROVE  WireKept(w, id)
<1>1. CASE UNCHANGED wire
  BY <1>1 DEF WireKept, OnWire, LastIs
<1>2. ASSUME NEW e, ~IsOf(e, w, id), wire' = Append(wire, e) PROVE WireKept(w, id)
  BY <1>2, FrameCame DEF WireKept
<1>. QED
  BY <1>1, <1>2

LEMMA ResultsStay ==
    ASSUME UNCHANGED sent, NEW w, IsSequence(posted[w]), NEW id,
           \/ posted'[w] = posted[w]
           \/ \E o : (o.id # id \/ o.result # "resolved") /\ posted'[w] = Append(posted[w], o)
    PROVE  NotResolved(w, id) => NotResolved(w, id)'
<1>1. CASE posted'[w] = posted[w]
  BY <1>1 DEF NotResolved
<1>2. ASSUME NEW o, o.id # id \/ o.result # "resolved", posted'[w] = Append(posted[w], o)
      PROVE  NotResolved(w, id) => NotResolved(w, id)'
  <2>1. ToSet(posted'[w]) = ToSet(posted[w]) \cup {o}
    BY <1>2, ElementsAppended
  <2>. QED
    BY <1>2, <2>1 DEF NotResolved
<1>. QED
  BY <1>1, <1>2

LEMMA KeptParts ==
    ASSUME NEW w, NEW id,
           compounded'[w] = compounded[w] \/ (~Makes(w, id) /\ ~Makes(w, id)'),
           QueueKept(w, id), AcksKept(w, id), WireKept(w, id),
           HandKept(w) \/ ~WaitedFor(w, id), NotResolved(w, id) => NotResolved(w, id)'
    PROVE  Kept(w, id)
BY DEF Kept, QueueKept, AcksKept, WireKept, HandKept

\* Whoever waits goes on waiting.
LEMMA WaitsStay ==
    ASSUME NEW w \in Writers, NEW m, Waits(w, m), SizesKept,
           Kept(w, m.id) \/ ~Untouched(w, m.id)
    PROVE  Waits(w, m)'
<1>1. Untouched(w, m.id)'
  BY UntouchedKept DEF Waits
<1>. QED
  BY <1>1 DEF Waits, SizesKept

\* The wire stays right when it stays the same.
LEMMA WireInvStays ==
    ASSUME WireInv, SizesKept, UNCHANGED wire
    PROVE  WireInv'
<1>1. ASSUME NEW w, NEW id, NEW i
      PROVE  Earlier(OnWire(w, id), i)' = Earlier(OnWire(w, id), i)
  BY DEF Earlier, OnWire
<1>2. ASSUME NEW i \in 1..Len(wire)
      PROVE  LET e == wire[i]
             IN  /\ e.writer \in Writers /\ e.frame.id \in 1..Len(sent'[e.writer])
                 /\ Piece(sent'[e.writer][e.frame.id].size,
                          Cardinality(Earlier(OnWire(e.writer, e.frame.id), i)), e.frame)
  BY DEF WireInv, SizesKept
<1>3. ASSUME NEW i \in 1..Len(wire'), NEW e, e = wire'[i]
      PROVE  /\ e.writer \in Writers /\ e.frame.id \in 1..Len(sent'[e.writer])
             /\ Piece(sent'[e.writer][e.frame.id].size,
                      Cardinality(Earlier(OnWire(e.writer, e.frame.id), i)'), e.frame)
  BY <1>1, <1>2, <1>3
<1>. QED
  BY <1>3, Zenon DEF WireInv

\* A step of which each message is kept in its place, or comes to the next one.
LEMMA StepPieces ==
    ASSUME PiecesInv, SizesKept, PieceShapes', WireInv',
           UNCHANGED <<calls, channelSendPromiseQueue>>,
           \A w \in Writers : \A id : Kept(w, id) \/ (~Untouched(w, id) /\ Stage(w, id)')
    PROVE  PiecesInv'
<1>1. ASSUME NEW w \in Writers, NEW id PROVE Stage(w, id)'
  BY <1>1, StageKept DEF PiecesInv
<1>2. WaitInv'
  <2>1. ASSUME NEW w \in Writers, NEW m, Waits(w, m) PROVE Waits(w, m)'
    BY <2>1, WaitsStay
  <2>. QED
    BY <2>1 DEF PiecesInv, WaitInv, Increasing
<1>. QED
  BY <1>1, <1>2 DEF PiecesInv

-----------------------------------------------------------------------------
\* Initially nothing is asked for.
LEMMA PiecesInit == ASSUME Init PROVE PiecesInv
<1>. USE DEF Init, Writer!Init
<1>1. PieceShapes
  BY NoElements, Empty DEF PieceShapes
<1>2. WireInv
  BY Empty DEF WireInv
<1>3. WaitInv
  <2>1. ASSUME NEW w \in Writers PROVE Increasing(calls[w]) /\ ToSet(calls[w]) = {}
    BY Empty, NoElements DEF Increasing
  <2>2. 2..Len(channelSendPromiseQueue) = {}
    BY Empty
  <2>. QED
    BY <2>1, <2>2 DEF WaitInv
<1>4. ASSUME NEW w \in Writers, NEW id PROVE Untouched(w, id)
  <2>1. ~Makes(w, id)
    BY DEF Makes, Writer!Idle
  <2>2. NoneOf(sendQueue, w, id) /\ NoAckOf(acks[w], id)
    BY Empty DEF NoneOf, NoAckOf
  <2>3. NotResolved(w, id)
    BY Empty, NoElements DEF NotResolved
  <2>4. OnWire(w, id) = {}
    BY NoElements, Places, Empty
  <2>. QED
    BY <2>1, <2>2, <2>3, <2>4 DEF Untouched
<1>. QED
  BY <1>1, <1>2, <1>3, <1>4 DEF PiecesInv, Stage

-----------------------------------------------------------------------------
(***************************************************************************)
(* Steps of the messenger and the handlers leave the frames where they     *)
(* are.  A message asked for is untouched, and only one that is complete   *)
(* becomes resolved.                                                       *)
(***************************************************************************)
LEMMA QuietKept ==
    ASSUME OrderInv, IInv, NEW w \in Writers, NEW id,
           UNCHANGED <<message, offset, remaining, compounded, acks, sendQueue, wire>>,
           NotResolved(w, id) => NotResolved(w, id)'
    PROVE  Kept(w, id)
<1>1. QueueKept(w, id)
  BY QueueStays DEF IInv, Shapes
<1>2. AcksKept(w, id)
  BY AcksStay DEF IInv, Shapes
<1>3. WireKept(w, id)
  BY WireStays DEF OrderInv, OrderShapes
<1>. QED
  BY <1>1, <1>2, <1>3, KeptParts DEF HandKept

LEMMA AskedPieces ==
    ASSUME OrderInv, PiecesInv, NEW w \in Writers, NEW size \in Nat, Ask(w, size),
           UNCHANGED <<offset, remaining, posted>>
    PROVE  /\ SizesKept /\ PieceShapes'
           /\ Len(sent[w]) + 1 \in 1..Len(sent'[w])
           /\ sent'[w][Len(sent[w]) + 1].size = size
           /\ \A v \in Writers : \A id : NotResolved(v, id) => NotResolved(v, id)'
<1>1. PICK r : r = [size |-> size, promise |-> "waiting"]
  OBVIOUS
<1>2. /\ IsSequence(sent[w]) /\ sent' = [sent EXCEPT ![w] = Append(@, r)]
      /\ sent = [v \in Writers |-> sent[v]]
  BY <1>1 DEF Ask, OrderInv, OrderShapes
<1>3. /\ Len(sent[w]) \in Nat /\ Len(sent'[w]) = Len(sent[w]) + 1
      /\ sent'[w][Len(sent[w]) + 1] = r
      /\ \A id \in 1..Len(sent[w]) : sent'[w][id] = sent[w][id]
      /\ \A v \in Writers \ {w} : sent'[v] = sent[v]
  BY <1>2, Appended
<1>4. \A id \in 1..Len(sent'[w]) : id \in 1..Len(sent[w]) \/ id = Len(sent[w]) + 1
  BY <1>3
<1>5. \A id \in 1..Len(sent[w]) : id \in 1..Len(sent'[w])
  BY <1>3
<1>6. SizesKept
  BY <1>3, <1>5 DEF SizesKept
<1>7. PieceShapes'
  <2>1. \E result : \E s \in Nat : r = [size |-> s, promise |-> result]
    BY <1>1
  <2>2. \A v \in Writers : \A id \in 1..Len(sent'[v]) :
           \E result : \E s \in Nat : sent'[v][id] = [size |-> s, promise |-> result]
    <3>1. ASSUME NEW v \in Writers, NEW id \in 1..Len(sent'[v]), sent'[v][id] # r
          PROVE  \E result : \E s \in Nat : sent'[v][id] = [size |-> s, promise |-> result]
      <4>1. id \in 1..Len(sent[v]) /\ sent'[v][id] = sent[v][id]
        BY <1>3, <1>4, <3>1
      <4>2. PICK result : \E s \in Nat : sent[v][id] = [size |-> s, promise |-> result]
        BY <4>1 DEF PiecesInv, PieceShapes
      <4>. QED
        BY <4>1, <4>2
    <3>. QED
      BY <2>1, <3>1, Zenon
  <2>. QED
    BY <2>2 DEF PiecesInv, PieceShapes
<1>8. ASSUME NEW v \in Writers, NEW id, NotResolved(v, id) PROVE NotResolved(v, id)'
  <2>1. id \in 1..Len(sent'[v]) => sent'[v][id].promise # "resolved"
    BY <1>1, <1>3, <1>4, <1>8 DEF NotResolved
  <2>. QED
    BY <1>8, <2>1 DEF NotResolved
<1>9. Len(sent[w]) + 1 \in 1..Len(sent'[w])
  BY <1>3
<1>. QED
  BY <1>1, <1>3, <1>6, <1>7, <1>8, <1>9

\* The message asked for waits.
LEMMA AskedWaits ==
    ASSUME OrderInv, PiecesInv, NEW w \in Writers, NEW size \in Nat, Ask(w, size),
           UNCHANGED <<offset, remaining, posted>>,
           NEW encrypted, NEW m, m = NewMessage(w, size, encrypted), Kept(w, m.id)
    PROVE  /\ Waits(w, m)' /\ \A x : Waits(w, x) => x.id < m.id
<1>1. m.id = Len(sent[w]) + 1 /\ m.size = size /\ Len(sent[w]) \in Nat
  BY Elements DEF NewMessage, OrderInv, OrderShapes
<1>2. m.id \notin 1..Len(sent[w])
  BY <1>1
<1>3. Untouched(w, m.id)
  BY <1>2 DEF PiecesInv, Stage, FrameMade, FrameQueued, FrameBack, Over
<1>4. Untouched(w, m.id)'
  BY <1>3, UntouchedKept
<1>5. m.id \in 1..Len(sent'[w]) /\ m.size = sent'[w][m.id].size
  BY <1>1, AskedPieces
<1>6. \A x : Waits(w, x) => x.id < m.id
  BY <1>1 DEF Waits
<1>. QED
  BY <1>4, <1>5, <1>6 DEF Waits

\* A call of stream for a message that waits, behind those before it.
LEMMA CallAdded ==
    ASSUME OrderInv, PiecesInv, SizesKept, NEW w \in Writers, NEW m,
           calls' = [calls EXCEPT ![w] = Append(@, m)], Waits(w, m)',
           \A x \in ToSet(calls[w]) : x.id < m.id,
           \A v \in Writers : \A id : Kept(v, id)
    PROVE  \A v \in Writers : Increasing(calls'[v]) /\ \A x \in ToSet(calls'[v]) : Waits(v, x)'
<1>1. /\ IsSequence(calls[w]) /\ calls'[w] = Append(calls[w], m)
      /\ \A v \in Writers \ {w} : calls'[v] = calls[v]
  BY DEF OrderInv, OrderShapes
<1>2. \A v \in Writers : Increasing(calls[v]) /\ \A x \in ToSet(calls[v]) : Waits(v, x)'
  BY WaitsStay DEF PiecesInv, WaitInv
<1>3. Increasing(calls'[w]) /\ ToSet(calls'[w]) = ToSet(calls[w]) \cup {m}
  <2>1. Increasing(calls[w])
    BY <1>2
  <2>2. Increasing(Append(calls[w], m))
    BY <1>1, <2>1, IncreasingAppended
  <2>3. ToSet(Append(calls[w], m)) = ToSet(calls[w]) \cup {m}
    BY <1>1, ElementsAppended
  <2>. QED
    BY <1>1, <2>2, <2>3
<1>. QED
  BY <1>1, <1>2, <1>3

LEMMA EnqueueSendPieces ==
    ASSUME IInv, OrderInv, PiecesInv, NEW size \in Nat, NEW encrypted,
           EnqueueSend(size, encrypted)
    PROVE  PiecesInv'
<1>. DEFINE w == "messenger"
            queue == channelSendPromiseQueue
<1>1. PICK m : m = NewMessage(w, size, encrypted)
  OBVIOUS
<1>2. /\ w \in Writers /\ Ask(w, size) /\ queue' = Append(queue, m)
      /\ \/ queue = <<>> /\ calls' = [calls EXCEPT ![w] = Append(@, m)]
         \/ queue # <<>> /\ calls' = calls
      /\ UNCHANGED <<message, offset, remaining, compounded, acks, sendQueue, posted, wire>>
  <2>1. <<m>> # <<>> /\ Head(<<m>>) = m
    OBVIOUS
  <2>. QED
    BY <1>1, <2>1 DEF EnqueueSend, DoSend, framesUnchanged
<1>3. /\ SizesKept /\ PieceShapes'
      /\ \A v \in Writers : \A id : Kept(v, id)
  BY <1>2, AskedPieces, QuietKept
<1>4. Waits(w, m)' /\ \A x : Waits(w, x) => x.id < m.id
  BY <1>1, <1>2, <1>3, AskedWaits
<1>5. \A v \in Writers : \A x : Waits(v, x) => Waits(v, x)'
  BY <1>3, WaitsStay
<1>6. \A v \in Writers : Increasing(calls'[v]) /\ \A x \in ToSet(calls'[v]) : Waits(v, x)'
  <2>1. CASE calls' = calls
    BY <1>5, <2>1 DEF PiecesInv, WaitInv
  <2>2. CASE calls' = [calls EXCEPT ![w] = Append(@, m)]
    BY <1>2, <1>3, <1>4, <2>2, CallAdded DEF PiecesInv, WaitInv
  <2>. QED
    BY <1>2, <2>1, <2>2
<1>7. \A i \in 2..Len(queue') : Waits(w, queue[i])'
  <2>1. /\ Len(queue) \in Nat /\ Len(queue') = Len(queue) + 1 /\ queue'[Len(queue) + 1] = m
        /\ \A i \in 1..Len(queue) : queue'[i] = queue[i]
    BY <1>2, Appended DEF OrderInv, OrderShapes
  <2>2. \A i \in 2..Len(queue') : i = Len(queue) + 1 \/ (i \in 2..Len(queue) /\ i \in 1..Len(queue))
    BY <2>1
  <2>3. ASSUME NEW i \in 2..Len(queue'), NEW x, x = queue'[i] PROVE Waits(w, x)'
    <3>1. x = m \/ \E j \in 2..Len(queue) : x = queue[j]
      BY <2>1, <2>2, <2>3
    <3>2. \A j \in 2..Len(queue) : Waits(w, queue[j])
      BY <1>2 DEF PiecesInv, WaitInv
    <3>. QED
      BY <1>2, <1>4, <1>5, <3>1, <3>2, Zenon
  <2>. QED
    BY <2>3, Zenon
<1>8. WaitInv'
  BY <1>6, <1>7 DEF WaitInv, Increasing
<1>9. ASSUME NEW v \in Writers, NEW id PROVE Stage(v, id)'
  BY <1>3, <1>9, StageKept DEF PiecesInv
<1>. QED
  BY <1>2, <1>3, <1>8, <1>9, WireInvStays DEF PiecesInv

LEMMA DispatchPieces ==
    ASSUME IInv, OrderInv, PiecesInv, NEW size \in Nat, NEW encrypted,
           Dispatch(size, encrypted)
    PROVE  PiecesInv'
<1>. DEFINE w == "sender"
<1>1. PICK m : m = NewMessage(w, size, encrypted)
  OBVIOUS
<1>2. /\ w \in Writers /\ Ask(w, size) /\ calls' = [calls EXCEPT ![w] = Append(@, m)]
      /\ UNCHANGED channelSendPromiseQueue
      /\ UNCHANGED <<message, offset, remaining, compounded, acks, sendQueue, posted, wire>>
  BY <1>1 DEF Dispatch, framesUnchanged
<1>3. /\ SizesKept /\ PieceShapes'
      /\ \A v \in Writers : \A id : Kept(v, id)
  BY <1>2, AskedPieces, QuietKept
<1>4. Waits(w, m)' /\ \A x : Waits(w, x) => x.id < m.id
  BY <1>1, <1>2, <1>3, AskedWaits
<1>5. \A v \in Writers : \A x : Waits(v, x) => Waits(v, x)'
  BY <1>3, WaitsStay
<1>6. \A v \in Writers : Increasing(calls'[v]) /\ \A x \in ToSet(calls'[v]) : Waits(v, x)'
  BY <1>2, <1>3, <1>4, CallAdded DEF PiecesInv, WaitInv
<1>7. WaitInv'
  BY <1>2, <1>5, <1>6 DEF PiecesInv, WaitInv, Increasing
<1>8. ASSUME NEW v \in Writers, NEW id PROVE Stage(v, id)'
  BY <1>3, <1>8, StageKept DEF PiecesInv
<1>. QED
  BY <1>2, <1>3, <1>7, <1>8, WireInvStays DEF PiecesInv

\* Promises are settled, as they were posted or as rejected.
SettlesRight(w) ==
    \A v \in Writers :
        /\ Len(sent'[v]) = Len(sent[v])
        /\ \A id \in 1..Len(sent[v]) :
              /\ \E result : sent'[v][id] = [size |-> sent[v][id].size, promise |-> result]
              /\ \/ sent'[v][id].promise # "resolved"
                 \/ sent'[v][id].promise = sent[v][id].promise
                 \/ v = w /\ \E o \in ToSet(posted[w]) : o.id = id /\ o.result = "resolved"

LEMMA SettledPieces ==
    ASSUME IInv, OrderInv, PiecesInv, NEW w \in Writers, SettlesRight(w),
           posted = [v \in Writers |-> posted[v]],
           posted[w] # <<>>, posted' = [posted EXCEPT ![w] = Tail(@)],
           UNCHANGED <<message, offset, remaining, compounded, acks, sendQueue, wire>>
    PROVE  /\ SizesKept /\ PieceShapes' /\ WireInv'
           /\ \A v \in Writers : \A id : Kept(v, id) /\ Stage(v, id)'
<1>1. /\ \A v \in Writers : IsSequence(posted'[v]) /\ ToSet(posted'[v]) \subseteq ToSet(posted[v])
  <2>1. IsSequence(Tail(posted[w])) /\ ToSet(Tail(posted[w])) \subseteq ToSet(posted[w])
    BY ElementsTaken DEF PiecesInv, PieceShapes
  <2>2. posted'[w] = Tail(posted[w]) /\ \A v \in Writers \ {w} : posted'[v] = posted[v]
    OBVIOUS
  <2>. QED
    BY <2>1, <2>2 DEF PiecesInv, PieceShapes
<1>2. SizesKept
  <2>1. ASSUME NEW v \in Writers, NEW id \in 1..Len(sent[v])
        PROVE  id \in 1..Len(sent'[v]) /\ sent'[v][id].size = sent[v][id].size
    <3>1. PICK r : sent'[v][id] = [size |-> sent[v][id].size, promise |-> r]
      BY DEF SettlesRight
    <3>. QED
      BY <3>1 DEF SettlesRight
  <2>. QED
    BY <2>1 DEF SizesKept
<1>3. PieceShapes'
  <2>1. ASSUME NEW v \in Writers, NEW id \in 1..Len(sent'[v])
        PROVE  \E result : \E s \in Nat : sent'[v][id] = [size |-> s, promise |-> result]
    <3>1. id \in 1..Len(sent[v])
      BY DEF SettlesRight
    <3>2. PICK r : \E s \in Nat : sent[v][id] = [size |-> s, promise |-> r]
      BY <3>1 DEF PiecesInv, PieceShapes
    <3>3. sent[v][id].size \in Nat
      BY <3>2
    <3>4. \E result : sent'[v][id] = [size |-> sent[v][id].size, promise |-> result]
      BY <3>1, Zenon DEF SettlesRight
    <3>. QED
      BY <3>3, <3>4, Zenon
  <2>. QED
    BY <1>1, <2>1 DEF PiecesInv, PieceShapes
<1>4. ASSUME NEW v \in Writers, NEW id, NotResolved(v, id) PROVE NotResolved(v, id)'
  <2>1. id \in 1..Len(sent'[v]) => sent'[v][id].promise # "resolved"
    BY <1>4 DEF NotResolved, SettlesRight
  <2>. QED
    BY <1>1, <1>4, <2>1 DEF NotResolved
<1>5. ASSUME NEW v \in Writers, NEW id PROVE Kept(v, id)
  BY <1>4, <1>5, QuietKept
<1>6. ASSUME NEW v \in Writers, NEW id PROVE Stage(v, id)'
  BY <1>2, <1>5, <1>6, StageKept DEF PiecesInv
<1>. QED
  BY <1>2, <1>3, <1>5, <1>6, WireInvStays DEF PiecesInv

LEMMA SettleOnePieces ==
    ASSUME OrderInv, PiecesInv, NEW w \in Writers, NEW o, o \in ToSet(posted[w]),
           Settle(w, o.id, o.result)
    PROVE  SettlesRight(w)
<1>1. PICK map : map = [sent[w] EXCEPT ![o.id].promise = o.result]
  OBVIOUS
<1>2. /\ sent' = [sent EXCEPT ![w] = map] /\ map = [i \in DOMAIN sent[w] |-> map[i]]
      /\ sent = [v \in Writers |-> sent[v]]
  BY <1>1 DEF Settle, OrderInv, OrderShapes
<1>3. sent'[w] = map /\ \A v \in Writers \ {w} : sent'[v] = sent[v]
  BY <1>2
<1>4. Len(map) = Len(sent[w]) /\ DOMAIN sent[w] = 1..Len(sent[w])
  <2>1. PICK S : sent[w] \in Seq(S)
    BY DEF OrderInv, OrderShapes, IsSequence
  <2>. QED
    BY <1>2, <2>1, Mapped DEF OrderInv, OrderShapes
<1>5. ASSUME NEW v \in Writers, NEW id \in 1..Len(sent[v])
      PROVE  \E result : sent[v][id] = [size |-> sent[v][id].size, promise |-> result]
  <2>1. PICK r : \E s \in Nat : sent[v][id] = [size |-> s, promise |-> r]
    BY DEF PiecesInv, PieceShapes
  <2>. QED
    BY <2>1
<1>6. ASSUME NEW id \in 1..Len(sent[w]), id # o.id PROVE map[id] = sent[w][id]
  BY <1>1, <1>4, <1>6
<1>7. ASSUME NEW id \in 1..Len(sent[w]), id = o.id
      PROVE  map[id] = [size |-> sent[w][id].size, promise |-> o.result]
  <2>1. PICK r : sent[w][id] = [size |-> sent[w][id].size, promise |-> r]
    BY <1>5
  <2>2. map[id] = [sent[w][id] EXCEPT !.promise = o.result]
    BY <1>1, <1>4, <1>7
  <2>. QED
    BY <2>1, <2>2
<1>8. ASSUME NEW id \in 1..Len(sent[w])
      PROVE  /\ \E result : map[id] = [size |-> sent[w][id].size, promise |-> result]
             /\ \/ map[id].promise # "resolved" \/ map[id].promise = sent[w][id].promise
                \/ o.id = id /\ o.result = "resolved"
  <2>1. CASE id # o.id
    BY <1>5, <1>6, <2>1, Zenon
  <2>2. CASE id = o.id
    <3>1. map[id] = [size |-> sent[w][id].size, promise |-> o.result]
      BY <1>7, <2>2
    <3>2. map[id].promise = o.result
      BY <3>1
    <3>. QED
      BY <2>2, <3>1, <3>2, Zenon
  <2>. QED
    BY <2>1, <2>2
<1>9. ASSUME NEW v \in Writers, v # w
      PROVE  /\ Len(sent'[v]) = Len(sent[v])
             /\ \A id \in 1..Len(sent[v]) :
                   /\ \E result : sent'[v][id] = [size |-> sent[v][id].size, promise |-> result]
                   /\ sent'[v][id].promise = sent[v][id].promise
  <2>1. sent'[v] = sent[v]
    BY <1>3, <1>9
  <2>. QED
    BY <1>5, <2>1, Zenon
<1>10. /\ Len(sent'[w]) = Len(sent[w])
       /\ \A id \in 1..Len(sent[w]) :
              /\ \E result : sent'[w][id] = [size |-> sent[w][id].size, promise |-> result]
              /\ \/ sent'[w][id].promise # "resolved"
                 \/ sent'[w][id].promise = sent[w][id].promise
                 \/ o.id = id /\ o.result = "resolved"
  BY <1>3, <1>4, <1>8, Zenon
<1>11. ASSUME NEW v \in Writers, NEW id \in 1..Len(sent[v])
       PROVE  /\ \E result : sent'[v][id] = [size |-> sent[v][id].size, promise |-> result]
              /\ \/ sent'[v][id].promise # "resolved"
                 \/ sent'[v][id].promise = sent[v][id].promise
                 \/ v = w /\ \E p \in ToSet(posted[w]) : p.id = id /\ p.result = "resolved"
  <2>1. CASE v = w
    BY <1>10, <2>1, Zenon
  <2>2. CASE v # w
    BY <1>9, <2>2, Zenon
  <2>. QED
    BY <2>1, <2>2
<1>12. \A v \in Writers : Len(sent'[v]) = Len(sent[v])
  BY <1>9, <1>10
<1>. QED
  BY <1>11, <1>12, Zenon DEF SettlesRight

LEMMA LogPieces ==
    ASSUME IInv, OrderInv, IteratorInv, PiecesInv, LogOutcome
    PROVE  PiecesInv'
<1>. DEFINE w == "sender"
<1>1. PICK o : o = Head(posted[w])
  OBVIOUS
<1>2. /\ w \in Writers /\ posted[w] # <<>> /\ posted' = [posted EXCEPT ![w] = Tail(@)]
      /\ Settle(w, o.id, o.result) /\ UNCHANGED <<calls, channelSendPromiseQueue>>
      /\ UNCHANGED <<message, offset, remaining, compounded, acks, sendQueue, wire>>
  BY <1>1 DEF LogOutcome, framesUnchanged
<1>3. o \in ToSet(posted[w]) /\ posted = [v \in Writers |-> posted[v]]
  BY <1>1, <1>2, ElementsTaken DEF PiecesInv, PieceShapes, IteratorInv
<1>4. /\ SizesKept /\ PieceShapes' /\ WireInv'
      /\ \A v \in Writers : \A id : Kept(v, id)
  BY <1>2, <1>3, SettleOnePieces, SettledPieces
<1>. QED
  BY <1>2, <1>4, StepPieces

LEMMA RejectPieces ==
    ASSUME IInv, OrderInv, IteratorInv, PiecesInv, RejectSendPromiseQueue
    PROVE  PiecesInv'
<1>. DEFINE w == "messenger"
<1>1. PICK map : map = [id \in DOMAIN sent[w] |->
                          IF sent[w][id].promise = "waiting"
                          THEN [sent[w][id] EXCEPT !.promise = "rejected"] ELSE sent[w][id]]
  OBVIOUS
<1>2. /\ w \in Writers /\ posted[w] # <<>> /\ posted' = [posted EXCEPT ![w] = Tail(@)]
      /\ channelSendPromiseQueue' = <<>> /\ UNCHANGED calls
      /\ sent' = [sent EXCEPT ![w] = map]
      /\ UNCHANGED <<message, offset, remaining, compounded, acks, sendQueue, wire>>
  BY <1>1 DEF RejectSendPromiseQueue, Outcome, framesUnchanged
<1>3. /\ sent'[w] = map /\ \A v \in Writers \ {w} : sent'[v] = sent[v]
      /\ posted = [v \in Writers |-> posted[v]]
  BY <1>2 DEF OrderInv, OrderShapes, IteratorInv
<1>4. Len(map) = Len(sent[w]) /\ DOMAIN sent[w] = 1..Len(sent[w])
  <2>1. PICK S : sent[w] \in Seq(S)
    BY <1>2 DEF OrderInv, OrderShapes, IsSequence
  <2>2. map = [i \in DOMAIN sent[w] |-> map[i]]
    BY <1>1
  <2>. QED
    BY <1>2, <2>1, <2>2, Mapped DEF OrderInv, OrderShapes
<1>5. ASSUME NEW v \in Writers, NEW id \in 1..Len(sent[v])
      PROVE  \E result : sent[v][id] = [size |-> sent[v][id].size, promise |-> result]
  <2>1. PICK r : \E s \in Nat : sent[v][id] = [size |-> s, promise |-> r]
    BY DEF PiecesInv, PieceShapes
  <2>. QED
    BY <2>1
<1>6. ASSUME NEW id \in 1..Len(sent[w])
      PROVE  /\ \E result : map[id] = [size |-> sent[w][id].size, promise |-> result]
             /\ map[id].promise # "resolved" \/ map[id].promise = sent[w][id].promise
  <2>1. PICK r : sent[w][id] = [size |-> sent[w][id].size, promise |-> r]
    BY <1>2, <1>5
  <2>2. CASE sent[w][id].promise = "waiting"
    <3>1. map[id] = [sent[w][id] EXCEPT !.promise = "rejected"]
      BY <1>1, <1>4, <2>2
    <3>2. map[id] = [size |-> sent[w][id].size, promise |-> "rejected"]
      BY <2>1, <3>1
    <3>3. map[id].promise # "resolved"
      BY <3>2
    <3>. QED
      BY <3>2, <3>3, Zenon
  <2>3. CASE sent[w][id].promise # "waiting"
    BY <1>1, <1>4, <2>1, <2>3
  <2>. QED
    BY <2>2, <2>3
<1>7. SettlesRight(w)
  <2>1. ASSUME NEW v \in Writers, v # w
        PROVE  /\ Len(sent'[v]) = Len(sent[v])
               /\ \A id \in 1..Len(sent[v]) :
                     /\ \E result : sent'[v][id] = [size |-> sent[v][id].size, promise |-> result]
                     /\ sent'[v][id].promise = sent[v][id].promise
    <3>1. sent'[v] = sent[v]
      BY <1>3, <2>1
    <3>. QED
      BY <1>5, <3>1, Zenon
  <2>2. /\ Len(sent'[w]) = Len(sent[w])
        /\ \A id \in 1..Len(sent[w]) :
              /\ \E result : sent'[w][id] = [size |-> sent[w][id].size, promise |-> result]
              /\ sent'[w][id].promise # "resolved" \/ sent'[w][id].promise = sent[w][id].promise
    BY <1>3, <1>4, <1>6, Zenon
  <2>. QED
    BY <2>1, <2>2, Zenon DEF SettlesRight
<1>8. /\ SizesKept /\ PieceShapes' /\ WireInv'
      /\ \A v \in Writers : \A id : Kept(v, id) /\ Stage(v, id)'
  BY <1>2, <1>3, <1>7, SettledPieces
<1>9. WaitInv'
  <2>1. \A v \in Writers : \A x : Waits(v, x) => Waits(v, x)'
    BY <1>8, WaitsStay
  <2>2. 2..Len(channelSendPromiseQueue') = {}
    BY <1>2, Empty
  <2>. QED
    BY <1>2, <2>1, <2>2 DEF PiecesInv, WaitInv, Increasing
<1>. QED
  BY <1>8, <1>9 DEF PiecesInv

\* The next message of the queue is called, and the others move up.
LEMMA HandlerPieces ==
    ASSUME IInv, OrderInv, IteratorInv, PiecesInv, OutStreamMessageHandler
    PROVE  PiecesInv'
<1>. DEFINE w == "messenger"
            queue == channelSendPromiseQueue
<1>1. PICK o : o = Head(posted[w])
  OBVIOUS
<1>2. /\ w \in Writers /\ posted[w] # <<>> /\ posted' = [posted EXCEPT ![w] = Tail(@)]
      /\ Settle(w, o.id, o.result) /\ DoSend(queue')
      /\ UNCHANGED <<message, offset, remaining, compounded, acks, sendQueue, wire>>
  BY <1>1 DEF OutStreamMessageHandler, Outcome, framesUnchanged
<1>3. o \in ToSet(posted[w]) /\ posted = [v \in Writers |-> posted[v]]
  BY <1>1, <1>2, ElementsTaken DEF PiecesInv, PieceShapes, IteratorInv
<1>4. /\ SizesKept /\ PieceShapes' /\ WireInv'
      /\ \A v \in Writers : \A id : Kept(v, id) /\ Stage(v, id)'
  BY <1>2, <1>3, SettleOnePieces, SettledPieces
<1>5. queue # <<>> /\ queue' = Tail(queue) /\ calls[w] = <<>>
  BY ErasesFirst DEF Told
<1>6. /\ IsSequence(queue) /\ Len(queue) \in Nat \ {0} /\ Len(queue') = Len(queue) - 1
      /\ \A i \in 1..Len(queue) - 1 : queue'[i] = queue[i + 1]
      /\ queue' # <<>> => Head(queue') = queue'[1] /\ Len(queue') # 0
  BY <1>5, Taken DEF OrderInv, OrderShapes
<1>7. \A v \in Writers : \A x : Waits(v, x) => Waits(v, x)'
  BY <1>4, WaitsStay
<1>8. ASSUME NEW i \in 1..Len(queue'), NEW x, x = queue'[i] PROVE Waits(w, x)'
  <2>1. i + 1 \in 2..Len(queue) /\ x = queue[i + 1]
    BY <1>6, <1>8
  <2>2. Waits(w, x)
    BY <1>2, <2>1 DEF PiecesInv, WaitInv
  <2>. QED
    BY <1>2, <1>7, <2>2
<1>9. \A v \in Writers : Increasing(calls'[v]) /\ \A x \in ToSet(calls'[v]) : Waits(v, x)'
  <2>1. CASE queue' = <<>>
    BY <1>2, <1>7, <2>1 DEF DoSend, PiecesInv, WaitInv
  <2>2. CASE queue' # <<>>
    <3>1. PICK m : m = Head(queue')
      OBVIOUS
    <3>2. Waits(w, m)'
      <4>1. 1 \in 1..Len(queue')
        BY <1>6, <2>2
      <4>. QED
        BY <1>6, <1>8, <2>2, <3>1, <4>1, Zenon
    <3>3. calls' = [calls EXCEPT ![w] = Append(@, m)] /\ ToSet(calls[w]) = {}
      BY <1>2, <1>5, <2>2, <3>1, NoElements DEF DoSend
    <3>. QED
      BY <1>2, <1>4, <3>2, <3>3, CallAdded
  <2>. QED
    BY <2>1, <2>2
<1>10. WaitInv'
  <2>1. \A i \in 2..Len(queue') : i \in 1..Len(queue')
    BY <1>6
  <2>2. \A i \in 2..Len(queue') : Waits(w, queue[i])'
    BY <1>8, <2>1, Zenon
  <2>. QED
    BY <1>9, <2>2, Zenon DEF WaitInv, Increasing
<1>. QED
  BY <1>4, <1>10 DEF PiecesInv

-----------------------------------------------------------------------------
(***************************************************************************)
(* The steps of a writer.                                                  *)
(***************************************************************************)
\* A writer with none of its frames under way waits for no message.
LEMMA NotWaited ==
    ASSUME NEW w, Writer!Idle(w), NoneQueued(sendQueue, w), NoneAcked(acks[w]), NEW id
    PROVE  ~WaitedFor(w, id)
<1>1. ~Makes(w, id)
  BY DEF Makes
<1>2. ASSUME NEW f, OneOf(sendQueue, w, id, f) PROVE Writer!Ends(f)
  BY <1>2 DEF OneOf, NoneQueued, Open, IsOf
<1>3. ASSUME NEW a, OneAckOf(acks[w], id, a) PROVE Writer!Ends(a.frame)
  BY <1>3 DEF OneAckOf, NoneAcked
<1>. QED
  BY <1>1, <1>2, <1>3 DEF WaitedFor

\* One whose outcome has come waits for no message but that one.
LEMMA AnsweredWaits ==
    ASSUME IInv, NEW w \in Writers, Writer!Idle(w), acks[w] # <<>>,
           ~Writer!Ends(Head(acks[w]).frame), NEW id, Head(acks[w]).frame.id # id
    PROVE  ~WaitedFor(w, id)
<1>1. /\ IsSequence(acks[w]) /\ Len(acks[w]) \in Nat \ {0} /\ Head(acks[w]) = acks[w][1]
      /\ 1 \in 1..Len(acks[w])
  BY Taken DEF IInv, Shapes
<1>2. ~NoneAcked(acks[w])
  BY <1>1 DEF NoneAcked
<1>3. Answered(w)
  BY <1>2 DEF IInv, Placed, Free, Sending, InTransport
<1>4. ~Makes(w, id)
  BY DEF Makes
<1>5. ASSUME NEW f, OneOf(sendQueue, w, id, f) PROVE Writer!Ends(f)
  BY <1>3, <1>5 DEF OneOf, Answered, NoneQueued, Open, IsOf
<1>6. ASSUME NEW a, OneAckOf(acks[w], id, a) PROVE Writer!Ends(a.frame)
  <2>1. PICK k \in 1..Len(acks[w]) : acks[w][k] = a /\ a.frame.id = id
    BY <1>6 DEF OneAckOf
  <2>2. k # 1
    BY <1>1, <2>1
  <2>3. PICK j \in 1..Len(acks[w]) :
            \A i \in 1..Len(acks[w]) : i # j => Writer!Ends(acks[w][i].frame)
    BY <1>3 DEF Answered, OneAcked
  <2>4. j = 1
    BY <1>1, <2>3
  <2>. QED
    BY <2>1, <2>2, <2>3, <2>4
<1>. QED
  BY <1>4, <1>5, <1>6 DEF WaitedFor

\* What compoundFrame leaves: the next frame, or the message given up.
LEMMA Compounded ==
    ASSUME NEW w, NEW m, NEW off, NEW rest, Writer!Compound(w, m, off, rest)
    PROVE  \/ /\ message' = [message EXCEPT ![w] = m] /\ offset' = [offset EXCEPT ![w] = off]
              /\ remaining' = [remaining EXCEPT ![w] = IF m.size < MaxPayload THEN 0 ELSE rest]
              /\ UNCHANGED posted
              /\ \E frame, size :
                    /\ compounded' = [compounded EXCEPT ![w] = frame]
                    /\ size = (IF rest < MaxPayload THEN rest ELSE MaxPayload)
                    /\ frame.id = m.id /\ frame.size = size
                    /\ frame.type = Writer!FrameType(m, off, rest, size)
           \/ /\ message' = [message EXCEPT ![w] = Writer!NoMessage]
              /\ offset' = [offset EXCEPT ![w] = 0] /\ remaining' = [remaining EXCEPT ![w] = 0]
              /\ \E o : /\ posted' = [posted EXCEPT ![w] = Append(@, o)]
                        /\ o.id = m.id /\ o.result = "rejected"
              /\ UNCHANGED compounded
<1>1. PICK size : size = IF rest < MaxPayload THEN rest ELSE MaxPayload
  OBVIOUS
<1>2. PICK type : type = Writer!FrameType(m, off, rest, size)
  OBVIOUS
<1>3. PICK record : record = IF m.encrypted THEN records' ELSE 0
  OBVIOUS
<1>4. PICK frame : frame = [id |-> m.id, type |-> type, size |-> size, record |-> record]
  OBVIOUS
<1>5. frame.id = m.id /\ frame.size = size /\ frame.type = type
  BY <1>4
<1>6. PICK o : o = [id |-> m.id, result |-> "rejected"]
  OBVIOUS
<1>7. o.id = m.id /\ o.result = "rejected"
  BY <1>6
<1>8. CASE /\ message' = Writer!Set(message, w, m) /\ offset' = Writer!Set(offset, w, off)
           /\ remaining' = Writer!Set(remaining, w, IF m.size < MaxPayload THEN 0 ELSE rest)
           /\ compounded' = Writer!Set(compounded, w, frame)
           /\ UNCHANGED posted
  BY <1>1, <1>2, <1>5, <1>8 DEF Writer!Set
<1>9. CASE Writer!Reset(w) /\ Writer!Reject(w, m.id) /\ UNCHANGED compounded
  BY <1>6, <1>7, <1>9 DEF Writer!Set, Writer!Put, Writer!Reset, Writer!Reject
<1>. QED
  BY <1>1, <1>2, <1>3, <1>4, <1>8, <1>9, Zenon DEF Writer!Compound

\* The message gets its next frame or is given up; the writer's others stay.
LEMMA CompoundPieces ==
    ASSUME IInv, OrderInv, IteratorInv, PiecesInv, NEW w \in Writers, Writer!Idle(w),
           NEW m, NEW off, NEW rest, Writer!Compound(w, m, off, rest),
           UNCHANGED <<sendQueue, wire, sent>>,
           m.id \in 1..Len(sent[w]), m.size = sent[w][m.id].size,
           NotResolved(w, m.id), NoneOf(sendQueue, w, m.id), NoAckOf(acks'[w], m.id),
           \A id : id # m.id => AcksKept(w, id) /\ ~WaitedFor(w, id),
           NEW n \in Nat, n = Count(w, m.id),
           m.size < MaxPayload => n = 0 /\ rest = m.size,
           m.size >= MaxPayload => /\ off = n * MaxPayload /\ rest = m.size - n * MaxPayload
                                   /\ Begun(m.size, n)
    PROVE  Stage(w, m.id)' /\ \A id : id # m.id => Kept(w, id)
<1>1. /\ compounded = [v \in Writers |-> compounded[v]] /\ message = [v \in Writers |-> message[v]]
      /\ offset = [v \in Writers |-> offset[v]] /\ remaining = [v \in Writers |-> remaining[v]]
      /\ posted = [v \in Writers |-> posted[v]] /\ IsSequence(posted[w])
      /\ IsSequence(sendQueue) /\ IsSequence(wire)
  BY DEF IInv, Shapes, OrderInv, OrderShapes, IteratorInv, PiecesInv, PieceShapes
<1>2. m.size \in Nat
  <2>1. PICK r : \E s \in Nat : sent[w][m.id] = [size |-> s, promise |-> r]
    BY DEF PiecesInv, PieceShapes
  <2>. QED
    BY <2>1
<1>3. \A id : QueueKept(w, id) /\ WireKept(w, id) /\ ~Makes(w, id)
  BY <1>1, QueueStays, WireStays DEF Makes
<1>4. /\ NoneOf(sendQueue, w, m.id)' /\ NoAckOf(acks[w], m.id)' /\ Count(w, m.id)' = n
      /\ m.id \in 1..Len(sent[w])' /\ m.size = sent[w][m.id].size'
  BY <1>3 DEF NoneOf, IsOf, NoAckOf, WireKept, Count
<1>5. CASE /\ message' = [message EXCEPT ![w] = m] /\ offset' = [offset EXCEPT ![w] = off]
           /\ remaining' = [remaining EXCEPT ![w] = IF m.size < MaxPayload THEN 0 ELSE rest]
           /\ UNCHANGED posted
           /\ \E frame, size :
                 /\ compounded' = [compounded EXCEPT ![w] = frame]
                 /\ size = (IF rest < MaxPayload THEN rest ELSE MaxPayload)
                 /\ frame.id = m.id /\ frame.size = size
                 /\ frame.type = Writer!FrameType(m, off, rest, size)
  <2>1. PICK frame, size :
            /\ compounded' = [compounded EXCEPT ![w] = frame]
            /\ size = (IF rest < MaxPayload THEN rest ELSE MaxPayload)
            /\ frame.id = m.id /\ frame.size = size
            /\ frame.type = Writer!FrameType(m, off, rest, size)
    BY <1>5
  <2>2. compounded'[w] = frame
    BY <1>1, <2>1
  <2>3. ~Writer!Idle(w)'
    <3>1. frame.type # "none"
      BY <2>1 DEF Writer!FrameType
    <3>. QED
      BY <2>2, <3>1 DEF Writer!Idle, Writer!NoFrame
  <2>4. Makes(w, m.id)' /\ \A id : id # m.id => ~Makes(w, id)'
    BY <2>1, <2>2, <2>3 DEF Makes
  <2>5. Piece(m.size, n, frame)
    BY <1>2, <2>1, PieceMade
  <2>6. message'[w] = m /\ offset'[w] = off /\ (m.size >= MaxPayload => remaining'[w] = rest)
    <3>1. m.size >= MaxPayload => ~(m.size < MaxPayload)
      BY <1>2, SendPathAssumption
    <3>. QED
      BY <1>1, <1>5, <3>1
  <2>7. Holds(w, m.id, n)'
    BY <1>4, <2>6 DEF Holds
  <2>8. \A id : NotResolved(w, id) => NotResolved(w, id)'
    BY <1>1, <1>5, ResultsStay
  <2>9. FrameMade(w, m.id)'
    BY <1>4, <2>2, <2>4, <2>5, <2>7, <2>8 DEF FrameMade, Piece, Begun
  <2>10. ASSUME NEW id, id # m.id PROVE Kept(w, id)
    BY <1>3, <2>4, <2>8, <2>10, KeptParts
  <2>. QED
    BY <2>9, <2>10 DEF Stage
<1>6. CASE /\ message' = [message EXCEPT ![w] = Writer!NoMessage]
           /\ offset' = [offset EXCEPT ![w] = 0] /\ remaining' = [remaining EXCEPT ![w] = 0]
           /\ \E o : /\ posted' = [posted EXCEPT ![w] = Append(@, o)]
                     /\ o.id = m.id /\ o.result = "rejected"
           /\ UNCHANGED compounded
  <2>1. PICK o : /\ posted' = [posted EXCEPT ![w] = Append(@, o)]
                 /\ o.id = m.id /\ o.result = "rejected"
    BY <1>6
  <2>2. posted'[w] = Append(posted[w], o) /\ o.result # "resolved"
    BY <1>1, <2>1
  <2>3. \A id : NotResolved(w, id) => NotResolved(w, id)'
    BY <1>1, <2>2, ResultsStay
  <2>4. \A id : ~Makes(w, id)'
    BY <1>6 DEF Makes, Writer!Idle, Writer!NoFrame
  <2>5. Over(w, m.id)'
    BY <1>4, <2>3, <2>4 DEF Over
  <2>6. ASSUME NEW id, id # m.id PROVE Kept(w, id)
    BY <1>3, <1>6, <2>3, <2>6, KeptParts
  <2>. QED
    BY <2>5, <2>6 DEF Stage
<1>. QED
  BY <1>5, <1>6, Compounded

\* What a step of a writer does not touch.
LEMMA WriterEffects ==
    ASSUME NEW w, Writer!Next(w)
    PROVE  /\ UNCHANGED message \/ \E x : message' = [message EXCEPT ![w] = x]
           /\ UNCHANGED offset \/ \E x : offset' = [offset EXCEPT ![w] = x]
           /\ UNCHANGED remaining \/ \E x : remaining' = [remaining EXCEPT ![w] = x]
           /\ UNCHANGED compounded \/ \E x : compounded' = [compounded EXCEPT ![w] = x]
           /\ UNCHANGED acks \/ acks' = [acks EXCEPT ![w] = Tail(@)]
           /\ UNCHANGED posted \/ \E o : posted' = [posted EXCEPT ![w] = Append(@, o)]
           /\ UNCHANGED sendQueue \/ \E e : e.writer = w /\ sendQueue' = Append(sendQueue, e)
<1>. USE DEF Writer!Set, Writer!Put, Writer!Take, Writer!Acked, Writer!Reset, Writer!Reject
<1>1. ASSUME NEW m, NEW off, NEW rest, Writer!Compound(w, m, off, rest)
      PROVE  /\ \E x : message' = [message EXCEPT ![w] = x]
             /\ \E x : offset' = [offset EXCEPT ![w] = x]
             /\ \E x : remaining' = [remaining EXCEPT ![w] = x]
             /\ UNCHANGED compounded \/ \E x : compounded' = [compounded EXCEPT ![w] = x]
             /\ UNCHANGED posted \/ \E o : posted' = [posted EXCEPT ![w] = Append(@, o)]
  BY <1>1, Compounded, Zenon
<1>2. CASE Writer!Stream(w)
  <2>1. UNCHANGED <<acks, sendQueue>>
    BY <1>2 DEF Writer!Stream
  <2>2. CASE Writer!Compound(w, Head(calls[w]), 0, Head(calls[w]).size)
    BY <1>1, <2>1, <2>2, Zenon
  <2>3. CASE /\ posted' = [posted EXCEPT ![w] =
                              Append(@, [id |-> Head(calls[w]).id, result |-> "busy"])]
             /\ UNCHANGED <<message, offset, remaining, compounded>>
    BY <2>1, <2>3, Zenon
  <2>. QED
    BY <1>2, <2>2, <2>3, Zenon DEF Writer!Stream
<1>3. CASE Writer!TransportSend(w)
  <2>1. PICK e : e = [writer |-> w, frame |-> compounded[w]]
    OBVIOUS
  <2>2. e.writer = w
    BY <2>1
  <2>3. sendQueue' = Append(sendQueue, e) /\ UNCHANGED <<acks, posted>>
    BY <1>3, <2>1, Zenon DEF Writer!TransportSend
  <2>4. /\ compounded' = [compounded EXCEPT ![w] = Writer!NoFrame]
        /\ \/ /\ message' = [message EXCEPT ![w] = Writer!NoMessage]
              /\ offset' = [offset EXCEPT ![w] = 0] /\ remaining' = [remaining EXCEPT ![w] = 0]
           \/ UNCHANGED <<message, offset, remaining>>
    BY <1>3, Zenon DEF Writer!TransportSend
  <2>. QED
    BY <2>2, <2>3, <2>4, Zenon
<1>4. CASE Writer!StreamSplittedMessage(w)
  <2>1. PICK m, off, rest : Writer!Compound(w, m, off, rest)
    BY <1>4, Zenon DEF Writer!StreamSplittedMessage
  <2>. QED
    BY <1>1, <1>4, <2>1, Zenon DEF Writer!StreamSplittedMessage
<1>5. CASE Writer!SplitFails(w)
  BY <1>5, Zenon DEF Writer!SplitFails
<1>6. CASE Writer!Forward(w)
  BY <1>6, Zenon DEF Writer!Forward
<1>. QED
  BY <1>2, <1>3, <1>4, <1>5, <1>6, Zenon DEF Writer!Next

\* The messages of the other writers stay where they are.
LEMMA WriterRest ==
    ASSUME IInv, OrderInv, IteratorInv, PiecesInv, NEW w \in Writers, WriterStep(w)
    PROVE  /\ SizesKept /\ PieceShapes' /\ WireInv'
           /\ \A v \in Writers : v # w => \A id : Kept(v, id)
<1>1. /\ Writer!Next(w) /\ UNCHANGED <<channelSendPromiseQueue, wire, sent>>
      /\ compounded = [v \in Writers |-> compounded[v]] /\ message = [v \in Writers |-> message[v]]
      /\ offset = [v \in Writers |-> offset[v]] /\ remaining = [v \in Writers |-> remaining[v]]
      /\ acks = [v \in Writers |-> acks[v]] /\ \A v \in Writers : IsSequence(acks[v])
      /\ posted = [v \in Writers |-> posted[v]] /\ \A v \in Writers : IsSequence(posted[v])
      /\ IsSequence(sendQueue) /\ IsSequence(wire)
  BY DEF WriterStep, IInv, Shapes, OrderInv, OrderShapes, IteratorInv, PiecesInv, PieceShapes
<1>2. SizesKept
  BY <1>1 DEF SizesKept
<1>3. WireInv'
  BY <1>1, <1>2, WireInvStays DEF PiecesInv
<1>4. offset' = [v \in Writers |-> offset'[v]] /\ \A v \in Writers : v # w => offset'[v] = offset[v]
  BY <1>1, WriterEffects
<1>5. /\ remaining' = [v \in Writers |-> remaining'[v]]
      /\ \A v \in Writers : v # w => remaining'[v] = remaining[v]
  BY <1>1, WriterEffects
<1>6. /\ \A v \in Writers : IsSequence(posted'[v])
      /\ \A v \in Writers : v # w => posted'[v] = posted[v]
  <2>1. CASE UNCHANGED posted
    BY <1>1, <2>1
  <2>2. ASSUME NEW o, posted' = [posted EXCEPT ![w] = Append(@, o)]
        PROVE  /\ \A v \in Writers : IsSequence(posted'[v])
               /\ \A v \in Writers : v # w => posted'[v] = posted[v]
    <3>1. /\ posted'[w] = Append(posted[w], o)
          /\ \A v \in Writers : v # w => posted'[v] = posted[v]
      BY <1>1, <2>2
    <3>2. IsSequence(Append(posted[w], o))
      BY <1>1, Appended
    <3>. QED
      BY <1>1, <3>1, <3>2
  <2>. QED
    BY <1>1, <2>1, <2>2, WriterEffects
<1>7. PieceShapes'
  <2>1. ASSUME NEW v \in Writers, NEW id \in 1..Len(sent'[v])
        PROVE  \E result : \E s \in Nat : sent'[v][id] = [size |-> s, promise |-> result]
    <3>1. sent' = sent /\ id \in 1..Len(sent[v])
      BY <1>1
    <3>2. PICK result : \E s \in Nat : sent[v][id] = [size |-> s, promise |-> result]
      BY <3>1 DEF PiecesInv, PieceShapes
    <3>. QED
      BY <3>1, <3>2
  <2>. QED
    BY <1>4, <1>5, <1>6, <2>1, Zenon DEF PieceShapes
<1>8. ASSUME NEW v \in Writers, v # w, NEW id PROVE Kept(v, id)
  <2>1. message'[v] = message[v] /\ compounded'[v] = compounded[v] /\ acks'[v] = acks[v]
    <3>1. message'[v] = message[v]
      BY <1>1, <1>8, WriterEffects
    <3>2. compounded'[v] = compounded[v]
      BY <1>1, <1>8, WriterEffects
    <3>3. acks'[v] = acks[v]
      BY <1>1, <1>8, WriterEffects
    <3>. QED
      BY <3>1, <3>2, <3>3
  <2>2. QueueKept(v, id)
    <3>1. UNCHANGED sendQueue \/ \E e : ~IsOf(e, v, id) /\ sendQueue' = Append(sendQueue, e)
      BY <1>1, <1>8, WriterEffects DEF IsOf
    <3>. QED
      BY <1>1, <3>1, QueueStays
  <2>3. AcksKept(v, id) /\ WireKept(v, id)
    BY <1>1, <2>1, AcksStay, WireStays
  <2>4. NotResolved(v, id) => NotResolved(v, id)'
    BY <1>1, <1>6, <1>8, ResultsStay
  <2>5. HandKept(v)
    BY <1>4, <1>5, <1>8, <2>1 DEF HandKept
  <2>. QED
    BY <2>1, <2>2, <2>3, <2>4, <2>5, KeptParts
<1>. QED
  BY <1>2, <1>3, <1>7, <1>8

\* The message at the head of the calls goes to the writer, or is turned away.
LEMMA StreamHead ==
    ASSUME IInv, OrderInv, IteratorInv, PiecesInv, NEW w \in Writers, Writer!Stream(w),
           UNCHANGED <<channelSendPromiseQueue, wire, sent>>,
           NEW m, m = Head(calls[w])
    PROVE  Stage(w, m.id)' /\ \A id : id # m.id => Kept(w, id)
<1>1. m = Head(calls[w])
  OBVIOUS
<1>2. Writer!Idle(w) /\ calls[w] # <<>> /\ UNCHANGED <<acks, sendQueue>> /\ IsSequence(acks[w])
  BY DEF Writer!Stream, IInv, Shapes
<1>3. Waits(w, m)
  <2>1. m \in ToSet(calls[w])
    BY <1>1, <1>2, ElementsTaken DEF OrderInv, OrderShapes
  <2>. QED
    BY <2>1 DEF PiecesInv, WaitInv
<1>4. \A id : AcksKept(w, id)
  BY <1>2, AcksStay
<1>5. CASE promise[w] = "null" /\ Writer!Compound(w, m, 0, m.size)
  <2>1. Free(w)
    BY <1>2, <1>5 DEF IInv, Placed, Sending, InTransport, Answered
  <2>2. \A id : ~WaitedFor(w, id)
    BY <2>1, NotWaited DEF Free
  <2>3. /\ m.id \in 1..Len(sent[w]) /\ m.size = sent[w][m.id].size
        /\ NotResolved(w, m.id) /\ NoneOf(sendQueue, w, m.id) /\ NoAckOf(acks'[w], m.id)
        /\ OnWire(w, m.id) = {}
    BY <1>2, <1>3 DEF Waits, Untouched
  <2>4. Count(w, m.id) = 0
    BY <2>3, FS_EmptySet DEF Count
  <2>5. m.size \in Nat
    <3>1. PICK r : \E s \in Nat : sent[w][m.id] = [size |-> s, promise |-> r]
      BY <2>3 DEF PiecesInv, PieceShapes
    <3>. QED
      BY <2>3, <3>1
  <2>6. 0 = 0 * MaxPayload /\ m.size = m.size - 0 * MaxPayload /\ Begun(m.size, 0)
    <3>1. 0 * MaxPayload = 0
      BY SendPathAssumption
    <3>. QED
      BY <2>5, <3>1 DEF Begun
  <2>7. UNCHANGED <<sendQueue, wire, sent>> /\ 0 \in Nat
    BY <1>2
  <2>8. Stage(w, m.id)' /\ \A id : id # m.id => Kept(w, id)
    BY <1>2, <1>4, <1>5, <2>2, <2>3, <2>4, <2>6, <2>7, CompoundPieces
  <2>. QED
    BY <1>1, <2>8
<1>6. CASE /\ posted' = [posted EXCEPT ![w] = Append(@, [id |-> m.id, result |-> "busy"])]
           /\ UNCHANGED <<message, offset, remaining, compounded>>
  <2>1. PICK o : o = [id |-> m.id, result |-> "busy"]
    OBVIOUS
  <2>2. o.result # "resolved" /\ posted'[w] = Append(posted[w], o) /\ IsSequence(posted[w])
    BY <1>6, <2>1 DEF IteratorInv, PiecesInv, PieceShapes
  <2>3. ASSUME NEW id PROVE Kept(w, id)
    <3>1. NotResolved(w, id) => NotResolved(w, id)'
      BY <2>2, ResultsStay
    <3>2. QueueKept(w, id) /\ WireKept(w, id)
      BY <1>2, QueueStays, WireStays DEF IInv, Shapes, OrderInv, OrderShapes
    <3>. QED
      BY <1>4, <1>6, <3>1, <3>2, KeptParts DEF HandKept
  <2>4. SizesKept
    BY DEF SizesKept
  <2>5. Stage(w, m.id)'
    BY <2>3, <2>4, StageKept DEF PiecesInv
  <2>. QED
    BY <1>1, <2>3, <2>5
<1>. QED
  BY <1>1, <1>5, <1>6 DEF Writer!Stream, Writer!Put

LEMMA StreamPieces ==
    ASSUME IInv, OrderInv, IteratorInv, PiecesInv, NEW w \in Writers, WriterStep(w),
           Writer!Stream(w)
    PROVE  PiecesInv'
<1>1. PICK m : m = Head(calls[w])
  OBVIOUS
<1>2. /\ calls[w] # <<>> /\ calls' = [calls EXCEPT ![w] = Tail(@)]
      /\ UNCHANGED <<channelSendPromiseQueue, wire, sent>>
      /\ calls = [v \in Writers |-> calls[v]] /\ \A v \in Writers : IsSequence(calls[v])
  BY DEF WriterStep, Writer!Stream, Writer!Take, OrderInv, OrderShapes
<1>3. calls'[w] = Tail(calls[w]) /\ \A v \in Writers : v # w => calls'[v] = calls[v]
  BY <1>2
<1>4. Stage(w, m.id)' /\ \A id : id # m.id => Kept(w, id)
  BY <1>1, <1>2, StreamHead
<1>5. /\ SizesKept /\ PieceShapes' /\ WireInv'
      /\ \A v \in Writers : v # w => \A id : Kept(v, id)
  BY WriterRest
<1>6. ASSUME NEW v \in Writers, NEW id PROVE Stage(v, id)'
  <2>1. CASE v = w /\ id = m.id
    BY <1>4, <2>1
  <2>2. CASE ~(v = w /\ id = m.id)
    BY <1>4, <1>5, <2>2, StageKept DEF PiecesInv
  <2>. QED
    BY <2>1, <2>2
<1>7. ASSUME NEW v \in Writers, NEW x, Waits(v, x), v # w \/ x.id # m.id PROVE Waits(v, x)'
  BY <1>4, <1>5, <1>7, WaitsStay
<1>8. m \in ToSet(calls[w]) /\ m.id \in 1..Len(sent[w]) /\ Len(sent[w]) \in Nat
  <2>1. m \in ToSet(calls[w])
    BY <1>1, <1>2, ElementsTaken
  <2>. QED
    BY <2>1, Elements DEF PiecesInv, WaitInv, Waits, OrderInv, OrderShapes
<1>9. ASSUME NEW v \in Writers
      PROVE  Increasing(calls'[v]) /\ \A x \in ToSet(calls'[v]) : Waits(v, x)'
  <2>1. Increasing(calls[v]) /\ \A x \in ToSet(calls[v]) : Waits(v, x)
    BY DEF PiecesInv, WaitInv
  <2>2. CASE v # w
    BY <1>3, <1>7, <2>1, <2>2
  <2>3. CASE v = w
    <3>1. /\ Increasing(Tail(calls[w])) /\ \A x \in ToSet(Tail(calls[w])) : m.id < x.id
          /\ ToSet(Tail(calls[w])) \subseteq ToSet(calls[w])
      BY <1>1, <1>2, <2>1, <2>3, IncreasingTaken, ElementsTaken
    <3>2. ASSUME NEW x \in ToSet(Tail(calls[w])) PROVE Waits(w, x)'
      <4>1. Waits(w, x) /\ m.id < x.id
        BY <2>1, <2>3, <3>1
      <4>2. x.id # m.id
        BY <1>8, <4>1 DEF Waits
      <4>. QED
        BY <1>7, <4>1, <4>2
    <3>. QED
      BY <1>3, <2>3, <3>1, <3>2
  <2>. QED
    BY <2>2, <2>3
<1>10. ASSUME "messenger" \in Writers, NEW i \in 2..Len(channelSendPromiseQueue), NEW x,
              x = channelSendPromiseQueue[i]
       PROVE  Waits("messenger", x)'
  <2>1. Waits("messenger", x)
    BY <1>10 DEF PiecesInv, WaitInv
  <2>2. CASE w # "messenger"
    BY <1>7, <1>10, <2>1, <2>2
  <2>3. CASE w = "messenger"
    <3>1. /\ 1 \in 1..Len(channelSendPromiseQueue) /\ i \in 1..Len(channelSendPromiseQueue)
          /\ 1 < i
      BY <1>10, Elements DEF OrderInv, OrderShapes
    <3>2. channelSendPromiseQueue # <<>>
      BY <3>1, Empty
    <3>3. Called(channelSendPromiseQueue[1].id)
      BY <1>2, <1>10, <2>3, <3>2 DEF IteratorInv, OnlyFirst, UnderWayOf, Made, Passed, Came, Told
    <3>4. m.id = channelSendPromiseQueue[1].id
      BY <1>1, <1>2, <2>3, <3>3, One DEF Called
    <3>5. channelSendPromiseQueue[1].id < x.id
      BY <1>10, <3>1 DEF IteratorInv, QueuedIds, Increasing
    <3>6. x.id # m.id
      BY <1>8, <2>1, <2>3, <3>4, <3>5 DEF Waits
    <3>. QED
      BY <1>7, <1>10, <2>1, <3>6
  <2>. QED
    BY <2>2, <2>3
<1>11. WaitInv'
  <2>1. "messenger" \in Writers => \A i \in 2..Len(channelSendPromiseQueue) :
            Waits("messenger", channelSendPromiseQueue[i])'
    BY <1>2, <1>10, Zenon
  <2>. QED
    BY <1>2, <1>9, <2>1 DEF WaitInv, Increasing
<1>. QED
  BY <1>5, <1>6, <1>11 DEF PiecesInv

\* The frame that was made goes to the transport.
LEMMA TransportSendPieces ==
    ASSUME IInv, OrderInv, IteratorInv, PiecesInv, NEW w \in Writers, WriterStep(w),
           Writer!TransportSend(w)
    PROVE  PiecesInv'
<1>1. PICK frame : frame = compounded[w]
  OBVIOUS
<1>2. PICK e : e = [writer |-> w, frame |-> frame]
  OBVIOUS
<1>3. PICK id0 : id0 = frame.id
  OBVIOUS
<1>4. /\ e.writer = w /\ e.frame = frame /\ ~Writer!Idle(w)
      /\ sendQueue' = Append(sendQueue, e)
      /\ compounded' = [compounded EXCEPT ![w] = Writer!NoFrame]
      /\ Writer!Ends(frame) \/ UNCHANGED <<message, offset, remaining>>
      /\ UNCHANGED <<calls, acks, posted, channelSendPromiseQueue, wire, sent>>
  BY <1>1, <1>2 DEF WriterStep, Writer!TransportSend, Writer!Set
<1>5. /\ IsSequence(sendQueue) /\ IsSequence(acks[w]) /\ IsSequence(wire) /\ IsSequence(posted[w])
      /\ compounded'[w] = Writer!NoFrame
  BY <1>4 DEF IInv, Shapes, OrderInv, OrderShapes, PiecesInv, PieceShapes
<1>6. Sending(w)
  BY <1>4 DEF IInv, Placed, Free, InTransport, Answered
<1>7. \A id : ~Makes(w, id)'
  BY <1>5 DEF Makes, Writer!Idle, Writer!NoFrame
<1>8. \A id : WireKept(w, id) /\ AcksKept(w, id) /\ (NotResolved(w, id) => NotResolved(w, id)')
  BY <1>4, <1>5, WireStays, AcksStay, ResultsStay
<1>9. Makes(w, id0)
  BY <1>1, <1>3, <1>4 DEF Makes
<1>10. FrameMade(w, id0)
  BY <1>9 DEF PiecesInv, Stage, Untouched, FrameQueued, FrameBack, Over
<1>11. FrameQueued(w, id0)'
  <2>1. PICK n, size : n = Count(w, id0) /\ size = sent[w][id0].size
    OBVIOUS
  <2>2. Count(w, id0)' = n /\ size = sent[w][id0].size'
    BY <1>4, <1>8, <2>1 DEF WireKept, Count
  <2>3. Piece(size, n, frame) /\ Holds(w, id0, n)
    BY <1>1, <1>10, <2>1 DEF FrameMade
  <2>4. OneOf(sendQueue, w, id0, frame)'
    <3>1. IsOf(e, w, id0) /\ NoneOf(sendQueue, w, id0)
      BY <1>3, <1>4, <1>10 DEF IsOf, FrameMade
    <3>2. OneOf(sendQueue', w, id0, frame)
      BY <1>4, <1>5, <3>1, OfAppended
    <3>. QED
      BY <3>2 DEF OneOf, IsOf
  <2>5. ~Writer!Ends(frame) => Holds(w, id0, n)'
    BY <1>4, <2>1, <2>3 DEF Holds
  <2>6. NoAckOf(acks[w], id0)'
    BY <1>4, <1>10 DEF FrameMade, NoAckOf
  <2>7. Piece(size, n, frame)' /\ (~Writer!Ends(frame) => Holds(w, id0, n)')
    BY <2>3, <2>5 DEF Piece, Begun
  <2>8. id0 \in 1..Len(sent[w])' /\ NotResolved(w, id0)' /\ ~Makes(w, id0)'
    BY <1>4, <1>7, <1>8, <1>10 DEF FrameMade
  <2>9. (~Writer!Ends(frame))' => ~Writer!Ends(frame)
    BY DEF Writer!Ends
  <2>. QED
    BY <2>2, <2>4, <2>6, <2>7, <2>8, <2>9 DEF FrameQueued
<1>12. ASSUME NEW id, id # id0 PROVE Kept(w, id)
  <2>1. ~IsOf(e, w, id) /\ ~Makes(w, id)
    BY <1>1, <1>3, <1>4, <1>12 DEF IsOf, Makes
  <2>2. QueueKept(w, id)
    BY <1>4, <1>5, <2>1, QueueStays
  <2>3. ~WaitedFor(w, id)
    <3>1. ASSUME NEW f, OneOf(sendQueue, w, id, f) PROVE Writer!Ends(f)
      BY <1>6, <3>1 DEF OneOf, Sending, NoneQueued, Open, IsOf
    <3>2. ASSUME NEW a, OneAckOf(acks[w], id, a) PROVE Writer!Ends(a.frame)
      BY <1>6, <3>2 DEF OneAckOf, Sending, NoneAcked
    <3>. QED
      BY <2>1, <3>1, <3>2 DEF WaitedFor
  <2>. QED
    BY <1>7, <1>8, <2>1, <2>2, <2>3, KeptParts
<1>13. /\ SizesKept /\ PieceShapes' /\ WireInv'
       /\ \A v \in Writers : v # w => \A id : Kept(v, id)
  BY WriterRest
<1>14. ASSUME NEW v \in Writers, NEW id PROVE Kept(v, id) \/ (~Untouched(v, id) /\ Stage(v, id)')
  <2>1. CASE v = w /\ id = id0
    BY <1>9, <1>11, <2>1 DEF Untouched, Stage
  <2>2. CASE ~(v = w /\ id = id0)
    BY <1>12, <1>13, <2>2
  <2>. QED
    BY <2>1, <2>2
<1>. QED
  BY <1>4, <1>13, <1>14, StepPieces

\* The oldest frame reaches the phone, or does not, and its writer is told.
LEMMA TransportSendsPieces ==
    ASSUME IInv, OrderInv, PiecesInv, NEW result, TransportSends(result)
    PROVE  PiecesInv'
<1>1. PICK first : first = Head(sendQueue)
  OBVIOUS
<1>2. PICK w, id0, frame : w = first.writer /\ frame = first.frame /\ id0 = frame.id
  OBVIOUS
<1>3. PICK ack : ack = [frame |-> frame, result |-> result]
  OBVIOUS
<1>4. /\ ack.frame = frame /\ ack.result = result
      /\ sendQueue # <<>> /\ sendQueue' = Tail(sendQueue)
      /\ wire' = IF result = "resolved" THEN Append(wire, first) ELSE wire
      /\ acks' = [acks EXCEPT ![w] = Append(@, ack)]
      /\ UNCHANGED <<calls, message, offset, remaining, compounded, posted,
                     channelSendPromiseQueue, sent>>
  BY <1>1, <1>2, <1>3 DEF TransportSends
<1>5. /\ IsSequence(sendQueue) /\ IsSequence(wire)
      /\ acks = [v \in Writers |-> acks[v]] /\ \A v \in Writers : IsSequence(acks[v])
      /\ \A v \in Writers : IsSequence(posted[v])
  BY DEF IInv, Shapes, OrderInv, OrderShapes, PiecesInv, PieceShapes
<1>6. w \in Writers /\ ~NoneOf(sendQueue, w, id0) /\ IsOf(first, w, id0)
  <2>1. 1 \in 1..Len(sendQueue) /\ first = sendQueue[1]
    BY <1>1, <1>4, <1>5, Taken
  <2>. QED
    BY <1>2, <2>1 DEF IInv, Shapes, NoneOf, IsOf
<1>7. acks'[w] = Append(acks[w], ack) /\ \A v \in Writers : v # w => acks'[v] = acks[v]
  BY <1>4, <1>5, <1>6
<1>8. FrameQueued(w, id0)
  BY <1>6 DEF PiecesInv, Stage, Untouched, FrameMade, FrameBack, Over
<1>9. PICK n, size : n = Count(w, id0) /\ size = sent[w][id0].size
  OBVIOUS
<1>10. /\ Piece(size, n, frame) /\ (~Writer!Ends(frame) => Holds(w, id0, n))
       /\ NoneOf(Tail(sendQueue), w, id0) /\ n \in Nat
  <2>1. PICK f : /\ OneOf(sendQueue, w, id0, f) /\ Piece(size, n, f)
                 /\ ~Writer!Ends(f) => Holds(w, id0, n)
    BY <1>8, <1>9 DEF FrameQueued
  <2>2. f = first.frame /\ NoneOf(Tail(sendQueue), w, id0)
    BY <1>1, <1>4, <1>5, <1>6, <2>1, OfTaken
  <2>3. n \in Nat
    BY <1>5, <1>9, Places
  <2>. QED
    BY <1>2, <2>1, <2>2, <2>3
<1>11. FrameBack(w, id0)'
  <2>1. OneAckOf(acks[w], id0, ack)'
    <3>1. OneAckOf(acks'[w], id0, ack)
      BY <1>2, <1>4, <1>5, <1>6, <1>7, <1>8, OfAckAppended DEF FrameQueued
    <3>. QED
      BY <3>1 DEF OneAckOf
  <2>2. NoneOf(sendQueue, w, id0)'
    BY <1>4, <1>10 DEF NoneOf, IsOf
  <2>3. id0 \in 1..Len(sent[w])' /\ NotResolved(w, id0)' /\ ~Makes(w, id0)'
    BY <1>4, <1>8 DEF FrameQueued, NotResolved, Makes, Writer!Idle, Writer!NoFrame
  <2>4. ASSUME ack.result = "resolved"
        PROVE  LastIs(w, id0, frame)' /\ (~Writer!Ends(frame) => Holds(w, id0, Count(w, id0) - 1)')
    <3>1. LastIs(w, id0, frame)' /\ Count(w, id0)' = n + 1
      BY <1>2, <1>4, <1>5, <1>6, <1>9, <2>4, FrameCame
    <3>2. PICK k : k = Count(w, id0)' - 1
      OBVIOUS
    <3>3. k = n
      BY <1>10, <3>1, <3>2
    <3>4. ~Writer!Ends(frame) => Holds(w, id0, n)'
      BY <1>4, <1>10 DEF Holds
    <3>. QED
      BY <3>1, <3>2, <3>3, <3>4
  <2>5. (~Writer!Ends(frame))' => ~Writer!Ends(frame)
    BY DEF Writer!Ends
  <2>. QED
    BY <1>4, <2>1, <2>2, <2>3, <2>4, <2>5 DEF FrameBack
<1>12. ASSUME NEW v \in Writers, NEW id, ~(v = w /\ id = id0) PROVE Kept(v, id)
  <2>1. ~IsOf(first, v, id)
    BY <1>2, <1>12 DEF IsOf
  <2>2. QueueKept(v, id)
    BY <1>1, <1>4, <1>5, <2>1, QueueStays
  <2>3. WireKept(v, id)
    BY <1>4, <1>5, <2>1, WireStays
  <2>4. AcksKept(v, id)
    <3>1. CASE v # w
      BY <1>5, <1>7, <3>1, AcksStay
    <3>2. CASE v = w
      BY <1>2, <1>4, <1>5, <1>7, <1>12, <3>2, AcksStay
    <3>. QED
      BY <3>1, <3>2
  <2>5. NotResolved(v, id) => NotResolved(v, id)'
    BY <1>4 DEF NotResolved
  <2>. QED
    BY <1>4, <2>2, <2>3, <2>4, <2>5, KeptParts DEF HandKept
<1>13. SizesKept
  BY <1>4 DEF SizesKept
<1>14. PieceShapes'
  <2>1. ASSUME NEW v \in Writers, NEW id \in 1..Len(sent'[v])
        PROVE  \E r : \E s \in Nat : sent'[v][id] = [size |-> s, promise |-> r]
    <3>1. sent' = sent /\ id \in 1..Len(sent[v])
      BY <1>4
    <3>2. PICK r : \E s \in Nat : sent[v][id] = [size |-> s, promise |-> r]
      BY <3>1 DEF PiecesInv, PieceShapes
    <3>. QED
      BY <3>1, <3>2
  <2>2. /\ offset' = [v \in Writers |-> offset'[v]]
        /\ remaining' = [v \in Writers |-> remaining'[v]]
        /\ \A v \in Writers : IsSequence(posted'[v])
    BY <1>4 DEF PiecesInv, PieceShapes
  <2>. QED
    BY <2>1, <2>2, Zenon DEF PieceShapes
<1>15. WireInv'
  <2>1. CASE wire' = wire
    BY <1>13, <2>1, WireInvStays DEF PiecesInv
  <2>2. CASE wire' = Append(wire, first)
    <3>1. /\ Len(wire) \in Nat /\ Len(wire') = Len(wire) + 1 /\ wire'[Len(wire) + 1] = first
          /\ \A i \in 1..Len(wire) : wire'[i] = wire[i]
      BY <1>5, <2>2, Appended
    <3>2. ASSUME NEW v, NEW id, NEW i \in 1..Len(wire)
          PROVE  Earlier(OnWire(v, id)', i) = Earlier(OnWire(v, id), i)
      <4>1. \/ OnWire(v, id)' = OnWire(v, id)
            \/ OnWire(v, id)' = OnWire(v, id) \cup {Len(wire) + 1}
        BY <1>5, <2>2, FrameCame
      <4>2. ~(Len(wire) + 1 < i)
        BY <3>1
      <4>. QED
        BY <4>1, <4>2 DEF Earlier
    <3>3. Cardinality(Earlier(OnWire(w, id0)', Len(wire) + 1)) = n
      <4>1. OnWire(w, id0)' = OnWire(w, id0) \cup {Len(wire) + 1}
        BY <1>5, <1>6, <2>2, FrameCame
      <4>2. \A i \in OnWire(w, id0) : i < Len(wire) + 1
        BY <1>5, <3>1, Places
      <4>3. Earlier(OnWire(w, id0)', Len(wire) + 1) = OnWire(w, id0)
        BY <3>1, <4>1, <4>2 DEF Earlier
      <4>. QED
        BY <1>9, <4>3 DEF Count
    <3>4. ASSUME NEW i \in 1..Len(wire'), NEW e, e = wire'[i]
          PROVE  /\ e.writer \in Writers /\ e.frame.id \in 1..Len(sent'[e.writer])
                 /\ Piece(sent'[e.writer][e.frame.id].size,
                          Cardinality(Earlier(OnWire(e.writer, e.frame.id)', i)), e.frame)
      <4>1. CASE i \in 1..Len(wire)
        <5>1. e = wire[i]
          BY <3>1, <3>4, <4>1
        <5>2. /\ e.writer \in Writers /\ e.frame.id \in 1..Len(sent[e.writer])
              /\ Piece(sent[e.writer][e.frame.id].size,
                       Cardinality(Earlier(OnWire(e.writer, e.frame.id), i)), e.frame)
          BY <4>1, <5>1 DEF PiecesInv, WireInv
        <5>. QED
          BY <1>4, <3>2, <4>1, <5>2
      <4>2. CASE i = Len(wire) + 1
        <5>1. e = first
          BY <3>1, <3>4, <4>2
        <5>2. id0 \in 1..Len(sent[w]) /\ Piece(sent[w][id0].size, n, frame)
          BY <1>8, <1>9, <1>10 DEF FrameQueued
        <5>. QED
          BY <1>2, <1>4, <1>6, <3>3, <4>2, <5>1, <5>2
      <4>. QED
        BY <3>1, <4>1, <4>2
    <3>5. ASSUME NEW v, NEW id, NEW i PROVE Earlier(OnWire(v, id), i)' = Earlier(OnWire(v, id)', i)
      BY DEF Earlier
    <3>6. ASSUME NEW i \in 1..Len(wire'), NEW e, e = wire'[i]
          PROVE  /\ e.writer \in Writers /\ e.frame.id \in 1..Len(sent'[e.writer])
                 /\ Piece(sent'[e.writer][e.frame.id].size,
                          Cardinality(Earlier(OnWire(e.writer, e.frame.id), i)'), e.frame)
      BY <3>4, <3>5, <3>6
    <3>. QED
      BY <3>6, Zenon DEF WireInv
  <2>. QED
    BY <1>4, <2>1, <2>2
<1>16. ASSUME NEW v \in Writers, NEW id PROVE Kept(v, id) \/ (~Untouched(v, id) /\ Stage(v, id)')
  <2>1. CASE v = w /\ id = id0
    BY <1>6, <1>11, <2>1 DEF Untouched, Stage
  <2>2. CASE ~(v = w /\ id = id0)
    BY <1>12, <2>2
  <2>. QED
    BY <2>1, <2>2
<1>. QED
  BY <1>4, <1>13, <1>14, <1>15, <1>16, StepPieces

\* The outcome that has come: its message, and that no other is waited for.
LEMMA CameBack ==
    ASSUME IInv, OrderInv, PiecesInv, NEW w \in Writers, NEW ends, NEW result,
           Writer!Acked(w, ends, result), UNCHANGED <<wire, sent>>, NEW a, a = Head(acks[w])
    PROVE  /\ a.result = result /\ (Writer!Ends(a.frame) <=> ends)
           /\ FrameBack(w, a.frame.id) /\ OneAckOf(acks[w], a.frame.id, a)
           /\ NoAckOf(acks'[w], a.frame.id)
           /\ \A id : /\ QueueKept(w, id) /\ WireKept(w, id) /\ ~Makes(w, id)
                      /\ id # a.frame.id => AcksKept(w, id)
                      /\ id # a.frame.id /\ ~ends => ~WaitedFor(w, id)
<1>1. /\ Writer!Idle(w) /\ acks[w] # <<>> /\ a.result = result /\ UNCHANGED sendQueue
      /\ Writer!Ends(a.frame) <=> ends
      /\ acks' = [acks EXCEPT ![w] = Tail(@)]
  BY DEF Writer!Acked, Writer!Take
<1>2. /\ IsSequence(acks[w]) /\ IsSequence(wire) /\ IsSequence(sendQueue)
      /\ acks'[w] = Tail(acks[w])
  BY <1>1 DEF IInv, Shapes, OrderInv, OrderShapes
<1>3. ~NoAckOf(acks[w], a.frame.id)
  BY <1>1, <1>2, OfAckTaken
<1>4. FrameBack(w, a.frame.id)
  BY <1>3 DEF PiecesInv, Stage, Untouched, FrameMade, FrameQueued, Over
<1>5. PICK b : OneAckOf(acks[w], a.frame.id, b)
  BY <1>4 DEF FrameBack
<1>6. b = a /\ NoAckOf(Tail(acks[w]), a.frame.id)
  BY <1>1, <1>2, <1>5, OfAckTaken
<1>7. ASSUME NEW id PROVE QueueKept(w, id) /\ WireKept(w, id) /\ ~Makes(w, id)
  BY <1>1, <1>2, QueueStays, WireStays DEF Makes
<1>8. ASSUME NEW id, id # a.frame.id PROVE AcksKept(w, id)
  BY <1>1, <1>2, <1>8, AcksStay
<1>9. ASSUME NEW id, id # a.frame.id, ~ends PROVE ~WaitedFor(w, id)
  BY <1>1, <1>9, AnsweredWaits
<1>. QED
  BY <1>1, <1>2, <1>4, <1>5, <1>6, <1>7, <1>8, <1>9

\* The frame before was sent, so the next one is made where it ended.
LEMMA SplitPieces ==
    ASSUME IInv, OrderInv, IteratorInv, PiecesInv, NEW w \in Writers, WriterStep(w),
           Writer!StreamSplittedMessage(w)
    PROVE  PiecesInv'
<1>1. PICK a : a = Head(acks[w])
  OBVIOUS
<1>2. PICK id0, frame : frame = a.frame /\ id0 = frame.id
  OBVIOUS
<1>3. /\ Writer!Acked(w, FALSE, "resolved") /\ Writer!Idle(w)
      /\ UNCHANGED <<calls, sendQueue, channelSendPromiseQueue, wire, sent>>
      /\ Writer!Compound(w, message[w], offset[w] + frame.size, remaining[w] - frame.size)
  BY <1>1, <1>2 DEF WriterStep, Writer!StreamSplittedMessage, Writer!Acked
<1>4. /\ a.result = "resolved" /\ ~Writer!Ends(frame)
      /\ FrameBack(w, id0) /\ OneAckOf(acks[w], id0, a) /\ NoAckOf(acks'[w], id0)
      /\ \A id : id # id0 => AcksKept(w, id) /\ ~WaitedFor(w, id)
  BY <1>1, <1>2, <1>3, CameBack
<1>5. /\ IsSequence(acks[w]) /\ acks[w] # <<>> /\ IsSequence(wire)
  BY <1>3 DEF Writer!Acked, IInv, Shapes, OrderInv, OrderShapes
<1>6. LastIs(w, id0, frame) /\ Holds(w, id0, Count(w, id0) - 1)
  <2>1. PICK b : /\ OneAckOf(acks[w], id0, b)
                 /\ b.result = "resolved" =>
                       /\ LastIs(w, id0, b.frame)
                       /\ ~Writer!Ends(b.frame) => Holds(w, id0, Count(w, id0) - 1)
    BY <1>4 DEF FrameBack
  <2>2. b = a
    BY <1>1, <1>2, <1>5, <2>1, OfAckTaken
  <2>. QED
    BY <1>2, <1>4, <2>1, <2>2
<1>7. PICK i \in OnWire(w, id0) :
          wire[i].frame = frame /\ Count(w, id0) = Cardinality(Earlier(OnWire(w, id0), i)) + 1
  BY <1>5, <1>6, LastHasOthersBefore
<1>8. PICK k, size : k = Cardinality(Earlier(OnWire(w, id0), i)) /\ size = sent[w][id0].size
  OBVIOUS
<1>9. k \in Nat /\ Count(w, id0) = k + 1 /\ Count(w, id0) - 1 = k
  <2>1. IsFiniteSet(OnWire(w, id0))
    BY <1>5, Places
  <2>2. IsFiniteSet(Earlier(OnWire(w, id0), i))
    BY <2>1, FS_Subset DEF Earlier
  <2>3. k \in Nat
    BY <1>8, <2>2, FS_CardinalityType
  <2>. QED
    BY <1>7, <1>8, <2>3
<1>10. Piece(size, k, frame)
  <2>1. i \in 1..Len(wire) /\ IsOf(wire[i], w, id0)
    BY <1>5, Places
  <2>. QED
    BY <1>7, <1>8, <2>1 DEF PiecesInv, WireInv, IsOf
<1>11. id0 \in 1..Len(sent[w]) /\ size \in Nat
  <2>1. id0 \in 1..Len(sent[w])
    BY <1>4 DEF FrameBack
  <2>2. PICK r : \E s \in Nat : sent[w][id0] = [size |-> s, promise |-> r]
    BY <2>1 DEF PiecesInv, PieceShapes
  <2>. QED
    BY <1>8, <2>1, <2>2
<1>12. /\ size >= MaxPayload /\ frame.size = MaxPayload
       /\ (k + 1) * MaxPayload = k * MaxPayload + MaxPayload /\ Begun(size, k + 1)
       /\ k * MaxPayload \in Nat /\ (k + 1) * MaxPayload \in Nat
  BY <1>4, <1>9, <1>10, <1>11, MoreToSend, Times
<1>13. PICK m, off, rest :
          m = message[w] /\ off = offset[w] + frame.size /\ rest = remaining[w] - frame.size
  OBVIOUS
<1>14. /\ m.id = id0 /\ m.size = size /\ offset[w] = k * MaxPayload
       /\ remaining[w] = size - k * MaxPayload
  BY <1>6, <1>8, <1>9, <1>12, <1>13 DEF Holds
<1>15. off = (k + 1) * MaxPayload /\ rest = size - (k + 1) * MaxPayload
  BY <1>11, <1>12, <1>13, <1>14, SendPathAssumption
<1>16. Stage(w, id0)' /\ \A id : id # id0 => Kept(w, id)
  <2>1. /\ m.id \in 1..Len(sent[w]) /\ m.size = sent[w][m.id].size
        /\ NotResolved(w, m.id) /\ NoneOf(sendQueue, w, m.id) /\ NoAckOf(acks'[w], m.id)
        /\ \A id : id # m.id => AcksKept(w, id) /\ ~WaitedFor(w, id)
    BY <1>4, <1>8, <1>11, <1>14 DEF FrameBack
  <2>2. /\ k + 1 \in Nat /\ k + 1 = Count(w, m.id)
        /\ ~(m.size < MaxPayload)
        /\ off = (k + 1) * MaxPayload /\ rest = m.size - (k + 1) * MaxPayload
        /\ Begun(m.size, k + 1)
    BY <1>9, <1>11, <1>12, <1>14, <1>15, SendPathAssumption
  <2>3. Writer!Compound(w, m, off, rest) /\ UNCHANGED <<sendQueue, wire, sent>>
    BY <1>3, <1>13
  <2>4. Stage(w, m.id)' /\ \A id : id # m.id => Kept(w, id)
    BY <1>3, <2>1, <2>2, <2>3, CompoundPieces
  <2>. QED
    BY <1>14, <2>4
<1>17. /\ SizesKept /\ PieceShapes' /\ WireInv'
       /\ \A v \in Writers : v # w => \A id : Kept(v, id)
  BY WriterRest
<1>18. ~Untouched(w, id0)
  BY <1>6 DEF Untouched, LastIs
<1>19. ASSUME NEW v \in Writers, NEW id PROVE Kept(v, id) \/ (~Untouched(v, id) /\ Stage(v, id)')
  <2>1. CASE v = w /\ id = id0
    BY <1>16, <1>18, <2>1
  <2>2. CASE ~(v = w /\ id = id0)
    BY <1>16, <1>17, <2>2
  <2>. QED
    BY <2>1, <2>2
<1>. QED
  BY <1>3, <1>17, <1>19, StepPieces

\* The frame before was not sent, and the message is given up.
LEMMA SplitFailsPieces ==
    ASSUME IInv, OrderInv, IteratorInv, PiecesInv, NEW w \in Writers, WriterStep(w),
           Writer!SplitFails(w)
    PROVE  PiecesInv'
<1>1. PICK a, id0 : a = Head(acks[w]) /\ id0 = a.frame.id
  OBVIOUS
<1>2. PICK o : o = [id |-> id0, result |-> "rejected"]
  OBVIOUS
<1>3. /\ Writer!Acked(w, FALSE, "rejected") /\ Writer!Idle(w)
      /\ UNCHANGED <<calls, sendQueue, channelSendPromiseQueue, wire, sent, compounded>>
      /\ posted' = [posted EXCEPT ![w] = Append(@, o)]
  BY <1>1, <1>2
     DEF WriterStep, Writer!SplitFails, Writer!Acked, Writer!Reject, Writer!Put
<1>4. /\ FrameBack(w, id0) /\ NoAckOf(acks'[w], id0) /\ OneAckOf(acks[w], id0, a)
      /\ \A id : /\ QueueKept(w, id) /\ WireKept(w, id) /\ ~Makes(w, id)
                 /\ id # id0 => AcksKept(w, id) /\ ~WaitedFor(w, id)
  BY <1>1, <1>3, CameBack
<1>5. \A id : NotResolved(w, id) => NotResolved(w, id)'
  <2>1. o.result # "resolved" /\ posted'[w] = Append(posted[w], o) /\ IsSequence(posted[w])
    BY <1>2, <1>3 DEF IteratorInv, PiecesInv, PieceShapes
  <2>. QED
    BY <1>3, <2>1, ResultsStay
<1>6. Over(w, id0)'
  <2>1. id0 \in 1..Len(sent[w])' /\ NotResolved(w, id0)' /\ NoneOf(sendQueue, w, id0)'
    BY <1>3, <1>4, <1>5 DEF FrameBack, NoneOf, IsOf
  <2>2. ~Makes(w, id0)' /\ NoAckOf(acks[w], id0)'
    BY <1>3, <1>4 DEF Makes, Writer!Idle, Writer!NoFrame, NoAckOf
  <2>. QED
    BY <2>1, <2>2 DEF Over
<1>7. ASSUME NEW id, id # id0 PROVE Kept(w, id)
  BY <1>3, <1>4, <1>5, <1>7, KeptParts
<1>8. /\ SizesKept /\ PieceShapes' /\ WireInv'
      /\ \A v \in Writers : v # w => \A id : Kept(v, id)
  BY WriterRest
<1>9. ~Untouched(w, id0)
  BY <1>4 DEF Untouched, OneAckOf, NoAckOf
<1>10. ASSUME NEW v \in Writers, NEW id PROVE Kept(v, id) \/ (~Untouched(v, id) /\ Stage(v, id)')
  <2>1. CASE v = w /\ id = id0
    BY <1>6, <1>9, <2>1 DEF Stage
  <2>2. CASE ~(v = w /\ id = id0)
    BY <1>7, <1>8, <2>2
  <2>. QED
    BY <2>1, <2>2
<1>. QED
  BY <1>3, <1>8, <1>10, StepPieces

\* The outcome of the last frame is that of the message: only when it came is the
\* message complete.
LEMMA ForwardPieces ==
    ASSUME IInv, OrderInv, IteratorInv, PiecesInv, NEW w \in Writers, WriterStep(w),
           Writer!Forward(w)
    PROVE  PiecesInv'
<1>1. PICK a, id0 : a = Head(acks[w]) /\ id0 = a.frame.id
  OBVIOUS
<1>2. PICK result, o :
          /\ o = [id |-> id0, result |-> result]
          /\ Writer!Acked(w, TRUE, result)
          /\ posted' = [posted EXCEPT ![w] = Append(@, o)]
          /\ UNCHANGED <<message, offset, remaining, compounded>>
  BY <1>1 DEF Writer!Forward, Writer!Put
<1>3. /\ UNCHANGED <<calls, sendQueue, channelSendPromiseQueue, wire, sent>>
      /\ acks[w] # <<>> /\ IsSequence(acks[w]) /\ IsSequence(posted[w])
      /\ posted'[w] = Append(posted[w], o) /\ o.id = id0 /\ o.result = result
  BY <1>2 DEF WriterStep, Writer!Acked, IInv, Shapes, IteratorInv, PiecesInv, PieceShapes
<1>4. /\ a.result = result /\ Writer!Ends(a.frame)
      /\ FrameBack(w, id0) /\ NoAckOf(acks'[w], id0) /\ OneAckOf(acks[w], id0, a)
      /\ \A id : /\ QueueKept(w, id) /\ WireKept(w, id) /\ ~Makes(w, id)
                 /\ id # id0 => AcksKept(w, id)
  <2>1. PICK ends : ends = TRUE
    OBVIOUS
  <2>2. Writer!Acked(w, ends, result)
    BY <1>2, <2>1
  <2>3. /\ a.result = result /\ (Writer!Ends(a.frame) <=> ends)
        /\ FrameBack(w, a.frame.id) /\ NoAckOf(acks'[w], a.frame.id)
        /\ OneAckOf(acks[w], a.frame.id, a)
        /\ \A id : /\ QueueKept(w, id) /\ WireKept(w, id) /\ ~Makes(w, id)
                   /\ id # a.frame.id => AcksKept(w, id)
    BY <1>1, <1>3, <2>2, CameBack
  <2>. QED
    BY <1>1, <2>1, <2>3, Zenon
<1>5. Over(w, id0)'
  <2>1. id0 \in 1..Len(sent[w])' /\ NoneOf(sendQueue, w, id0)'
    BY <1>3, <1>4 DEF FrameBack, NoneOf, IsOf
  <2>2. ~Makes(w, id0)' /\ NoAckOf(acks[w], id0)'
    BY <1>2, <1>4 DEF Makes, Writer!Idle, Writer!NoFrame, NoAckOf
  <2>3. CASE result = "resolved"
    <3>1. PICK b : OneAckOf(acks[w], id0, b) /\ (b.result = "resolved" => LastIs(w, id0, b.frame))
      BY <1>4 DEF FrameBack
    <3>2. b = a
      BY <1>1, <1>3, <3>1, OfAckTaken
    <3>3. LastIs(w, id0, a.frame)' /\ Writer!Ends(a.frame)
      BY <1>4, <2>3, <3>1, <3>2 DEF WireKept
    <3>4. Complete(w, id0)'
      BY <3>3 DEF Complete, Writer!Ends
    <3>. QED
      BY <2>1, <2>2, <3>4 DEF Over
  <2>4. CASE result # "resolved"
    <3>1. NotResolved(w, id0)'
      BY <1>3, <1>4, <2>4, ResultsStay DEF FrameBack
    <3>. QED
      BY <2>1, <2>2, <3>1 DEF Over
  <2>. QED
    BY <2>3, <2>4
<1>6. ASSUME NEW id, id # id0 PROVE Kept(w, id)
  <2>1. NotResolved(w, id) => NotResolved(w, id)'
    BY <1>3, <1>6, ResultsStay
  <2>. QED
    BY <1>2, <1>4, <1>6, <2>1, KeptParts DEF HandKept
<1>7. /\ SizesKept /\ PieceShapes' /\ WireInv'
      /\ \A v \in Writers : v # w => \A id : Kept(v, id)
  BY WriterRest
<1>8. ~Untouched(w, id0)
  BY <1>4 DEF Untouched, OneAckOf, NoAckOf
<1>9. ASSUME NEW v \in Writers, NEW id PROVE Kept(v, id) \/ (~Untouched(v, id) /\ Stage(v, id)')
  <2>1. CASE v = w /\ id = id0
    BY <1>5, <1>8, <2>1 DEF Stage
  <2>2. CASE ~(v = w /\ id = id0)
    BY <1>6, <1>7, <2>2
  <2>. QED
    BY <2>1, <2>2
<1>. QED
  BY <1>3, <1>7, <1>9, StepPieces

-----------------------------------------------------------------------------
LEMMA StutterPieces == ASSUME IInv, OrderInv, PiecesInv, UNCHANGED vars PROVE PiecesInv'
<1>1. SizesKept
  BY DEF vars, SizesKept
<1>2. ASSUME NEW v \in Writers, NEW id PROVE Kept(v, id)
  BY QuietKept DEF vars, NotResolved
<1>3. PieceShapes'
  <2>1. ASSUME NEW v \in Writers, NEW id \in 1..Len(sent'[v])
        PROVE  \E r : \E s \in Nat : sent'[v][id] = [size |-> s, promise |-> r]
    <3>1. sent' = sent /\ id \in 1..Len(sent[v])
      BY DEF vars
    <3>2. PICK r : \E s \in Nat : sent[v][id] = [size |-> s, promise |-> r]
      BY <3>1 DEF PiecesInv, PieceShapes
    <3>. QED
      BY <3>1, <3>2
  <2>2. /\ offset' = [v \in Writers |-> offset'[v]]
        /\ remaining' = [v \in Writers |-> remaining'[v]]
        /\ \A v \in Writers : IsSequence(posted'[v])
    BY DEF vars, PiecesInv, PieceShapes
  <2>. QED
    BY <2>1, <2>2, Zenon DEF PieceShapes
<1>4. WireInv'
  BY <1>1, WireInvStays DEF vars, PiecesInv
<1>. QED
  BY <1>1, <1>2, <1>3, <1>4, StepPieces DEF vars

LEMMA NextPieces ==
    ASSUME IInv, OrderInv, IteratorInv, PiecesInv, [Next]_vars
    PROVE  PiecesInv'
<1>1. ASSUME NEW size \in 1..MaxSize, NEW encrypted,
             EnqueueSend(size, encrypted) \/ Dispatch(size, encrypted)
      PROVE  PiecesInv'
  <2>1. size \in Nat
    BY SendPathAssumption
  <2>. QED
    BY <1>1, <2>1, EnqueueSendPieces, DispatchPieces
<1>2. CASE OutStreamMessageHandler
  BY <1>2, HandlerPieces
<1>3. CASE RejectSendPromiseQueue
  BY <1>3, RejectPieces
<1>4. CASE LogOutcome
  BY <1>4, LogPieces
<1>5. ASSUME NEW result, TransportSends(result) PROVE PiecesInv'
  BY <1>5, TransportSendsPieces
<1>6. ASSUME NEW w \in Writers, WriterStep(w) PROVE PiecesInv'
  BY <1>6, StreamPieces, TransportSendPieces, SplitPieces, SplitFailsPieces, ForwardPieces
     DEF WriterStep, Writer!Next
<1>7. CASE UNCHANGED vars
  BY <1>7, StutterPieces
<1>. QED
  BY <1>1, <1>2, <1>3, <1>4, <1>5, <1>6, <1>7 DEF Next

(***************************************************************************)
(* When the promise of a message is resolved, every frame of it has        *)
(* reached the phone, of the right type and size: the frames add up to the *)
(* message, for every size of a message and of a frame's payload and       *)
(* however the messages of the two writers interleave, wait and fail       *)
(* (MessageOutStream.cpp:46-49 and 71-96).                                 *)
(***************************************************************************)
THEOREM ResolvedIsOnWire == Spec => []ResolvedMeansWhole
<1>1. Init => IInv /\ OrderInv /\ IteratorInv /\ PiecesInv
  BY InitInv, OrderInit, IteratorInit, PiecesInit
<1>2. IInv /\ OrderInv /\ IteratorInv /\ PiecesInv /\ [Next]_vars
        => IInv' /\ OrderInv' /\ IteratorInv' /\ PiecesInv'
  BY NextInv, NextOrder, NextIterator, NextPieces
<1>3. OrderInv /\ PiecesInv => ResolvedMeansWhole
  <2>1. ASSUME OrderInv, PiecesInv, NEW w \in Writers, NEW id \in DOMAIN sent[w],
               sent[w][id].promise = "resolved"
        PROVE  Whole(OnWire(w, id), sent[w][id].size)
    <3>1. id \in 1..Len(sent[w])
      <4>1. PICK S : sent[w] \in Seq(S)
        BY <2>1 DEF OrderInv, OrderShapes, IsSequence
      <4>. QED
        BY <4>1
    <3>2. ~NotResolved(w, id)
      BY <2>1, <3>1 DEF NotResolved
    <3>3. Complete(w, id)
      BY <2>1, <3>2 DEF PiecesInv, Stage, Untouched, FrameMade, FrameQueued, FrameBack, Over
    <3>. QED
      BY <2>1, <3>1, <3>3, CompleteIsWhole DEF OrderInv, OrderShapes, PiecesInv
  <2>. QED
    BY <2>1 DEF ResolvedMeansWhole
<1>. QED
  BY <1>1, <1>2, <1>3, PTL DEF Spec

-----------------------------------------------------------------------------
(***************************************************************************)
(* The types.  What a writer has done of its message and what remains add  *)
(* up; that the frame which came back is no more than what remained is     *)
(* from where the message is (Stage), so the proof needs the invariants    *)
(* above.                                                                  *)
(***************************************************************************)
\* The message a writer has in hand: what is done of it and what remains add up to it.
MessageTypes ==
    /\ message \in [Writers -> Messages]
    /\ offset \in [Writers -> 0..MaxSize]
    /\ remaining \in [Writers -> 0..MaxSize]
    /\ \A w \in Writers : offset[w] + remaining[w] = message[w].size
                         \/ message[w].size < MaxPayload

\* The rest of a writer, and what it told its caller.
HandTypes ==
    /\ MessageTypes
    /\ promise \in [Writers -> {"null", "set"}]
    /\ compounded \in [Writers -> Frames \cup {Writer!NoFrame}]
    /\ records \in Nat
    /\ posted \in [Writers -> Seq(Outcomes)]

\* The queues; a message asked for is within the bound of the loads.
QueueTypes ==
    /\ calls \in [Writers -> Seq(Messages)]
    /\ acks \in [Writers -> Seq(Acks)]
    /\ sendQueue \in Seq(Entries)
    /\ channelSendPromiseQueue \in Seq(Messages)
    /\ wire \in Seq(Entries)
    /\ sent \in [Writers -> Seq([size : 1..MaxSize, promise : Promises])]
    /\ \A w \in Writers : Len(sent[w]) <= MaxMessages

Typed == HandTypes /\ QueueTypes

LEMMA NothingInHand ==
    /\ Writer!NoMessage \in Messages /\ Writer!NoMessage.size = 0
    /\ 0 \in 0..MaxSize /\ 0 + 0 = 0
BY SendPathAssumption DEF Writer!NoMessage, Messages

LEMMA TakenTypes ==
    ASSUME NEW S, NEW seq \in Seq(S), seq # <<>>
    PROVE  Head(seq) \in S /\ Tail(seq) \in Seq(S)
OBVIOUS

LEMMA PutTypes ==
    ASSUME NEW S, NEW f \in [Writers -> Seq(S)], NEW w \in Writers, NEW x \in S
    PROVE  [f EXCEPT ![w] = Append(@, x)] \in [Writers -> Seq(S)]
OBVIOUS

LEMMA PostedTypes ==
    ASSUME Typed, NEW w \in Writers, NEW id \in 1..MaxMessages,
           NEW result \in {"resolved", "rejected", "busy"},
           posted' = Writer!Put(posted, w, [id |-> id, result |-> result])
    PROVE  posted' \in [Writers -> Seq(Outcomes)]
<1>1. [id |-> id, result |-> result] \in Outcomes
  BY DEF Outcomes
<1>2. Append(posted[w], [id |-> id, result |-> result]) \in Seq(Outcomes)
  BY <1>1 DEF Typed, HandTypes
<1>. QED
  BY <1>2 DEF Typed, HandTypes, Writer!Put

\* The writer takes a message in hand, or none.
LEMMA SetTypes ==
    ASSUME Typed, NEW w \in Writers, NEW m \in Messages, NEW off \in 0..MaxSize,
           NEW left \in 0..MaxSize, off + left = m.size \/ m.size < MaxPayload,
           message' = Writer!Set(message, w, m), offset' = Writer!Set(offset, w, off),
           remaining' = Writer!Set(remaining, w, left)
    PROVE  MessageTypes'
<1>1. /\ message' \in [Writers -> Messages] /\ offset' \in [Writers -> 0..MaxSize]
      /\ remaining' \in [Writers -> 0..MaxSize]
  BY Zenon DEF Typed, HandTypes, MessageTypes, Writer!Set
<1>2. ASSUME NEW v \in Writers
      PROVE  offset'[v] + remaining'[v] = message'[v].size \/ message'[v].size < MaxPayload
  <2>1. CASE v = w
    <3>1. offset'[w] = off /\ remaining'[w] = left /\ message'[w] = m
      BY Zenon DEF Typed, HandTypes, MessageTypes, Writer!Set
    <3>. QED
      BY <2>1, <3>1
  <2>2. CASE v # w
    <3>1. offset'[v] = offset[v] /\ remaining'[v] = remaining[v] /\ message'[v] = message[v]
      BY <2>2, Zenon DEF Typed, HandTypes, MessageTypes, Writer!Set
    <3>. QED
      BY <3>1 DEF Typed, HandTypes, MessageTypes
  <2>. QED
    BY <2>1, <2>2
<1>. QED
  BY <1>1, <1>2 DEF MessageTypes

LEMMA ResetTypes ==
    ASSUME Typed, NEW w \in Writers, Writer!Reset(w)
    PROVE  MessageTypes'
BY NothingInHand, SetTypes DEF Writer!Reset

LEMMA RejectedTypes ==
    ASSUME Typed, NEW w \in Writers, NEW id \in 1..MaxMessages, Writer!Reset(w),
           Writer!Reject(w, id), UNCHANGED <<records, compounded>>
    PROVE  HandTypes'
<1>1. promise' \in [Writers -> {"null", "set"}]
  BY DEF Typed, HandTypes, Writer!Reject, Writer!Set
<1>2. posted' \in [Writers -> Seq(Outcomes)]
  BY PostedTypes DEF Writer!Reject
<1>. QED
  BY <1>1, <1>2, ResetTypes DEF Typed, HandTypes

\* The frame a writer makes is one of its message, and so is what remains of it.
LEMMA CompoundTypes ==
    ASSUME Typed, NEW w \in Writers, NEW m \in Messages, m.id # 0,
           NEW off \in 0..MaxSize, NEW rest \in 0..MaxSize, off + rest = m.size,
           Writer!Compound(w, m, off, rest)
    PROVE  HandTypes'
<1>1. m.id \in 1..MaxMessages /\ m.size \in Nat /\ m.encrypted \in BOOLEAN
  BY SendPathAssumption DEF Messages
<1>2. PICK size : size = IF rest < MaxPayload THEN rest ELSE MaxPayload
  OBVIOUS
<1>3. size \in 0..MaxPayload
  BY <1>2, SendPathAssumption
<1>4. PICK left : left = IF m.size < MaxPayload THEN 0 ELSE rest
  OBVIOUS
<1>5. left \in 0..MaxSize /\ (off + left = m.size \/ m.size < MaxPayload)
  BY <1>4, SendPathAssumption
<1>6. PICK type : type = Writer!FrameType(m, off, rest, size)
  OBVIOUS
<1>7. type \in FrameTypes
  BY <1>6 DEF Writer!FrameType, FrameTypes
<1>8. PICK record : record = IF m.encrypted THEN records' ELSE 0
  OBVIOUS
<1>9. CASE /\ message' = Writer!Set(message, w, m) /\ offset' = Writer!Set(offset, w, off)
           /\ remaining' = Writer!Set(remaining, w, left)
           /\ promise' = Writer!Set(promise, w, "set")
           /\ records' = (IF m.encrypted THEN records + 1 ELSE records)
           /\ compounded' = Writer!Set(compounded, w,
                [id |-> m.id, type |-> type, size |-> size, record |-> record])
           /\ UNCHANGED posted
  <2>1. records' \in Nat /\ record \in Nat
    BY <1>8, <1>9 DEF Typed, HandTypes
  <2>2. [id |-> m.id, type |-> type, size |-> size, record |-> record] \in Frames
    BY <1>1, <1>3, <1>7, <2>1 DEF Frames
  <2>3. /\ compounded' \in [Writers -> Frames \cup {Writer!NoFrame}]
        /\ promise' \in [Writers -> {"null", "set"}]
    BY <1>9, <2>2, Zenon DEF Typed, HandTypes, Writer!Set
  <2>4. MessageTypes'
    BY <1>5, <1>9, SetTypes
  <2>. QED
    BY <1>9, <2>1, <2>3, <2>4 DEF HandTypes, Typed
<1>10. CASE /\ Writer!Reset(w) /\ Writer!Reject(w, m.id)
            /\ UNCHANGED <<records, compounded>>
  BY <1>1, <1>10, RejectedTypes
<1>. QED
  BY <1>2, <1>4, <1>6, <1>8, <1>9, <1>10, Zenon DEF Writer!Compound

\* The steps of a writer.
WriterTypes ==
    /\ calls' \in [Writers -> Seq(Messages)] /\ acks' \in [Writers -> Seq(Acks)]
    /\ sendQueue' \in Seq(Entries)

LEMMA StreamTypes ==
    ASSUME Typed, OrderInv, PiecesInv, NEW w \in Writers, Writer!Stream(w)
    PROVE  HandTypes' /\ WriterTypes
<1>1. PICK m : m = Head(calls[w])
  OBVIOUS
<1>2. /\ calls[w] # <<>> /\ calls' = [calls EXCEPT ![w] = Tail(@)]
      /\ UNCHANGED <<acks, sendQueue>>
  BY DEF Writer!Stream, Writer!Take
<1>3. calls[w] \in Seq(Messages)
  BY DEF Typed, QueueTypes
<1>4. m \in Messages /\ Tail(calls[w]) \in Seq(Messages)
  BY <1>1, <1>2, <1>3, TakenTypes
<1>5. WriterTypes
  BY <1>2, <1>4 DEF WriterTypes, Typed, QueueTypes
<1>6. m.id # 0 /\ m.id \in 1..MaxMessages
  <2>1. m \in ToSet(calls[w])
    BY <1>1, <1>2, ElementsTaken DEF OrderInv, OrderShapes
  <2>2. m.id \in 1..Len(sent[w])
    BY <2>1 DEF PiecesInv, WaitInv, Waits
  <2>. QED
    BY <1>4, <2>2 DEF Messages
<1>7. CASE /\ posted' = Writer!Put(posted, w, [id |-> m.id, result |-> "busy"])
           /\ UNCHANGED <<message, offset, remaining, promise, compounded, records>>
  <2>1. posted' \in [Writers -> Seq(Outcomes)]
    BY <1>6, <1>7, PostedTypes
  <2>. QED
    BY <1>5, <1>7, <2>1 DEF Typed, HandTypes, MessageTypes
<1>8. CASE Writer!Compound(w, m, 0, m.size)
  <2>1. m.size \in 0..MaxSize /\ 0 \in 0..MaxSize /\ 0 + m.size = m.size
    BY <1>4, SendPathAssumption DEF Messages
  <2>. QED
    BY <1>4, <1>5, <1>6, <1>8, <2>1, CompoundTypes
<1>. QED
  BY <1>1, <1>7, <1>8, Zenon DEF Writer!Stream

LEMMA TransportSendTypes ==
    ASSUME Typed, NEW w \in Writers, Writer!TransportSend(w)
    PROVE  HandTypes' /\ WriterTypes
<1>1. PICK frame : frame = compounded[w]
  OBVIOUS
<1>2. /\ ~Writer!Idle(w) /\ sendQueue' = Append(sendQueue, [writer |-> w, frame |-> frame])
      /\ compounded' = Writer!Set(compounded, w, Writer!NoFrame)
      /\ UNCHANGED <<calls, acks, records, posted>>
      /\ \/ Writer!Reset(w) /\ promise' = Writer!Set(promise, w, "null")
         \/ UNCHANGED <<message, offset, remaining, promise>>
  BY <1>1, Zenon DEF Writer!TransportSend
<1>3. frame \in Frames
  BY <1>1, <1>2 DEF Writer!Idle, Typed, HandTypes
<1>4. [writer |-> w, frame |-> frame] \in Entries
  BY <1>3 DEF Entries
<1>5. WriterTypes
  BY <1>2, <1>4 DEF WriterTypes, Typed, QueueTypes
<1>6. /\ compounded' \in [Writers -> Frames \cup {Writer!NoFrame}]
      /\ promise' \in [Writers -> {"null", "set"}]
  BY <1>2 DEF Typed, HandTypes, Writer!Set
<1>7. MessageTypes'
  <2>1. UNCHANGED <<message, offset, remaining>> => MessageTypes'
    BY DEF Typed, HandTypes, MessageTypes
  <2>. QED
    BY <1>2, <2>1, ResetTypes
<1>. QED
  BY <1>2, <1>5, <1>6, <1>7 DEF Typed, HandTypes

LEMMA AckedTypes ==
    ASSUME Typed, NEW w \in Writers, NEW ends, NEW result, Writer!Acked(w, ends, result)
    PROVE  WriterTypes /\ Head(acks[w]).frame \in Frames
<1>1. acks[w] # <<>> /\ acks' = [acks EXCEPT ![w] = Tail(@)] /\ UNCHANGED <<calls, sendQueue>>
  BY DEF Writer!Acked, Writer!Take
<1>2. acks[w] \in Seq(Acks)
  BY DEF Typed, QueueTypes
<1>3. Head(acks[w]) \in Acks /\ Tail(acks[w]) \in Seq(Acks)
  BY <1>1, <1>2, TakenTypes
<1>. QED
  BY <1>1, <1>3 DEF WriterTypes, Acks, Typed, QueueTypes

\* The frame that was sent is no more than what remained of its message, so
\* remainingSize_ does not go below zero (MessageOutStream.cpp:71-96).
LEMMA SplitFits ==
    ASSUME Typed, IInv, OrderInv, PiecesInv, NEW w \in Writers,
           Writer!Acked(w, FALSE, "resolved"), UNCHANGED <<wire, sent>>,
           NEW sz, sz = Head(acks[w]).frame.size
    PROVE  /\ message[w].id # 0
           /\ offset[w] + sz \in 0..MaxSize /\ remaining[w] - sz \in 0..MaxSize
           /\ offset[w] + sz + (remaining[w] - sz) = message[w].size
<1>1. PICK a : a = Head(acks[w])
  OBVIOUS
<1>2. PICK id0, frame : frame = a.frame /\ id0 = frame.id
  OBVIOUS
<1>4. /\ a.result = "resolved" /\ ~Writer!Ends(frame)
      /\ FrameBack(w, id0) /\ OneAckOf(acks[w], id0, a)
  BY <1>1, <1>2, CameBack
<1>5. /\ IsSequence(acks[w]) /\ acks[w] # <<>> /\ IsSequence(wire)
  BY DEF Writer!Acked, IInv, Shapes, OrderInv, OrderShapes
<1>6. LastIs(w, id0, frame) /\ Holds(w, id0, Count(w, id0) - 1)
  <2>1. PICK b : /\ OneAckOf(acks[w], id0, b)
                 /\ b.result = "resolved" =>
                       /\ LastIs(w, id0, b.frame)
                       /\ ~Writer!Ends(b.frame) => Holds(w, id0, Count(w, id0) - 1)
    BY <1>4 DEF FrameBack
  <2>2. b = a
    BY <1>1, <1>2, <1>5, <2>1, OfAckTaken
  <2>. QED
    BY <1>2, <1>4, <2>1, <2>2
<1>7. PICK i \in OnWire(w, id0) :
          wire[i].frame = frame /\ Count(w, id0) = Cardinality(Earlier(OnWire(w, id0), i)) + 1
  BY <1>5, <1>6, LastHasOthersBefore
<1>8. PICK k, size : k = Cardinality(Earlier(OnWire(w, id0), i)) /\ size = sent[w][id0].size
  OBVIOUS
<1>9. k \in Nat /\ Count(w, id0) - 1 = k
  <2>1. IsFiniteSet(OnWire(w, id0))
    BY <1>5, Places
  <2>2. IsFiniteSet(Earlier(OnWire(w, id0), i))
    BY <2>1, FS_Subset DEF Earlier
  <2>3. k \in Nat
    BY <1>8, <2>2, FS_CardinalityType
  <2>. QED
    BY <1>7, <1>8, <2>3
<1>10. Piece(size, k, frame)
  <2>1. i \in 1..Len(wire) /\ IsOf(wire[i], w, id0)
    BY <1>5, Places
  <2>. QED
    BY <1>7, <1>8, <2>1 DEF PiecesInv, WireInv, IsOf
<1>11. id0 \in 1..Len(sent[w]) /\ size \in Nat
  <2>1. id0 \in 1..Len(sent[w])
    BY <1>4 DEF FrameBack
  <2>2. PICK r : \E s \in Nat : sent[w][id0] = [size |-> s, promise |-> r]
    BY <2>1 DEF PiecesInv, PieceShapes
  <2>. QED
    BY <1>8, <2>1, <2>2
<1>12. /\ size >= MaxPayload /\ frame.size = MaxPayload
       /\ (k + 1) * MaxPayload = k * MaxPayload + MaxPayload /\ Begun(size, k + 1)
       /\ k * MaxPayload \in Nat /\ (k + 1) * MaxPayload \in Nat
  BY <1>4, <1>9, <1>10, <1>11, MoreToSend, Times
<1>13. /\ message[w].id = id0 /\ message[w].size = size /\ offset[w] = k * MaxPayload
       /\ remaining[w] = size - k * MaxPayload /\ sz = MaxPayload
  BY <1>1, <1>2, <1>6, <1>8, <1>9, <1>12 DEF Holds
<1>14. (k + 1) * MaxPayload <= size
  <2>1. k + 1 = 1 /\ size = MaxPayload => (k + 1) * MaxPayload = MaxPayload
    <3>1. k + 1 = 1 => (k + 1) * MaxPayload = 1 * MaxPayload
      OBVIOUS
    <3>. QED
      BY <3>1, SendPathAssumption
  <2>2. k + 1 # 0
    BY <1>9
  <2>. QED
    BY <1>11, <1>12, <2>1, <2>2, SendPathAssumption DEF Begun
<1>15. size \in 0..MaxSize
  <2>1. message[w] \in Messages
    BY DEF Typed, HandTypes, MessageTypes
  <2>. QED
    BY <1>13, <2>1 DEF Messages
<1>16. PICK p, P : p = k * MaxPayload /\ P = MaxPayload
  OBVIOUS
<1>17. /\ offset[w] = p /\ remaining[w] = size - p /\ sz = P /\ p \in Nat /\ P \in Nat
       /\ p + P <= size
  BY <1>12, <1>13, <1>14, <1>16, SendPathAssumption
<1>. QED
  BY <1>11, <1>13, <1>15, <1>17, SendPathAssumption

LEMMA SplitTypes ==
    ASSUME Typed, IInv, OrderInv, PiecesInv, NEW w \in Writers,
           Writer!StreamSplittedMessage(w), UNCHANGED <<wire, sent>>
    PROVE  HandTypes' /\ WriterTypes
<1>1. PICK sz : sz = Head(acks[w]).frame.size
  OBVIOUS
<1>2. PICK off, rest : off = offset[w] + sz /\ rest = remaining[w] - sz
  OBVIOUS
<1>3. /\ Writer!Acked(w, FALSE, "resolved")
      /\ Writer!Compound(w, message[w], off, rest)
  BY <1>1, <1>2, Zenon DEF Writer!StreamSplittedMessage
<1>4. /\ message[w].id # 0 /\ off \in 0..MaxSize /\ rest \in 0..MaxSize
      /\ off + rest = message[w].size
  BY <1>1, <1>2, <1>3, SplitFits
<1>5. message[w] \in Messages
  BY DEF Typed, HandTypes, MessageTypes
<1>. QED
  BY <1>3, <1>4, <1>5, AckedTypes, CompoundTypes

LEMMA SplitFailsTypes ==
    ASSUME Typed, NEW w \in Writers, Writer!SplitFails(w)
    PROVE  HandTypes' /\ WriterTypes
<1>1. /\ Writer!Acked(w, FALSE, "rejected") /\ Writer!Reset(w)
      /\ Writer!Reject(w, Head(acks[w]).frame.id) /\ UNCHANGED <<compounded, records>>
  BY DEF Writer!SplitFails
<1>2. WriterTypes /\ Head(acks[w]).frame \in Frames
  BY <1>1, AckedTypes
<1>3. Head(acks[w]).frame.id \in 1..MaxMessages
  BY <1>2 DEF Frames
<1>. QED
  BY <1>1, <1>2, <1>3, RejectedTypes

LEMMA ForwardTypes ==
    ASSUME Typed, NEW w \in Writers, Writer!Forward(w)
    PROVE  HandTypes' /\ WriterTypes
<1>1. PICK result \in {"resolved", "rejected"} :
         /\ Writer!Acked(w, TRUE, result)
         /\ posted' = Writer!Put(posted, w,
                         [id |-> Head(acks[w]).frame.id, result |-> result])
         /\ UNCHANGED <<message, offset, remaining, promise, compounded, records>>
  BY DEF Writer!Forward
<1>2. WriterTypes /\ Head(acks[w]).frame \in Frames
  BY <1>1, AckedTypes
<1>3. Head(acks[w]).frame.id \in 1..MaxMessages
  BY <1>2 DEF Frames
<1>4. posted' \in [Writers -> Seq(Outcomes)]
  BY <1>1, <1>3, PostedTypes
<1>. QED
  BY <1>1, <1>2, <1>4 DEF Typed, HandTypes, MessageTypes

LEMMA WriterStepTypes ==
    ASSUME Typed, IInv, OrderInv, PiecesInv, NEW w \in Writers, WriterStep(w)
    PROVE  Typed'
<1>1. HandTypes' /\ WriterTypes
  BY StreamTypes, TransportSendTypes, SplitTypes, SplitFailsTypes, ForwardTypes
     DEF WriterStep, Writer!Next
<1>. QED
  BY <1>1 DEF WriterStep, WriterTypes, Typed, QueueTypes

\* The steps of the messenger, the handlers and the transport: a message asked for
\* gets a number within the bound.
LEMMA AskTypes ==
    ASSUME Typed, NEW w \in Writers, NEW size \in 1..MaxSize, NEW encrypted \in BOOLEAN,
           Ask(w, size)
    PROVE  /\ NewMessage(w, size, encrypted) \in Messages
           /\ sent' \in [Writers -> Seq([size : 1..MaxSize, promise : Promises])]
           /\ \A v \in Writers : Len(sent'[v]) <= MaxMessages
<1>. DEFINE Sent == [size : 1..MaxSize, promise : Promises]
            new == [size |-> size, promise |-> "waiting"]
<1>1. /\ sent \in [Writers -> Seq(Sent)] /\ sent' = [sent EXCEPT ![w] = Append(@, new)]
      /\ new \in Sent
  BY DEF Typed, QueueTypes, Ask, Promises
<1>. HIDE DEF Sent, new
<1>2. sent[w] \in Seq(Sent) /\ Append(sent[w], new) \in Seq(Sent)
      /\ Len(Append(sent[w], new)) = Len(sent[w]) + 1 /\ Len(sent[w]) \in Nat
  BY <1>1
<1>3. sent' \in [Writers -> Seq(Sent)] /\ sent'[w] = Append(sent[w], new)
  BY <1>1, <1>2
<1>4. \A v \in Writers : Len(sent'[v]) <= MaxMessages
  <2>1. PICK load \in Loads : Within(load)
    BY DEF Ask
  <2>2. ASSUME NEW v \in Writers PROVE Len(sent'[v]) <= MaxMessages
    <3>1. Len(sent'[v]) <= load.count[v]
      BY <2>1 DEF Within
    <3>2. load.count[v] \in 0..MaxMessages
      BY <2>1, SendPathAssumption
    <3>3. Len(sent'[v]) \in Nat
      BY <1>3
    <3>. QED
      BY <3>1, <3>2, <3>3, SendPathAssumption
  <2>. QED
    BY <2>2
<1>5. Len(sent[w]) + 1 \in 0..MaxMessages
  BY <1>2, <1>3, <1>4, SendPathAssumption
<1>6. NewMessage(w, size, encrypted) \in Messages
  BY <1>5, SendPathAssumption DEF NewMessage, Messages
<1>. QED
  BY <1>3, <1>4, <1>6 DEF Sent

LEMMA QuietHand ==
    ASSUME Typed, framesUnchanged, posted' \in [Writers -> Seq(Outcomes)]
    PROVE  HandTypes' /\ acks' \in [Writers -> Seq(Acks)] /\ sendQueue' \in Seq(Entries)
BY DEF Typed, HandTypes, MessageTypes, QueueTypes, framesUnchanged

LEMMA EnqueueSendTypes ==
    ASSUME Typed, NEW size \in 1..MaxSize, NEW encrypted \in BOOLEAN,
           EnqueueSend(size, encrypted)
    PROVE  Typed'
<1>1. PICK m : m = NewMessage("messenger", size, encrypted)
  OBVIOUS
<1>2. <<m>> # <<>> /\ Head(<<m>>) = m
  OBVIOUS
<1>3. /\ "messenger" \in Writers /\ Ask("messenger", size) /\ framesUnchanged
      /\ channelSendPromiseQueue' = Append(channelSendPromiseQueue, m)
      /\ \/ calls' = calls
         \/ calls' = [calls EXCEPT !["messenger"] = Append(@, m)]
      /\ UNCHANGED <<posted, wire>>
  BY <1>1, <1>2 DEF EnqueueSend, DoSend
<1>4. /\ m \in Messages
      /\ sent' \in [Writers -> Seq([size : 1..MaxSize, promise : Promises])]
      /\ \A v \in Writers : Len(sent'[v]) <= MaxMessages
  BY <1>1, <1>3, AskTypes
<1>5. calls' \in [Writers -> Seq(Messages)] /\ channelSendPromiseQueue' \in Seq(Messages)
  <2>1. calls \in [Writers -> Seq(Messages)] /\ channelSendPromiseQueue \in Seq(Messages)
    BY DEF Typed, QueueTypes
  <2>2. Append(channelSendPromiseQueue, m) \in Seq(Messages)
    BY <1>4, <2>1
  <2>3. [calls EXCEPT !["messenger"] = Append(@, m)] \in [Writers -> Seq(Messages)]
    BY <1>3, <1>4, <2>1, PutTypes
  <2>. QED
    BY <1>3, <2>1, <2>2, <2>3
<1>6. posted' \in [Writers -> Seq(Outcomes)] /\ wire' \in Seq(Entries)
  BY <1>3 DEF Typed, HandTypes, QueueTypes
<1>. QED
  BY <1>3, <1>4, <1>5, <1>6, QuietHand DEF Typed, QueueTypes

LEMMA DispatchTypes ==
    ASSUME Typed, NEW size \in 1..MaxSize, NEW encrypted \in BOOLEAN,
           Dispatch(size, encrypted)
    PROVE  Typed'
<1>1. PICK m : m = NewMessage("sender", size, encrypted)
  OBVIOUS
<1>2. /\ "sender" \in Writers /\ Ask("sender", size) /\ framesUnchanged
      /\ calls' = [calls EXCEPT !["sender"] = Append(@, m)]
      /\ UNCHANGED <<posted, channelSendPromiseQueue, wire>>
  BY <1>1 DEF Dispatch
<1>3. /\ m \in Messages
      /\ sent' \in [Writers -> Seq([size : 1..MaxSize, promise : Promises])]
      /\ \A v \in Writers : Len(sent'[v]) <= MaxMessages
  BY <1>1, <1>2, AskTypes
<1>4. calls' \in [Writers -> Seq(Messages)] /\ channelSendPromiseQueue' \in Seq(Messages)
  BY <1>2, <1>3 DEF Typed, QueueTypes
<1>5. posted' \in [Writers -> Seq(Outcomes)] /\ wire' \in Seq(Entries)
  BY <1>2 DEF Typed, HandTypes, QueueTypes
<1>. QED
  BY <1>2, <1>3, <1>4, <1>5, QuietHand DEF Typed, QueueTypes

\* A message is settled: its size and the number of messages stay.
LEMMA SettledTypes ==
    ASSUME Typed, NEW w \in Writers, NEW map, sent' = [sent EXCEPT ![w] = map],
           map \in [DOMAIN sent[w] -> [size : 1..MaxSize, promise : Promises]]
    PROVE  /\ sent' \in [Writers -> Seq([size : 1..MaxSize, promise : Promises])]
           /\ \A v \in Writers : Len(sent'[v]) <= MaxMessages
<1>. DEFINE Sent == [size : 1..MaxSize, promise : Promises]
<1>1. sent \in [Writers -> Seq(Sent)] /\ \A v \in Writers : Len(sent[v]) <= MaxMessages
  BY DEF Typed, QueueTypes
<1>2. map \in [DOMAIN sent[w] -> Sent]
  OBVIOUS
<1>. HIDE DEF Sent
<1>3. Len(sent[w]) \in Nat /\ DOMAIN sent[w] = 1..Len(sent[w])
  BY <1>1
<1>4. map \in UNION {[1..m -> Sent] : m \in Nat}
  BY <1>2, <1>3
<1>5. map \in Seq(Sent)
  BY <1>4, SeqDef, Zenon
<1>6. DOMAIN map = 1..Len(map) /\ Len(map) \in Nat /\ DOMAIN map = 1..Len(sent[w])
  BY <1>2, <1>3, <1>5, LenProperties, Zenon
<1>7. Len(map) = Len(sent[w])
  BY <1>3, <1>6
<1>8. sent' \in [Writers -> Seq(Sent)]
  BY <1>1, <1>5
<1>9. \A v \in Writers : Len(sent'[v]) <= MaxMessages
  BY <1>1, <1>7
<1>. QED
  BY <1>8, <1>9 DEF Sent

LEMMA SettleTypes ==
    ASSUME Typed, NEW w \in Writers, NEW id, NEW result \in Promises, Settle(w, id, result)
    PROVE  /\ sent' \in [Writers -> Seq([size : 1..MaxSize, promise : Promises])]
           /\ \A v \in Writers : Len(sent'[v]) <= MaxMessages
<1>. DEFINE map == [sent[w] EXCEPT ![id].promise = result]
            Sent == [size : 1..MaxSize, promise : Promises]
<1>1. sent' = [sent EXCEPT ![w] = map]
  BY DEF Settle
<1>2. sent[w] \in Seq(Sent)
  BY DEF Typed, QueueTypes
<1>3. sent[w] \in [DOMAIN sent[w] -> Sent]
  BY <1>2, LenProperties, ElementOfSeq
<1>4. map \in [DOMAIN sent[w] -> Sent]
  BY <1>3
<1>. HIDE DEF map
<1>. QED
  BY <1>1, <1>4, SettledTypes

LEMMA RemovedTypes ==
    ASSUME NEW S, NEW seq \in Seq(S), NEW i \in DOMAIN seq
    PROVE  RemoveAt(seq, i) \in Seq(S)
<1>1. /\ Len(seq) \in Nat /\ i \in 1..Len(seq) /\ \A k \in 1..Len(seq) : seq[k] \in S
  OBVIOUS
<1>2. /\ 1 \in Int /\ i - 1 \in Int /\ i + 1 \in Int /\ Len(seq) \in Int
      /\ \A k \in 1..i - 1 : seq[k] \in S
      /\ \A k \in i + 1..Len(seq) : seq[k] \in S
  BY <1>1
<1>3. SubSeq(seq, 1, i - 1) \in Seq(S) /\ SubSeq(seq, i + 1, Len(seq)) \in Seq(S)
  BY <1>2, SubSeqProperties, SMT
<1>. QED
  BY <1>3, ConcatProperties DEF RemoveAt

\* What the caller is told of a message.
LEMMA ToldTypes ==
    ASSUME Typed, NEW w \in Writers, posted[w] # <<>>,
           posted' = [posted EXCEPT ![w] = Tail(@)]
    PROVE  /\ posted' \in [Writers -> Seq(Outcomes)]
           /\ Head(posted[w]).result \in Promises
<1>1. posted[w] \in Seq(Outcomes)
  BY DEF Typed, HandTypes
<1>2. Head(posted[w]) \in Outcomes /\ Tail(posted[w]) \in Seq(Outcomes)
  BY <1>1, TakenTypes
<1>. QED
  BY <1>2 DEF Typed, HandTypes, Outcomes, Promises

LEMMA HandlerTypes ==
    ASSUME Typed, OutStreamMessageHandler
    PROVE  Typed'
<1>1. PICK id : id = Head(posted["messenger"]).id
  OBVIOUS
<1>2. /\ "messenger" \in Writers /\ posted["messenger"] # <<>>
      /\ posted' = [posted EXCEPT !["messenger"] = Tail(@)]
      /\ Settle("messenger", id, "resolved") /\ Erase(id)
      /\ DoSend(channelSendPromiseQueue') /\ framesUnchanged /\ UNCHANGED wire
  BY <1>1 DEF OutStreamMessageHandler, Outcome
<1>3. "resolved" \in Promises
  BY DEF Promises
<1>4. /\ sent' \in [Writers -> Seq([size : 1..MaxSize, promise : Promises])]
      /\ \A v \in Writers : Len(sent'[v]) <= MaxMessages
  BY <1>2, <1>3, SettleTypes
<1>5. channelSendPromiseQueue' \in Seq(Messages)
  <2>1. PICK i \in DOMAIN channelSendPromiseQueue :
            channelSendPromiseQueue' = RemoveAt(channelSendPromiseQueue, i)
    BY <1>2 DEF Erase
  <2>2. channelSendPromiseQueue \in Seq(Messages)
    BY DEF Typed, QueueTypes
  <2>. QED
    BY <2>1, <2>2, RemovedTypes
<1>6. calls' \in [Writers -> Seq(Messages)]
  <2>1. CASE calls' = calls
    BY <2>1 DEF Typed, QueueTypes
  <2>2. CASE /\ channelSendPromiseQueue' # <<>>
             /\ calls' = [calls EXCEPT !["messenger"] =
                             Append(@, Head(channelSendPromiseQueue'))]
    <3>1. Head(channelSendPromiseQueue') \in Messages
      BY <1>5, <2>2, TakenTypes
    <3>. QED
      BY <1>2, <2>2, <3>1 DEF Typed, QueueTypes
  <2>. QED
    BY <1>2, <2>1, <2>2 DEF DoSend
<1>7. posted' \in [Writers -> Seq(Outcomes)]
  BY <1>2, ToldTypes
<1>. QED
  BY <1>2, <1>4, <1>5, <1>6, <1>7, QuietHand DEF Typed, QueueTypes

LEMMA RejectQueueTypes ==
    ASSUME Typed, RejectSendPromiseQueue
    PROVE  Typed'
<1>. DEFINE w == "messenger"
            map == [id \in DOMAIN sent[w] |->
                      IF sent[w][id].promise = "waiting"
                      THEN [sent[w][id] EXCEPT !.promise = "rejected"] ELSE sent[w][id]]
            Sent == [size : 1..MaxSize, promise : Promises]
<1>1. /\ w \in Writers /\ posted[w] # <<>>
      /\ posted' = [posted EXCEPT ![w] = Tail(@)]
      /\ channelSendPromiseQueue' = <<>> /\ sent' = [sent EXCEPT ![w] = map]
      /\ framesUnchanged /\ UNCHANGED <<calls, wire>>
  BY DEF RejectSendPromiseQueue, Outcome
<1>2. sent[w] \in Seq(Sent)
  BY <1>1 DEF Typed, QueueTypes
<1>3. sent[w] \in [DOMAIN sent[w] -> Sent]
  BY <1>2, LenProperties, ElementOfSeq
<1>4. map \in [DOMAIN sent[w] -> Sent]
  BY <1>3 DEF Promises
<1>. HIDE DEF map
<1>5. /\ sent' \in [Writers -> Seq([size : 1..MaxSize, promise : Promises])]
      /\ \A v \in Writers : Len(sent'[v]) <= MaxMessages
  BY <1>1, <1>4, SettledTypes
<1>6. posted' \in [Writers -> Seq(Outcomes)]
  BY <1>1, ToldTypes
<1>7. <<>> \in Seq(Messages)
  OBVIOUS
<1>. QED
  BY <1>1, <1>5, <1>6, <1>7, QuietHand DEF Typed, QueueTypes

LEMMA LogTypes ==
    ASSUME Typed, LogOutcome
    PROVE  Typed'
<1>1. PICK id, result : id = Head(posted["sender"]).id /\ result = Head(posted["sender"]).result
  OBVIOUS
<1>2. /\ "sender" \in Writers /\ posted["sender"] # <<>>
      /\ posted' = [posted EXCEPT !["sender"] = Tail(@)]
      /\ Settle("sender", id, result) /\ framesUnchanged
      /\ UNCHANGED <<calls, channelSendPromiseQueue, wire>>
  BY <1>1 DEF LogOutcome
<1>3. posted' \in [Writers -> Seq(Outcomes)] /\ result \in Promises
  BY <1>1, <1>2, ToldTypes
<1>4. /\ sent' \in [Writers -> Seq([size : 1..MaxSize, promise : Promises])]
      /\ \A v \in Writers : Len(sent'[v]) <= MaxMessages
  BY <1>2, <1>3, SettleTypes
<1>. QED
  BY <1>2, <1>3, <1>4, QuietHand DEF Typed, QueueTypes

LEMMA TransportSendsTypes ==
    ASSUME Typed, NEW result \in {"resolved", "rejected"}, TransportSends(result)
    PROVE  Typed'
<1>1. PICK first : first = Head(sendQueue)
  OBVIOUS
<1>2. /\ sendQueue # <<>> /\ sendQueue' = Tail(sendQueue)
      /\ wire' = Append(wire, first) \/ wire' = wire
      /\ acks' = [acks EXCEPT ![first.writer] =
                     Append(@, [frame |-> first.frame, result |-> result])]
      /\ UNCHANGED <<calls, message, offset, remaining, promise, compounded,
                     records, posted, channelSendPromiseQueue, sent>>
  BY <1>1 DEF TransportSends
<1>3. sendQueue \in Seq(Entries)
  BY DEF Typed, QueueTypes
<1>4. first \in Entries /\ sendQueue' \in Seq(Entries)
  BY <1>1, <1>2, <1>3, TakenTypes
<1>5. first.writer \in Writers /\ [frame |-> first.frame, result |-> result] \in Acks
  BY <1>4 DEF Entries, Acks
<1>6. acks' \in [Writers -> Seq(Acks)] /\ wire' \in Seq(Entries)
  <2>1. acks \in [Writers -> Seq(Acks)] /\ wire \in Seq(Entries)
    BY DEF Typed, QueueTypes
  <2>2. Append(wire, first) \in Seq(Entries)
    BY <1>4, <2>1
  <2>3. acks' \in [Writers -> Seq(Acks)]
    BY <1>2, <1>5, <2>1, PutTypes
  <2>. QED
    BY <1>2, <2>1, <2>2, <2>3
<1>. QED
  BY <1>2, <1>4, <1>6 DEF Typed, HandTypes, MessageTypes, QueueTypes

LEMMA InitTypes == ASSUME Init PROVE Typed
<1>1. /\ <<>> \in Seq(Messages) /\ <<>> \in Seq(Acks) /\ <<>> \in Seq(Entries)
      /\ <<>> \in Seq(Outcomes) /\ <<>> \in Seq([size : 1..MaxSize, promise : Promises])
      /\ Len(<<>>) = 0 /\ 0 <= MaxMessages
  BY SendPathAssumption
<1>2. MessageTypes
  BY NothingInHand DEF Init, Writer!Init, MessageTypes
<1>3. HandTypes
  BY <1>1, <1>2 DEF Init, Writer!Init, HandTypes
<1>4. QueueTypes
  BY <1>1 DEF Init, Writer!Init, QueueTypes
<1>. QED
  BY <1>3, <1>4 DEF Typed

LEMMA NextTypes ==
    ASSUME Typed, IInv, OrderInv, PiecesInv, [Next]_vars
    PROVE  Typed'
<1>1. ASSUME NEW size \in 1..MaxSize, NEW encrypted \in BOOLEAN,
             EnqueueSend(size, encrypted) \/ Dispatch(size, encrypted)
      PROVE  Typed'
  BY <1>1, EnqueueSendTypes, DispatchTypes
<1>2. CASE OutStreamMessageHandler
  BY <1>2, HandlerTypes
<1>3. CASE RejectSendPromiseQueue
  BY <1>3, RejectQueueTypes
<1>4. CASE LogOutcome
  BY <1>4, LogTypes
<1>5. ASSUME NEW result \in {"resolved", "rejected"}, TransportSends(result) PROVE Typed'
  BY <1>5, TransportSendsTypes
<1>6. ASSUME NEW w \in Writers, WriterStep(w) PROVE Typed'
  BY <1>6, WriterStepTypes
<1>7. CASE UNCHANGED vars
  BY <1>7 DEF vars, Typed, HandTypes, MessageTypes, QueueTypes
<1>. QED
  BY <1>1, <1>2, <1>3, <1>4, <1>5, <1>6, <1>7 DEF Next

(***************************************************************************)
(* The members of the writers and of the messenger keep their types.  The  *)
(* hard part is a writer's own: what is done of its message and what       *)
(* remains add up to the size of it, so remainingSize_, which is unsigned, *)
(* never goes below zero (MessageOutStream.cpp:71-96).                     *)
(***************************************************************************)
THEOREM TypeCorrect == Spec => []TypeOK
<1>1. Init => Typed /\ IInv /\ OrderInv /\ IteratorInv /\ PiecesInv
  BY InitTypes, InitInv, OrderInit, IteratorInit, PiecesInit
<1>2. Typed /\ IInv /\ OrderInv /\ IteratorInv /\ PiecesInv /\ [Next]_vars
        => Typed' /\ IInv' /\ OrderInv' /\ IteratorInv' /\ PiecesInv'
  BY NextTypes, NextInv, NextOrder, NextIterator, NextPieces
<1>3. Typed => TypeOK
  BY DEF Typed, HandTypes, MessageTypes, QueueTypes, TypeOK
<1>. QED
  BY <1>1, <1>2, <1>3, PTL DEF Spec
=============================================================================
