----------------------------- MODULE TransportSend -----------------------------
(***************************************************************************)
(* The send side of the transport: Transport::send and the enqueueSend,    *)
(* doSend and sendHandler of USBTransport.cpp and TCPTransport.cpp.        *)
(*                                                                         *)
(* The elements wait in sendQueue_ and one transfer at a time works for    *)
(* the first.  A USB transfer may move a part, and the rest is sent from   *)
(* there; a TCP one moves all or fails.  Every handler runs on sendStrand_ *)
(* and is one action.  stop() makes the transfer in progress fail.         *)
(*                                                                         *)
(* An element is its number and its length; its bytes are numbered.        *)
(***************************************************************************)
EXTENDS Naturals, Sequences

CONSTANTS
    MaxLength,    \* bound: bytes of an element
    MaxElements   \* bound: elements sent

ASSUME TransportSendAssumption ==
    /\ MaxLength \in Nat \ {0}
    /\ MaxElements \in Nat

VARIABLES
    usb,         \* the endpoint of the session: USB, or a TCP socket
    sendQueue,   \* sendQueue_
    offset,      \* bytes of its first element that earlier transfers moved
    transfer,    \* "idle", "pending", or the result posted: "done", "failed"
    moved,       \* bytes the transfer moved
    out,         \* the bytes written to the device, in order
    sent         \* history: length and promise of each element sent

sendVars == <<usb, sendQueue, offset, transfer, moved, out, sent>>

Piece(e, first, n) == [i \in 1..n |-> [id |-> e.id, no |-> first + i]]

\* enqueueSend of the first element of a queue, or nothing to do.
EnqueueSend(queue) ==
    /\ sendQueue' = queue
    /\ offset' = 0
    /\ transfer' = IF queue = <<>> THEN "idle" ELSE "pending"

-----------------------------------------------------------------------------
Send(len) ==
    LET element == [id |-> Len(sent) + 1, len |-> len]
    IN  /\ Len(sent) < MaxElements
        /\ sent' = Append(sent, [len |-> len, promise |-> "waiting"])
        /\ \/ /\ sendQueue = <<>>
              /\ EnqueueSend(<<element>>)
           \/ /\ sendQueue # <<>>
              /\ sendQueue' = Append(sendQueue, element)
              /\ UNCHANGED <<offset, transfer>>
        /\ UNCHANGED <<usb, moved, out>>

\* The endpoint ends the transfer after n bytes.
TransferEnds(n, result) ==
    /\ transfer = "pending"
    /\ n <= Head(sendQueue).len - offset
    /\ (result = "done" /\ ~usb) => n = Head(sendQueue).len - offset
    /\ transfer' = result
    /\ moved' = n
    /\ out' = out \o Piece(Head(sendQueue), offset, n)
    /\ UNCHANGED <<usb, sendQueue, offset, sent>>

\* The promise of the first element, and the next one's turn.
Finish(result) ==
    /\ sent' = [sent EXCEPT ![Head(sendQueue).id].promise = result]
    /\ EnqueueSend(Tail(sendQueue))

\* Mutant: the rest is sent from the length of the last transfer.
SendHandlerForgetsOffset ==
    /\ transfer = "done"
    /\ \/ /\ offset + moved < Head(sendQueue).len
          /\ offset' = moved
          /\ transfer' = "pending"
          /\ UNCHANGED <<sendQueue, sent>>
       \/ /\ offset + moved >= Head(sendQueue).len
          /\ Finish("resolved")
    /\ UNCHANGED <<usb, moved, out>>

SendHandler ==
    /\ transfer = "done"
    /\ \/ /\ offset + moved < Head(sendQueue).len
          /\ offset' = offset + moved
          /\ transfer' = "pending"
          /\ UNCHANGED <<sendQueue, sent>>
       \/ /\ offset + moved >= Head(sendQueue).len
          /\ Finish("resolved")
    /\ UNCHANGED <<usb, moved, out>>

\* Mutant: the elements behind a failed one are not taken up.
SendFailsAndStops ==
    /\ transfer = "failed"
    /\ sent' = [sent EXCEPT ![Head(sendQueue).id].promise = "rejected"]
    /\ sendQueue' = Tail(sendQueue)
    /\ offset' = 0
    /\ transfer' = "idle"
    /\ UNCHANGED <<usb, moved, out>>

SendFails ==
    /\ transfer = "failed"
    /\ Finish("rejected")
    /\ UNCHANGED <<usb, moved, out>>

-----------------------------------------------------------------------------
SendInit ==
    /\ usb \in BOOLEAN
    /\ sendQueue = <<>>
    /\ offset = 0
    /\ transfer = "idle"
    /\ moved = 0
    /\ out = <<>>
    /\ sent = <<>>

SendNext ==
    \/ \E len \in 1..MaxLength : Send(len)
    \/ \E n \in 0..MaxLength, result \in {"done", "failed"} : TransferEnds(n, result)
    \/ SendHandler
    \/ SendFails

SendSpec == SendInit /\ [][SendNext]_sendVars

\* The device goes on taking bytes or fails, and the strand runs what is posted.
SendFairness ==
    /\ SF_sendVars(\E n \in 0..MaxLength, result \in {"done", "failed"} :
                 (n > 0 \/ result = "failed") /\ TransferEnds(n, result))
    /\ WF_sendVars(SendHandler \/ SendFails)

-----------------------------------------------------------------------------
Elements == [id : 1..MaxElements, len : 1..MaxLength]

\* Type invariant of sendQueue_ and of the bound arguments of its transfer
\* (Transport.hpp:60);
\* offset stays below the length of an element: no transfer is asked for nothing.
SendTypeOK ==
    /\ usb \in BOOLEAN
    /\ sendQueue \in Seq(Elements)
    /\ offset \in 0..MaxLength - 1
    /\ transfer \in {"idle", "pending", "done", "failed"}
    /\ moved \in 0..MaxLength
    /\ out \in Seq([id : 1..MaxElements, no : 1..MaxLength])
    /\ sent \in Seq([len : 1..MaxLength,
                   promise : {"waiting", "resolved", "rejected"}])

(***************************************************************************)
(* The device is given the elements in the order of the send calls and     *)
(* none inside another, each of them from its first byte on without a gap  *)
(* or a repetition, whatever parts the transfers move and whichever fail   *)
(* (USBTransport.cpp:43-74, TCPTransport.cpp:41-70).                       *)
(***************************************************************************)
ElementsInOrder ==
    \A i \in 1..Len(out) :
        IF i > 1 /\ out[i - 1].id = out[i].id
        THEN out[i].no = out[i - 1].no + 1
        ELSE out[i].no = 1 /\ (i > 1 => out[i - 1].id < out[i].id)

(***************************************************************************)
(* Every promise is resolved or rejected in the end: an element never      *)
(* waits behind one that failed (Transport.cpp:86-95,                      *)
(* USBTransport.cpp:49-74).                                                *)
(***************************************************************************)
EventuallySettled ==
    \A id \in 1..MaxElements :
        Len(sent) >= id ~> (Len(sent) >= id /\ sent[id].promise # "waiting")
=============================================================================
