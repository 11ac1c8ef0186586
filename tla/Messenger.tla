------------------------------ MODULE Messenger ------------------------------
(***************************************************************************)
(* The receive side of the messenger (Messenger/Messenger.cpp): it shares  *)
(* one MessageInStream between the channels.  A channel that wants a       *)
(* message queues a promise; messages that nobody waits for are queued.    *)
(* All of it runs on receiveStrand_, so each handler is one action.        *)
(*                                                                         *)
(* The promises of a channel are alike, so their queue is a count.  A      *)
(* resolved promise posts the channel's handler, which calls               *)
(* enqueueReceive for the next message: EnqueueReceive stands for both, at *)
(* the moment the second runs on receiveStrand_.  A rejected promise ends  *)
(* the channel, as onChannelError does.                                    *)
(***************************************************************************)
EXTENDS Naturals, Sequences

CONSTANTS
    Channels,      \* the channel ids in use
    Receivers,     \* those with a service channel that receives
    MaxPromises    \* promises a service channel keeps outstanding

VARIABLES
    promiseQueue,    \* channelReceivePromiseQueue_: promises waiting, per channel
    messageQueue,    \* channelReceiveMessageQueue_: messages waiting, per channel
    closed,          \* channels whose promise was rejected
    stopped,         \* stop() has run
    starts,          \* startReceive calls made, not yet run by the in stream
    posted,          \* outcomes the in stream posted on receiveStrand_
    got              \* history: number of the last message seen, per channel

queueVars == <<promiseQueue, messageQueue>>

Number(m) == m.parts[Len(m.parts)].msg
Error == [ch |-> "error", parts |-> <<>>]

\* ChannelReceivePromiseQueue::size: the channels with a promise, not the promises.
Waiting(queue) == {c \in Channels : queue[c] > 0}

-----------------------------------------------------------------------------
\* Mutant: the promise is queued without a look at the queued messages.
EnqueueReceiveWithoutLooking(c) ==
    /\ c \in Receivers \ closed
    /\ promiseQueue[c] < MaxPromises
    /\ promiseQueue' = [promiseQueue EXCEPT ![c] = @ + 1]
    /\ starts' = IF Waiting(promiseQueue') = {c} THEN starts + 1 ELSE starts
    /\ UNCHANGED <<messageQueue, got, closed, stopped, posted>>

\* Mutant: the newest queued message is taken first.
EnqueueReceiveNewest(c) ==
    /\ c \in Receivers \ closed
    /\ promiseQueue[c] < MaxPromises
    /\ \/ /\ messageQueue[c] # <<>>
          /\ got' = [got EXCEPT ![c] = Number(messageQueue[c][Len(messageQueue[c])])]
          /\ messageQueue' = [messageQueue EXCEPT ![c] = SubSeq(@, 1, Len(@) - 1)]
          /\ UNCHANGED <<promiseQueue, starts>>
       \/ /\ messageQueue[c] = <<>>
          /\ promiseQueue' = [promiseQueue EXCEPT ![c] = @ + 1]
          /\ starts' = IF Waiting(promiseQueue') = {c} THEN starts + 1 ELSE starts
          /\ UNCHANGED <<messageQueue, got>>
    /\ UNCHANGED <<closed, stopped, posted>>

EnqueueReceive(c) ==
    /\ c \in Receivers \ closed
    /\ promiseQueue[c] < MaxPromises
    /\ \/ /\ messageQueue[c] # <<>>
          /\ got' = [got EXCEPT ![c] = Number(Head(messageQueue[c]))]
          /\ messageQueue' = [messageQueue EXCEPT ![c] = Tail(@)]
          /\ UNCHANGED <<promiseQueue, starts>>
       \/ /\ messageQueue[c] = <<>>
          /\ promiseQueue' = [promiseQueue EXCEPT ![c] = @ + 1]
          /\ starts' = IF Waiting(promiseQueue') = {c} THEN starts + 1 ELSE starts
          /\ UNCHANGED <<messageQueue, got>>
    /\ UNCHANGED <<closed, stopped, posted>>

\* Mutant: the queue of promises is looked at before the promise is taken.
HandlerRestartsTooSoon ==
    /\ posted # <<>>
    /\ Head(posted) # Error
    /\ LET m == Head(posted)
       IN  \/ /\ promiseQueue[m.ch] > 0
              /\ promiseQueue' = [promiseQueue EXCEPT ![m.ch] = @ - 1]
              /\ got' = [got EXCEPT ![m.ch] = Number(m)]
              /\ UNCHANGED messageQueue
           \/ /\ promiseQueue[m.ch] = 0
              /\ messageQueue' = [messageQueue EXCEPT ![m.ch] = Append(@, m)]
              /\ UNCHANGED <<promiseQueue, got>>
    /\ starts' = IF Waiting(promiseQueue) # {} THEN starts + 1 ELSE starts
    /\ posted' = Tail(posted)
    /\ UNCHANGED <<closed, stopped>>

\* Mutant: the receive is restarted only after a message somebody waited for.
HandlerRestartsWhenTaken ==
    /\ posted # <<>>
    /\ Head(posted) # Error
    /\ LET m == Head(posted)
       IN  \/ /\ promiseQueue[m.ch] > 0
              /\ promiseQueue' = [promiseQueue EXCEPT ![m.ch] = @ - 1]
              /\ got' = [got EXCEPT ![m.ch] = Number(m)]
              /\ starts' = IF Waiting(promiseQueue') # {} THEN starts + 1 ELSE starts
              /\ UNCHANGED messageQueue
           \/ /\ promiseQueue[m.ch] = 0
              /\ messageQueue' = [messageQueue EXCEPT ![m.ch] = Append(@, m)]
              /\ UNCHANGED <<promiseQueue, got, starts>>
    /\ posted' = Tail(posted)
    /\ UNCHANGED <<closed, stopped>>

InStreamMessageHandler ==
    /\ posted # <<>>
    /\ Head(posted) # Error
    /\ LET m == Head(posted)
       IN  \/ /\ promiseQueue[m.ch] > 0
              /\ promiseQueue' = [promiseQueue EXCEPT ![m.ch] = @ - 1]
              /\ got' = [got EXCEPT ![m.ch] = Number(m)]
              /\ UNCHANGED messageQueue
           \/ /\ promiseQueue[m.ch] = 0
              /\ messageQueue' = [messageQueue EXCEPT ![m.ch] = Append(@, m)]
              /\ UNCHANGED <<promiseQueue, got>>
    /\ starts' = IF Waiting(promiseQueue') # {} THEN starts + 1 ELSE starts
    /\ posted' = Tail(posted)
    /\ UNCHANGED <<closed, stopped>>

RejectReceivePromiseQueue ==
    /\ posted # <<>>
    /\ Head(posted) = Error
    /\ posted' = Tail(posted)
    /\ closed' = closed \cup Waiting(promiseQueue)
    /\ promiseQueue' = [c \in Channels |-> 0]
    /\ UNCHANGED <<messageQueue, stopped, starts, got>>

Stop ==
    /\ ~stopped
    /\ stopped' = TRUE
    /\ messageQueue' = [c \in Channels |-> <<>>]
    /\ UNCHANGED <<promiseQueue, closed, starts, posted, got>>

-----------------------------------------------------------------------------
MessengerInit ==
    /\ promiseQueue = [c \in Channels |-> 0]
    /\ messageQueue = [c \in Channels |-> <<>>]
    /\ closed = {}
    /\ stopped = FALSE

MessengerNext ==
    \/ \E c \in Receivers : EnqueueReceive(c)
    \/ InStreamMessageHandler
    \/ RejectReceivePromiseQueue
    \/ Stop
=============================================================================
