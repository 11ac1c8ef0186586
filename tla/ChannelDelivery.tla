--------------------------- MODULE ChannelDelivery ---------------------------
(***************************************************************************)
(* What the receive path promises: each channel is a queue of its own.     *)
(* The messages of a channel reach their reader once each and in the order *)
(* in which the phone finished sending them, none is skipped, and nothing  *)
(* is promised across channels.  Once queued messages have been discarded  *)
(* (the session is stopping) some may be skipped, never reordered.         *)
(***************************************************************************)
EXTENDS Naturals

CONSTANT Channels

VARIABLES
    sent,       \* messages finished by the phone, per channel
    got,        \* number of the last message its reader saw, per channel
    discarded   \* queued messages have been thrown away

Init ==
    /\ sent = [c \in Channels |-> 0]
    /\ got = [c \in Channels |-> 0]
    /\ discarded = FALSE

Send(c) ==
    /\ sent' = [sent EXCEPT ![c] = @ + 1]
    /\ UNCHANGED <<got, discarded>>

Deliver(c) ==
    \E n \in got[c] + 1 .. sent[c] :
        /\ discarded \/ n = got[c] + 1
        /\ got' = [got EXCEPT ![c] = n]
        /\ UNCHANGED <<sent, discarded>>

Discard ==
    /\ discarded' = TRUE
    /\ UNCHANGED <<sent, got>>

Next ==
    \/ \E c \in Channels : Send(c) \/ Deliver(c)
    \/ Discard

Spec == Init /\ [][Next]_<<sent, got, discarded>>
=============================================================================
