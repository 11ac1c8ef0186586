------------------------------- MODULE Transport -------------------------------
(***************************************************************************)
(* The two sides of a transport (Transport/Transport.cpp) and the promises *)
(* they settle (IO/Promise.hpp).  The sides run on receiveStrand_ and      *)
(* sendStrand_, keep a queue each and share no state; a promise leaves     *)
(* them with the handlers its caller chained to it.  So a behaviour        *)
(* explores one of the three.                                              *)
(***************************************************************************)
EXTENDS TransportReceive, TransportSend, Promise

VARIABLE side   \* bound: the part this behaviour explores

vars == <<side, receiveVars, sendVars, chainVars>>

Init ==
    /\ side \in {"receive", "send", "promise"}
    /\ ReceiveInit
    /\ SendInit
    /\ ChainInit

Next ==
    /\ \/ side = "receive" /\ ReceiveNext /\ UNCHANGED <<sendVars, chainVars>>
       \/ side = "send" /\ SendNext /\ UNCHANGED <<receiveVars, chainVars>>
       \/ side = "promise" /\ ChainNext /\ UNCHANGED <<receiveVars, sendVars>>
    /\ UNCHANGED side

FairSpec == Init /\ [][Next]_vars /\ ReceiveFairness /\ SendFairness

\* The members of the transport, its data sink and a promise have their types.
TypeOK == ReceiveTypeOK /\ SendTypeOK /\ ChainTypeOK
=============================================================================
