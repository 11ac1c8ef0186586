-------------------------------- MODULE MCEntity --------------------------------
(***************************************************************************)
(* An instance of AndroidAutoEntity.  With reads of two bytes, the records *)
(* lie below, at and above one read and two.  The suites add what decrypt  *)
(* reckons with, more (CBC), and less (ChaCha20, TLS 1.3), such that a     *)
(* message is cut to a part, to nothing, or is too short.                  *)
(***************************************************************************)
EXTENDS AndroidAutoEntity

Suite(version, overhead) == [version |-> version, overhead |-> overhead]

MCSuites ==
    {Suite("TLSv1_2", 5), Suite("TLSv1_2", 6), Suite("TLSv1_2", 3), Suite("TLSv1_3", 3),
     Suite("TLSv1_3", 5)}

MCPlaintext ==
    [m \in Secret |->
        CASE m = "Notice" -> <<1>>
          [] m = "FocusRequest" -> <<2>>
          [] m = "ByeByeRequest" -> <<3>>
          [] m = "ByeByeResponse" -> <<4>>
          [] m = "TwoRecords" -> <<1, 2>>
          [] OTHER -> <<5>>]
=============================================================================
