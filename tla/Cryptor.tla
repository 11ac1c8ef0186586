-------------------------------- MODULE Cryptor --------------------------------
(***************************************************************************)
(* Cryptor.cpp over SSLWrapper.cpp: one TLS session of a client and its    *)
(* two memory BIOs.  What the phone sent is written to readBIO for the     *)
(* session to read; what the session makes for the phone is read from      *)
(* writeBIO.  Each member function runs under mutex_: it is one step of    *)
(* its caller, and an operator here.                                       *)
(*                                                                         *)
(* TLS_client_method leaves version and cipher to the handshake            *)
(* (SSLWrapper.cpp:65-71): the suite of a session is any that may come of  *)
(* it.  decrypt reckons with one of them only.                             *)
(*                                                                         *)
(* A record is a flight of the handshake or holds data, whose bytes are    *)
(* all the name of the message they belong to.                             *)
(***************************************************************************)
EXTENDS Integers, Sequences

CONSTANTS
    Flights,     \* flights of the phone until the handshake is complete
    Suites,      \* what may be negotiated: a version and what it adds to a record's data
    Overhead,    \* overhead of decrypt, 29: what TLS 1.2 adds with AES in mode GCM
    MaxRead      \* the most decrypt asks of the session at once, 2048

\* TLS adds 21 bytes (TLS 1.2 with ChaCha20), 22 (TLS 1.3), 29, or more (CBC): never
\* less than half of what decrypt reckons with.
ASSUME CryptorAssumption ==
    /\ Flights \in Nat \ {0}
    /\ Overhead \in Nat \ {0}
    /\ MaxRead \in Nat \ {0}
    /\ Suites \subseteq [version : {"TLSv1_2", "TLSv1_3"}, overhead : Nat]
    /\ \A s \in Suites : 2 * s.overhead > Overhead

VARIABLES
    suite,       \* what the handshake of this session comes to
    ssl,         \* ssl_: "none" (null), "connecting", "connected" or "failed"
    active,      \* isActive_
    flights,     \* flights of the phone the session has read
    readBIO,     \* bIOs_.first: records the session is to read
    writeBIO     \* bIOs_.second: records for the phone

cryptorVars == <<suite, ssl, active, flights, readBIO, writeBIO>>

Flight == [type |-> "flight", data |-> <<>>]
Record(m, n) == [type |-> "data", data |-> [i \in 1..n |-> m]]

\* The bytes of data in these records.
DataIn(records) ==
    LET upTo[i \in 0..Len(records)] ==
            IF i = 0 THEN 0 ELSE upTo[i - 1] + Len(records[i].data)
    IN  upTo[Len(records)]

\* What these records are on the wire.
FrameLength(records) == DataIn(records) + Len(records) * suite.overhead

-----------------------------------------------------------------------------
\* init, which also throws: then there is no session.
CryptorInit ==
    /\ suite \in Suites
    /\ ssl = "connecting"
    /\ active = FALSE
    /\ flights = 0
    /\ readBIO = <<>> /\ writeBIO = <<>>

\* The session and with it the BIOs are freed; isActive_ stays.
Deinit ==
    /\ ssl' = "none"
    /\ readBIO' = <<>> /\ writeBIO' = <<>>
    /\ UNCHANGED <<suite, active, flights>>

\* doHandshake once records came in: the session reads them, and is done with
\* the last flight of the phone.
DoHandshake(records, done) ==
    /\ ssl # "none"
    /\ flights' = flights + Len(readBIO \o records)
    /\ done = (flights' >= Flights)
    /\ ssl' = IF done THEN "connected" ELSE "connecting"
    /\ active' = (active \/ done)
    /\ readBIO' = <<>>
    /\ UNCHANGED suite

\* What is pending for the phone then: the session says hello first, and answers
\* every flight, with TLS 1.2 but for the last.
Pending(done) ==
    IF done /\ suite.version = "TLSv1_2" THEN writeBIO ELSE Append(writeBIO, Flight)

\* It throws when the phone's flight is not what the session expects.
DoHandshakeThrows ==
    /\ ssl # "none"
    /\ ssl' = "failed"
    /\ UNCHANGED <<suite, active, flights, readBIO, writeBIO>>

\* read takes everything that is pending.
ReadHandshakeBuffer == writeBIO' = <<>>

\* encrypt: sslWrite makes one record of the buffer, of at most 16384 bytes,
\* and read takes it for the frame, behind whatever is pending.
Frame(m) == Append(writeBIO, Record(m, 1))
Encrypt ==
    /\ ssl = "connected"
    /\ writeBIO' = <<>>
    /\ UNCHANGED <<suite, ssl, active, flights, readBIO>>

-----------------------------------------------------------------------------
\* The loop of decrypt: total is totalReadSize, size and data are the output
\* (what was resized and what was written of it), and pending are the records
\* the session still holds.

\* readBytes, whose subtraction is unsigned: past length it is the maximum.
ReadBytes(s) ==
    LET rest == s.length - s.total
    IN  IF rest < 0 \/ rest > MaxRead THEN MaxRead ELSE rest

\* The session gives what is left of the first record with data.
SslRead(pending, n) ==
    LET full == {i \in DOMAIN pending : pending[i].data # <<>>}
        first == CHOOSE i \in full : \A j \in full : i <= j
        data == pending[first].data
        k == IF n < Len(data) THEN n ELSE Len(data)
        rest == [pending[first] EXCEPT !.data = SubSeq(data, k + 1, Len(data))]
        behind == SubSeq(pending, first + 1, Len(pending))
    IN  IF full = {} THEN [bytes |-> <<>>, pending |-> <<>>]
        ELSE [bytes |-> SubSeq(data, 1, k),
              pending |-> IF k < Len(data) THEN <<rest>> \o behind ELSE behind]

\* Without data sslRead fails, and decrypt throws.
Turn(s) ==
    LET read == SslRead(s.pending, s.size - s.total)
        next == [s EXCEPT !.total = @ + Len(read.bytes), !.data = @ \o read.bytes,
                          !.pending = read.pending]
    IN  IF s.threw \/ ReadBytes(s) = 0 THEN s
        ELSE IF read.bytes = <<>> THEN [s EXCEPT !.threw = TRUE]
        ELSE [next EXCEPT !.size = @ + ReadBytes(next)]

Entering(records) ==
    LET s == [length |-> FrameLength(records) - Overhead, total |-> 0, size |-> 0,
              data |-> <<>>, pending |-> readBIO \o records, threw |-> FALSE]
    IN  [s EXCEPT !.size = ReadBytes(s)]

\* Mutant: what one read does not give is left to the session.
DecryptReadsOnce(records) == Turn(Entering(records))

\* Every turn but the last reads a byte.  (Sets of one state of the loop, so
\* that TLC evaluates every turn once.)
Decrypt(records) ==
    LET s == Entering(records)
        turns == DataIn(s.pending) + 1
        after[i \in 0..turns] ==
            IF i = 0 THEN {s} ELSE {Turn(t) : t \in after[i - 1]}
    IN  CHOOSE outcome \in after[turns] : TRUE

\* The output as its caller finds it, which does not look at totalReadSize.
Output(s) == s.data \o [i \in 1..(s.size - s.total) |-> "zero"]

-----------------------------------------------------------------------------
\* Plain is what there is to encrypt.
CryptorTypeOK(Plain) ==
    /\ suite \in Suites
    /\ ssl \in {"none", "connecting", "connected", "failed"}
    /\ active \in BOOLEAN
    /\ flights \in Nat
    /\ readBIO \in Seq([type : {"flight", "data"}, data : Seq(Plain)])
    /\ writeBIO \in Seq([type : {"flight", "data"}, data : Seq(Plain)])
=============================================================================
