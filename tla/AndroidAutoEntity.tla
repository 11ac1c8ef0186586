--------------------------- MODULE AndroidAutoEntity ---------------------------
(***************************************************************************)
(* One session with a phone on the control channel: AndroidAutoEntity.cpp, *)
(* ControlServiceChannel.cpp and the use they make of Cryptor.cpp.         *)
(*                                                                         *)
(* Every handler runs on strand_, where the messenger posts what a receive *)
(* or a send came to.  A handler asks for the next message itself, with    *)
(* receive.  Below are the messenger, which answers each receive with one  *)
(* message or an error and sends in order (ReceivePath, SendPath), and a   *)
(* phone that follows the protocol; above is the App, which may stop the   *)
(* session at any time.                                                    *)
(***************************************************************************)
EXTENDS FiniteSets, Cryptor

CONSTANTS
    Plaintext,  \* of each message that the phone encrypts: the lengths of its records,
                \* none of them empty
    MaxChats    \* bound: messages of the phone after the handshake

VARIABLES
    eventHandler,  \* eventHandler_: "unset" until start, "set", "null" after stop
    crashed,       \* a freed TLS session was used, or an id read of no bytes
    receives,      \* receive promises of the control channel at the messenger
    posted,        \* what is posted on strand_, oldest first
    sends,         \* messages at the messenger, oldest first
    up,            \* neither the transport nor the TLS session has failed
    phone,         \* what the phone is about to do
    inbox,         \* messages of the phone on their way
    chats,         \* messages sent by the phone after the handshake
    quits          \* calls of onAndroidAutoQuit

vars == <<eventHandler, cryptorVars, crashed, receives, posted, sends,
          up, phone, inbox, chats, quits>>
tlsVars == <<cryptorVars, crashed>>
outside == <<eventHandler, up, phone, inbox, chats>>

\* Messages after the handshake: requests that are answered, notices that only
\* make the entity ask again, and those that end the session.
\* A message of two records is one that decrypt does not expect, as is one behind a
\* session ticket of TLS 1.3.
Chats == {"FocusRequest", "Notice", "ByeByeRequest", "ByeByeResponse", "Garbled",
          "TwoRecords"}
Secret == {"DiscoveryRequest"} \cup Chats
FromPhone == {"VersionResponse", "NoCompatibleVersion", "Handshake"} \cup Secret
Encrypted == {"DiscoveryResponse", "FocusResponse", "ShutdownResponse"}
ToPhone == {"VersionRequest", "Handshake", "EmptyHandshake", "AuthComplete"} \cup Encrypted

ASSUME EntityAssumption ==
    /\ Plaintext \in [Secret -> Seq(Nat \ {0})]
    /\ MaxChats \in Nat

\* The frame of a message that the phone encrypts.
Records(m) == [i \in DOMAIN Plaintext[m] |-> Record(m, Plaintext[m][i])]

-----------------------------------------------------------------------------
\* The operations a handler is made of.
Receive == receives' = receives + 1
Send(m) == sends' = Append(sends, m)
TriggerQuit == quits' = IF eventHandler = "set" THEN quits + 1 ELSE quits

Answer(m) == Send(m) /\ Receive /\ UNCHANGED quits
GiveUp == TriggerQuit /\ UNCHANGED <<receives, sends>>

\* The handler posted first is one of these and runs.
Runs(kinds) ==
    /\ ~crashed
    /\ posted # <<>>
    /\ Head(posted) \in kinds
    /\ posted' = Tail(posted)
    /\ UNCHANGED outside

Start ==
    /\ eventHandler = "unset"
    /\ eventHandler' = "set"
    /\ Send("VersionRequest")
    /\ Receive
    /\ UNCHANGED <<tlsVars, posted, up, phone, inbox, chats, quits>>

\* A flight is sent; the handshake message is empty if the session made none.
SendHandshake(output) ==
    Answer(IF output = <<>> THEN "EmptyHandshake" ELSE "Handshake")

\* Mutant: the buffer is read before the handshake begins.
OnVersionResponseReadsFirst ==
    /\ Runs({"VersionResponse"})
    /\ UNCHANGED crashed
    /\ DoHandshake(<<>>, FALSE)
    /\ writeBIO' = Pending(FALSE)
    /\ SendHandshake(<<>>)

\* The status is compatible: the session says hello.
OnVersionResponse ==
    /\ Runs({"VersionResponse"})
    /\ UNCHANGED crashed
    /\ \/ /\ DoHandshake(<<>>, FALSE)
          /\ ReadHandshakeBuffer
          /\ SendHandshake(Pending(FALSE))
       \/ DoHandshakeThrows /\ GiveUp

\* Mutant: nothing is sent when the handshake needs another flight.
OnHandshakeWaits ==
    /\ Runs({"Handshake"})
    /\ UNCHANGED crashed
    /\ \E done \in BOOLEAN :
         /\ DoHandshake(<<Flight>>, done)
         /\ writeBIO' = Pending(done)
         /\ IF done THEN Answer("AuthComplete") ELSE Receive /\ UNCHANGED <<sends, quits>>

\* writeHandshakeBuffer, doHandshake, and what it makes or that it is complete.
OnHandshake ==
    /\ Runs({"Handshake"})
    /\ UNCHANGED crashed
    /\ \/ /\ DoHandshake(<<Flight>>, FALSE)
          /\ ReadHandshakeBuffer
          /\ SendHandshake(Pending(FALSE))
       \/ DoHandshake(<<Flight>>, TRUE) /\ writeBIO' = Pending(TRUE) /\ Answer("AuthComplete")
       \/ DoHandshakeThrows /\ GiveUp

\* The two handlers above after stop: the cryptor calls OpenSSL with a null
\* session, which fails or crashes.
UsesFreedSession ==
    /\ Runs({"VersionResponse", "Handshake"})
    /\ ssl = "none"
    /\ GiveUp
    /\ crashed' \in BOOLEAN
    /\ UNCHANGED cryptorVars

OnServiceDiscoveryRequest ==
    /\ Runs({"DiscoveryRequest"})
    /\ Answer("DiscoveryResponse")
    /\ UNCHANGED tlsVars

\* Audio and navigation focus.
OnFocusRequest ==
    /\ Runs({"FocusRequest"})
    /\ Answer("FocusResponse")
    /\ UNCHANGED tlsVars

\* Mutant: the entity does not ask again.
OnNoticeForgets ==
    /\ Runs({"Notice"})
    /\ UNCHANGED <<tlsVars, receives, sends, quits>>

\* Mutant: a break is missing, and the default case asks once more.
OnNoticeTwice ==
    /\ Runs({"Notice"})
    /\ receives' = receives + 2
    /\ UNCHANGED <<tlsVars, sends, quits>>

\* Battery, voice session, pings, and message ids that are not known.
OnNotice ==
    /\ Runs({"Notice"})
    /\ Receive
    /\ UNCHANGED <<tlsVars, sends, quits>>

OnByeByeRequest ==
    /\ Runs({"ByeByeRequest"})
    /\ Send("ShutdownResponse")
    /\ UNCHANGED <<tlsVars, receives, quits>>

\* Mutant: the response's promise does nothing when resolved.
OnQuitIgnoresResponse ==
    /\ Runs({"responseSent", "receiveError", "sendError", "NoCompatibleVersion",
             "ByeByeResponse", "Garbled"})
    /\ IF Head(posted) = "responseSent" THEN UNCHANGED <<quits, receives, sends>> ELSE GiveUp
    /\ UNCHANGED tlsVars

\* What ends the session: the response to ByeBye is sent, a promise is rejected
\* or a message not parsed (onChannelError), the version does not fit, or the
\* phone answers a ByeBye.
OnQuit ==
    /\ Runs({"responseSent", "receiveError", "sendError", "NoCompatibleVersion",
             "ByeByeResponse", "Garbled"})
    /\ GiveUp
    /\ UNCHANGED tlsVars

\* MessageId reads two bytes of a payload that has none: nothing runs after it.
ReadsNoId ==
    /\ ~crashed
    /\ posted # <<>> /\ Head(posted) = "Empty"
    /\ crashed' = TRUE
    /\ UNCHANGED <<outside, cryptorVars, posted, receives, sends, quits>>

\* Called by the App: what is outstanding at the messenger will fail.
Stop ==
    /\ eventHandler = "set"
    /\ eventHandler' = "null"
    /\ up' = FALSE
    /\ Deinit
    /\ UNCHANGED <<crashed, receives, posted, sends, phone, inbox, chats, quits>>

HandlerStep ==
    \/ OnVersionResponse \/ OnHandshake \/ UsesFreedSession
    \/ OnServiceDiscoveryRequest \/ OnFocusRequest \/ OnNotice
    \/ OnByeByeRequest \/ OnQuit \/ ReadsNoId

-----------------------------------------------------------------------------
\* The messenger.

Hears(m) ==
    CASE m = "VersionRequest" -> "asked"
      [] m = "Handshake" -> "hello"
      [] m = "AuthComplete" -> "open"
      [] m = "DiscoveryResponse" -> "ready"
      [] OTHER -> phone

\* compoundFrame encrypts what has to be; the phone is sure to read a frame of one
\* record.
Transmit ==
    /\ up
    /\ sends # <<>>
    /\ LET m == Head(sends)
       IN  /\ IF m \in Encrypted THEN Encrypt ELSE UNCHANGED cryptorVars
           /\ phone' \in IF m \in Encrypted /\ Len(Frame(m)) > 1 THEN {phone, Hears(m)}
                        ELSE {Hears(m)}
    /\ sends' = Tail(sends)
    /\ posted' = IF Head(sends) = "ShutdownResponse" THEN Append(posted, "responseSent")
                 ELSE posted
    /\ UNCHANGED <<eventHandler, crashed, receives, up, inbox, chats, quits>>

\* What a freed session is used for fails, or crashes.
MayCrash(secret) == crashed' \in IF secret /\ ssl = "none" THEN BOOLEAN ELSE {crashed}

\* A message fails, and with it those behind it.  After stop the writer still
\* encrypts what was queued.
SendFails ==
    /\ ~crashed
    /\ sends # <<>>
    /\ MayCrash(\E i \in DOMAIN sends : sends[i] \in Encrypted)
    /\ sends' = <<>>
    /\ posted' = posted \o [i \in 1..Len(sends) |-> "sendError"]
    /\ UNCHANGED <<eventHandler, cryptorVars, receives, up, phone, inbox,
                   chats, quits>>

\* What decrypt's outcome for m may be taken for: m if it is whole.  Otherwise the
\* bytes may be anything encrypted, or none.  (An id of the version and handshake
\* messages is left out.)
Reads(m, s) ==
    IF s.threw THEN {"receiveError"}
    ELSE IF Output(s) = Records(m)[1].data THEN {m}
    ELSE IF Output(s) = <<>> THEN {"Empty"}
    ELSE Secret \ {"TwoRecords"}

\* The frame of the next message has come: it is decrypted, or the receive
\* rejected.  (A set of one state, as in Decrypt.)
Deliver ==
    /\ ~crashed
    /\ receives > 0
    /\ inbox # <<>>
    /\ receives' = receives - 1
    /\ inbox' = Tail(inbox)
    /\ LET m == Head(inbox)
           Posts(x) == posted' = Append(posted, x)
       IN  IF m \notin Secret
           THEN Posts(m) /\ UNCHANGED tlsVars
           ELSE IF ssl = "none"
           THEN MayCrash(TRUE) /\ Posts("receiveError") /\ UNCHANGED cryptorVars
           ELSE /\ \E s \in {Decrypt(Records(m))} :
                     readBIO' = s.pending /\ \E x \in Reads(m, s) : Posts(x)
                /\ UNCHANGED <<suite, ssl, active, flights, writeBIO, crashed>>
    /\ UNCHANGED <<eventHandler, sends, up, phone, chats, quits>>

ReceiveFails ==
    /\ ~crashed
    /\ receives > 0
    /\ ~up
    /\ receives' = receives - 1
    /\ posted' = Append(posted, "receiveError")
    /\ UNCHANGED <<eventHandler, tlsVars, sends, up, phone, inbox, chats, quits>>

SessionFails ==
    /\ up
    /\ up' = FALSE
    /\ UNCHANGED <<eventHandler, tlsVars, receives, posted, sends, phone, inbox,
                   chats, quits>>

\* The phone.

Says(m, next) ==
    /\ up
    /\ inbox' = Append(inbox, m)
    /\ phone' = next
    /\ UNCHANGED <<eventHandler, tlsVars, receives, posted, sends, up, quits>>

PhoneAnswers ==
    /\ \/ phone = "asked" /\ \E m \in {"VersionResponse", "NoCompatibleVersion"} :
                                 Says(m, "listens")
       \/ phone = "hello" /\ Says("Handshake", "listens")
       \/ phone = "open" /\ Says("DiscoveryRequest", "discovers")
    /\ UNCHANGED chats

PhoneChats ==
    /\ phone \in {"open", "discovers", "ready"}
    /\ chats < MaxChats
    /\ chats' = chats + 1
    /\ \E m \in Chats : Says(m, phone)

-----------------------------------------------------------------------------
Init ==
    /\ eventHandler = "unset"
    /\ CryptorInit /\ crashed = FALSE
    /\ receives = 0 /\ posted = <<>> /\ sends = <<>>
    /\ up = TRUE /\ phone = "listens" /\ inbox = <<>> /\ chats = 0
    /\ quits = 0

Next ==
    \/ Start \/ HandlerStep \/ Stop
    \/ Transmit \/ SendFails \/ Deliver \/ ReceiveFails \/ SessionFails
    \/ PhoneAnswers \/ PhoneChats

Spec == Init /\ [][Next]_vars

\* The last flight of TLS 1.3 is the session's, and stays in writeBIO until a frame
\* is encrypted: a phone that waits for it says nothing.
Waits == phone = "open" /\ suite.version = "TLSv1_3"

\* The threads run what is posted; the messenger settles every send and every
\* receive it can (SendPath!EventuallySettled, ReceivePath!EventuallyDelivered);
\* the phone answers what it is asked.
Fairness ==
    /\ WF_vars(Start) /\ WF_vars(HandlerStep)
    /\ WF_vars(Transmit \/ SendFails)
    /\ WF_vars(Deliver \/ ReceiveFails)
    /\ WF_vars(~Waits /\ PhoneAnswers)

FairSpec == Spec /\ Fairness

-----------------------------------------------------------------------------
Posted == FromPhone \cup {"Empty", "responseSent", "receiveError", "sendError"}

\* Type invariant of the members of AndroidAutoEntity and Cryptor.
TypeOK ==
    /\ eventHandler \in {"unset", "set", "null"}
    /\ CryptorTypeOK(Secret) /\ crashed \in BOOLEAN
    /\ receives \in Nat
    /\ posted \in Seq(Posted)
    /\ sends \in Seq(ToPhone)
    /\ up \in BOOLEAN
    /\ phone \in {"listens", "asked", "hello", "open", "discovers", "ready"}
    /\ inbox \in Seq(FromPhone)
    /\ chats \in 0..MaxChats
    /\ quits \in Nat

Answered == {i \in DOMAIN posted : posted[i] \in FromPhone \cup {"Empty", "receiveError"}}

\* Receives that have not come back to a handler.
Asking == receives + Cardinality(Answered)

(***************************************************************************)
(* The control channel asks for one message at a time: a handler asks      *)
(* again after its own message came, and once (AndroidAutoEntity.cpp:60,   *)
(* 124-290).  The messenger relies on it: a second promise of a channel    *)
(* would start a second receive (ReceivePath, MaxPromises = 1).            *)
(***************************************************************************)
AsksOnce == Asking <= 1

UnderWay == \/ \E i \in DOMAIN sends : sends[i] = "ShutdownResponse"
            \/ \E i \in DOMAIN posted : posted[i] \in {"responseSent", "sendError"}

(***************************************************************************)
(* A session never falls silent: until the App was told that it is over,   *)
(* a receive is outstanding, or the handler is still to run that tells it, *)
(* whichever message came and whatever failed (AndroidAutoEntity.cpp:      *)
(* 108-303, default case of ControlServiceChannel.cpp:230).                *)
(***************************************************************************)
NeverDeaf == eventHandler = "set" /\ quits = 0 => Asking = 1 \/ UnderWay

\* Decrypt does not take a message for shorter than it is.
NothingCut == suite.overhead >= Overhead

(***************************************************************************)
(* A message that is decrypted without an error, with nothing before it in *)
(* the session, gets bytes of its own record only, in order and none made  *)
(* up, whatever its length is to that of one read and whatever the suite   *)
(* adds to it.  It gets all of them unless the suite adds less than        *)
(* decrypt reckons with: then the end is missing (Cryptor.cpp:148-180).    *)
(***************************************************************************)
DecryptedWhole ==
    inbox # <<>> /\ Head(inbox) \in Secret /\ ssl = "connected" /\ readBIO = <<>> =>
        LET s == Decrypt(Records(Head(inbox)))
            data == Records(Head(inbox))[1].data
        IN  \/ s.threw
            \/ \E n \in 0..Len(data) : /\ Output(s) = SubSeq(data, 1, n)
                                       /\ NothingCut => n = Len(data)

(***************************************************************************)
(* Between the handlers the BIOs hold nothing that would be sent in front  *)
(* of the next frame or read in front of the next message, which nothing   *)
(* later would tell.  There are two exceptions: the end of a message that  *)
(* was cut, and the last flight of TLS 1.3, which goes out in front of the *)
(* first frame that is encrypted (Cryptor.cpp:115-225,                     *)
(* AndroidAutoEntity.cpp:120-164).                                         *)
(***************************************************************************)
NothingLeft ==
    ssl \in {"connecting", "connected"} /\ quits = 0 =>
        /\ NothingCut => readBIO = <<>>
        /\ writeBIO # <<>> =>
             suite.version = "TLSv1_3" /\ ssl = "connected" /\ writeBIO \in Seq({Flight})

Over == quits > 0 \/ eventHandler = "null"

\* Liveness: version, every flight of the handshake and the discovery are gone
\* through, unless the session fails (AndroidAutoEntity.cpp:47-188).  With TLS 1.3 the
\* phone may wait for a flight that nobody sends.
EventuallyReady ==
    eventHandler = "set" /\ NothingCut /\ suite.version = "TLSv1_2"
        ~> phone = "ready" \/ ~up \/ Over

\* Liveness: a failure, or the phone's ByeBye, ends in onAndroidAutoQuit, which
\* lets the App listen again (AndroidAutoEntity.cpp:229-245, 293-303).  A ByeBye that
\* is cut may be taken for something else, and one cut to nothing has no id to read.
EventuallyQuits ==
    eventHandler = "set"
        /\ (~up \/ (NothingCut /\ \E i \in DOMAIN inbox : inbox[i] = "ByeByeRequest"))
        ~> Over \/ crashed
=============================================================================
