----------------------------- MODULE EntityProofs -----------------------------
(***************************************************************************)
(* The control channel asks for one message at a time and never falls      *)
(* silent, for any number of messages of the phone, whatever they are, and *)
(* wherever the session fails.  Which of three places the one receive has  *)
(* come to says both: nobody asks, the messenger holds it, or what it came *)
(* to waits for its handler.                                               *)
(*                                                                         *)
(* And what is left in the TLS session between the handlers, whatever the  *)
(* lengths of the records and the suite: the loop of decrypt gives of one  *)
(* record as much as it takes it to be long, and throws on any other       *)
(* message, or one it never takes to be at its end, with all of it read.   *)
(* What holds of the loop is shown by induction over its turns (Induction, *)
(* Loop).                                                                  *)
(***************************************************************************)
EXTENDS AndroidAutoEntity, SequenceTheorems, FiniteSetTheorems, WellFoundedInduction, TLAPS

IsSequence(seq) == \E S : seq \in Seq(S)

\* What comes of a receive.
Come == FromPhone \cup {"Empty", "receiveError"}
NoneIn(seq) == \A i \in 1..Len(seq) : seq[i] \notin Come
OneIn(seq) ==
    \E k \in 1..Len(seq) :
        seq[k] \in Come /\ \A i \in 1..Len(seq) : i # k => seq[i] \notin Come

Nobody == receives = 0 /\ NoneIn(posted)
Asked == receives = 1 /\ NoneIn(posted)
Came == receives = 0 /\ OneIn(posted)

EntityShapes ==
    /\ IsSequence(posted) /\ IsSequence(sends)
    /\ inbox \in Seq(FromPhone)
    /\ quits \in Nat
    /\ eventHandler \in {"unset", "set", "null"}

IInv ==
    /\ EntityShapes
    /\ Nobody \/ Asked \/ Came
    /\ eventHandler = "unset" => receives = 0 /\ posted = <<>> /\ sends = <<>>
    /\ eventHandler = "set" /\ quits = 0 => Asked \/ Came \/ UnderWay

-----------------------------------------------------------------------------
\* Where an outcome is in a sequence that grows at its end.
LEMMA Appended ==
    ASSUME NEW seq, IsSequence(seq), NEW e
    PROVE  /\ IsSequence(Append(seq, e)) /\ Append(seq, e) # <<>>
           /\ Len(seq) \in Nat /\ Len(Append(seq, e)) = Len(seq) + 1
           /\ Append(seq, e)[Len(seq) + 1] = e
           /\ \A i \in 1..Len(seq) : Append(seq, e)[i] = seq[i]
           /\ e \notin Come /\ NoneIn(seq) => NoneIn(Append(seq, e))
           /\ e \notin Come /\ OneIn(seq) => OneIn(Append(seq, e))
           /\ e \in Come /\ NoneIn(seq) => OneIn(Append(seq, e))
<1>. DEFINE longer == Append(seq, e)
<1>1. PICK S : seq \in Seq(S)
  BY DEF IsSequence
<1>2. seq \in Seq(S \cup {e}) /\ e \in S \cup {e} /\ Len(seq) \in Nat
  BY <1>1
<1>3. /\ longer \in Seq(S \cup {e}) /\ longer # <<>> /\ Len(longer) = Len(seq) + 1
      /\ \A i \in 1..Len(seq) : longer[i] = seq[i]
      /\ longer[Len(seq) + 1] = e
  BY <1>2, AppendProperties
<1>. HIDE DEF longer
<1>4. \A i \in 1..Len(seq) + 1 : i \in 1..Len(seq) \/ i = Len(seq) + 1
  BY <1>2
<1>5. \A i \in 1..Len(seq) : i \in 1..Len(seq) + 1 /\ i # Len(seq) + 1
  BY <1>2
<1>6. Len(seq) + 1 \in 1..Len(seq) + 1
  BY <1>2
<1>7. ASSUME e \notin Come, NoneIn(seq) PROVE NoneIn(longer)
  BY <1>3, <1>4, <1>7 DEF NoneIn
<1>8. ASSUME e \notin Come, OneIn(seq) PROVE OneIn(longer)
  <2>1. PICK k \in 1..Len(seq) :
          seq[k] \in Come /\ \A i \in 1..Len(seq) : i # k => seq[i] \notin Come
    BY <1>8 DEF OneIn
  <2>2. k \in 1..Len(longer) /\ longer[k] \in Come
    BY <1>3, <1>5, <2>1
  <2>3. \A i \in 1..Len(longer) : i # k => longer[i] \notin Come
    BY <1>3, <1>4, <1>8, <2>1
  <2>. QED
    BY <2>2, <2>3 DEF OneIn
<1>9. ASSUME e \in Come, NoneIn(seq) PROVE OneIn(longer)
  <2>1. \A i \in 1..Len(longer) : i # Len(seq) + 1 => longer[i] \notin Come
    BY <1>3, <1>4, <1>9 DEF NoneIn
  <2>. QED
    BY <1>3, <1>6, <1>9, <2>1 DEF OneIn
<1>. QED
  BY <1>2, <1>3, <1>7, <1>8, <1>9 DEF IsSequence, longer

\* And in one whose first element is taken.
LEMMA Taken ==
    ASSUME NEW seq, IsSequence(seq), seq # <<>>
    PROVE  /\ IsSequence(Tail(seq)) /\ Len(seq) \in Nat /\ Len(Tail(seq)) = Len(seq) - 1
           /\ 1 \in 1..Len(seq) /\ Head(seq) = seq[1]
           /\ \A i \in 1..Len(seq) : i # 1 =>
                i - 1 \in 1..Len(Tail(seq)) /\ Tail(seq)[i - 1] = seq[i]
           /\ NoneIn(seq) => NoneIn(Tail(seq)) /\ Head(seq) \notin Come
           /\ OneIn(seq) /\ Head(seq) \in Come => NoneIn(Tail(seq))
           /\ OneIn(seq) /\ Head(seq) \notin Come => OneIn(Tail(seq))
<1>. DEFINE rest == Tail(seq)
<1>1. PICK S : seq \in Seq(S)
  BY DEF IsSequence
<1>2. /\ rest \in Seq(S) /\ Len(seq) \in Nat \ {0} /\ Len(rest) = Len(seq) - 1
      /\ Head(seq) = seq[1] /\ \A i \in 1..Len(rest) : rest[i] = seq[i + 1]
  BY <1>1
<1>. HIDE DEF rest
<1>3. 1 \in 1..Len(seq)
  BY <1>2
<1>4. \A i \in 1..Len(rest) : i + 1 \in 1..Len(seq) /\ i + 1 # 1
  BY <1>2
<1>5. \A i \in 1..Len(seq) : i # 1 => i - 1 \in 1..Len(rest) /\ rest[i - 1] = seq[i]
  BY <1>2
<1>6. ASSUME NoneIn(seq) PROVE NoneIn(rest) /\ Head(seq) \notin Come
  BY <1>2, <1>3, <1>4, <1>6 DEF NoneIn
<1>7. ASSUME OneIn(seq), Head(seq) \in Come PROVE NoneIn(rest)
  <2>1. \A i \in 1..Len(seq) : i # 1 => seq[i] \notin Come
    BY <1>2, <1>3, <1>7 DEF OneIn
  <2>. QED
    BY <1>2, <1>4, <2>1 DEF NoneIn
<1>8. ASSUME OneIn(seq), Head(seq) \notin Come PROVE OneIn(rest)
  <2>1. PICK k \in 1..Len(seq) :
          seq[k] \in Come /\ \A i \in 1..Len(seq) : i # k => seq[i] \notin Come
    BY <1>8 DEF OneIn
  <2>2. k # 1
    BY <1>2, <1>8, <2>1
  <2>3. k - 1 \in 1..Len(rest) /\ rest[k - 1] \in Come
    BY <1>5, <2>1, <2>2
  <2>4. \A i \in 1..Len(rest) : i # k - 1 => i + 1 # k
    BY <1>2, <2>1
  <2>5. \A i \in 1..Len(rest) : i # k - 1 => rest[i] \notin Come
    BY <1>2, <1>4, <2>1, <2>4
  <2>. QED
    BY <2>3, <2>5 DEF OneIn
<1>. QED
  BY <1>2, <1>3, <1>5, <1>6, <1>7, <1>8 DEF IsSequence, rest

LEMMA Nothing == IsSequence(<<>>) /\ NoneIn(<<>>)
<1>1. <<>> \in Seq({}) /\ Len(<<>>) = 0
  OBVIOUS
<1>. QED
  BY <1>1 DEF IsSequence, NoneIn

\* Failed sends are not what a receive came to.
LEMMA ErrorsJoined ==
    ASSUME NEW seq, IsSequence(seq), NEW n \in Nat, n > 0
    PROVE  LET longer == seq \o [i \in 1..n |-> "sendError"]
           IN  /\ IsSequence(longer)
               /\ \E i \in DOMAIN longer : longer[i] = "sendError"
               /\ NoneIn(seq) => NoneIn(longer)
               /\ OneIn(seq) => OneIn(longer)
<1>. DEFINE errors == [i \in 1..n |-> "sendError"]
            longer == seq \o errors
<1>1. PICK S : seq \in Seq(S)
  BY DEF IsSequence
<1>2. seq \in Seq(S \cup {"sendError"}) /\ Len(seq) \in Nat
  BY <1>1
<1>3. errors \in Seq(S \cup {"sendError"}) /\ Len(errors) = n
      /\ \A i \in 1..n : errors[i] = "sendError"
  OBVIOUS
<1>. HIDE DEF errors
<1>4. longer \in Seq(S \cup {"sendError"}) /\ Len(longer) = Len(seq) + n
  BY <1>2, <1>3
<1>5. \A i \in 1..Len(seq) + Len(errors) :
        longer[i] = IF i <= Len(seq) THEN seq[i] ELSE errors[i - Len(seq)]
  BY <1>2, <1>3, ConcatProperties, Zenon
<1>6. ASSUME NEW i \in 1..Len(seq) + n
      PROVE  IF i \in 1..Len(seq) THEN longer[i] = seq[i] ELSE longer[i] = "sendError"
  <2>1. CASE i <= Len(seq)
    BY <1>2, <1>3, <1>5, <2>1
  <2>2. CASE ~ (i <= Len(seq))
    <3>1. i - Len(seq) \in 1..n /\ i \notin 1..Len(seq) /\ i \in 1..Len(seq) + Len(errors)
      BY <1>2, <1>3, <2>2
    <3>. QED
      BY <1>3, <1>5, <2>2, <3>1
  <2>. QED
    BY <2>1, <2>2
<1>. HIDE DEF longer
<1>7. "sendError" \notin Come
  BY DEF Come, FromPhone, Secret, Chats
<1>8. Len(seq) + n \in 1..Len(seq) + n /\ Len(seq) + n \notin 1..Len(seq)
      /\ \A i \in 1..Len(seq) : i \in 1..Len(seq) + n
  BY <1>2
<1>9. DOMAIN longer = 1..Len(seq) + n
  BY <1>4
<1>10. \E i \in DOMAIN longer : longer[i] = "sendError"
  BY <1>6, <1>8, <1>9
<1>11. NoneIn(seq) => NoneIn(longer)
  BY <1>4, <1>6, <1>7 DEF NoneIn
<1>12. ASSUME OneIn(seq) PROVE OneIn(longer)
  <2>1. PICK k \in 1..Len(seq) :
          seq[k] \in Come /\ \A i \in 1..Len(seq) : i # k => seq[i] \notin Come
    BY <1>12 DEF OneIn
  <2>2. k \in 1..Len(longer) /\ longer[k] \in Come
    BY <1>4, <1>6, <1>8, <2>1
  <2>3. \A i \in 1..Len(longer) : i # k => longer[i] \notin Come
    BY <1>4, <1>6, <1>7, <2>1
  <2>. QED
    BY <2>2, <2>3 DEF OneIn
<1>. QED
  BY <1>4, <1>10, <1>11, <1>12 DEF IsSequence, longer, errors

-----------------------------------------------------------------------------
LEMMA InitInv == ASSUME Init PROVE IInv
<1>1. <<>> \in Seq(FromPhone)
  OBVIOUS
<1>. QED
  BY <1>1, Nothing DEF Init, IInv, EntityShapes, Nobody

\* A handler of what a receive came to is the only one of its kind.
LEMMA HandlesCome ==
    ASSUME IInv, NEW kinds \in SUBSET Come, Runs(kinds)
    PROVE  /\ receives = 0 /\ NoneIn(posted') /\ IsSequence(posted')
           /\ eventHandler # "unset" /\ UNCHANGED <<eventHandler, inbox>>
<1>1. /\ IsSequence(posted) /\ posted # <<>> /\ Head(posted) \in Come
      /\ posted' = Tail(posted) /\ UNCHANGED <<eventHandler, inbox>>
  BY DEF Runs, IInv, EntityShapes, outside
<1>2. ~ NoneIn(posted)
  BY <1>1, Taken
<1>3. Came
  BY <1>2 DEF IInv, Nobody, Asked
<1>. QED
  BY <1>1, <1>3, Taken DEF Came, IInv

\* It asks again.
LEMMA AsksAgain ==
    ASSUME IInv, NEW kinds \in SUBSET Come, Runs(kinds), Receive,
           IsSequence(sends'), quits' = quits
    PROVE  IInv'
<1>1. /\ receives = 0 /\ NoneIn(posted') /\ IsSequence(posted')
      /\ eventHandler # "unset" /\ UNCHANGED <<eventHandler, inbox>>
  BY HandlesCome
<1>2. Asked'
  BY <1>1 DEF Receive, Asked
<1>. QED
  BY <1>1, <1>2 DEF IInv, EntityShapes

LEMMA Answers ==
    ASSUME IInv, NEW kinds \in SUBSET Come, Runs(kinds), NEW m, Answer(m)
    PROVE  IInv'
<1>1. IsSequence(sends')
  BY Appended DEF Answer, Send, IInv, EntityShapes
<1>. QED
  BY <1>1, AsksAgain DEF Answer

\* Or it tells the App.
LEMMA GivesUp ==
    ASSUME IInv, NEW kinds \in SUBSET Come, Runs(kinds), GiveUp
    PROVE  IInv'
<1>1. /\ receives = 0 /\ NoneIn(posted') /\ IsSequence(posted')
      /\ eventHandler # "unset" /\ UNCHANGED <<eventHandler, inbox>>
  BY HandlesCome
<1>2. /\ receives' = receives /\ sends' = sends
      /\ quits' = IF eventHandler = "set" THEN quits + 1 ELSE quits
  BY DEF GiveUp, TriggerQuit
<1>3. Nobody' /\ quits' \in Nat /\ (eventHandler' = "set" => quits' # 0)
  BY <1>1, <1>2 DEF Nobody, IInv, EntityShapes
<1>. QED
  BY <1>1, <1>2, <1>3 DEF IInv, EntityShapes

LEMMA Kinds ==
    /\ FromPhone \subseteq Come /\ "receiveError" \in Come /\ "Empty" \in Come
    /\ {"VersionResponse"} \subseteq Come /\ {"Handshake"} \subseteq Come
    /\ {"VersionResponse", "Handshake"} \subseteq Come
    /\ {"DiscoveryRequest"} \subseteq Come /\ {"FocusRequest"} \subseteq Come
    /\ {"Notice"} \subseteq Come /\ {"ByeByeRequest"} \subseteq Come
    /\ {"receiveError", "NoCompatibleVersion", "ByeByeResponse", "Garbled"} \subseteq Come
    /\ "responseSent" \notin Come /\ "sendError" \notin Come
  BY DEF Come, FromPhone, Secret, Chats

LEMMA HandshakeInv ==
    ASSUME IInv, OnVersionResponse \/ OnHandshake \/ UsesFreedSession
    PROVE  IInv'
<1>1. CASE OnVersionResponse
  BY <1>1, Kinds, Answers, GivesUp DEF OnVersionResponse, SendHandshake
<1>2. CASE OnHandshake
  BY <1>2, Kinds, Answers, GivesUp DEF OnHandshake, SendHandshake
<1>3. CASE UsesFreedSession
  BY <1>3, Kinds, GivesUp DEF UsesFreedSession
<1>. QED
  BY <1>1, <1>2, <1>3

LEMMA RequestInv ==
    ASSUME IInv, OnServiceDiscoveryRequest \/ OnFocusRequest \/ OnNotice
    PROVE  IInv'
<1>1. CASE OnServiceDiscoveryRequest
  BY <1>1, Kinds, Answers DEF OnServiceDiscoveryRequest
<1>2. CASE OnFocusRequest
  BY <1>2, Kinds, Answers DEF OnFocusRequest
<1>3. CASE OnNotice
  BY <1>3, Kinds, AsksAgain DEF OnNotice, IInv, EntityShapes
<1>. QED
  BY <1>1, <1>2, <1>3

\* The response that was sent goes on to say that the session is over.
LEMMA ByeByeInv == ASSUME IInv, OnByeByeRequest PROVE IInv'
<1>1. /\ receives = 0 /\ NoneIn(posted') /\ IsSequence(posted')
      /\ eventHandler # "unset" /\ UNCHANGED <<eventHandler, inbox>>
  BY Kinds, HandlesCome DEF OnByeByeRequest
<1>2. /\ sends' = Append(sends, "ShutdownResponse") /\ receives' = receives /\ quits' = quits
      /\ IsSequence(sends)
  BY DEF OnByeByeRequest, Send, IInv, EntityShapes
<1>3. IsSequence(sends') /\ \E i \in DOMAIN sends' : sends'[i] = "ShutdownResponse"
  <2>1. /\ IsSequence(sends') /\ Len(sends) \in Nat /\ Len(sends') = Len(sends) + 1
        /\ sends'[Len(sends) + 1] = "ShutdownResponse"
    BY <1>2, Appended
  <2>2. Len(sends) + 1 \in DOMAIN sends'
    BY <2>1 DEF IsSequence
  <2>. QED
    BY <2>1, <2>2
<1>4. Nobody'
  BY <1>1, <1>2 DEF Nobody
<1>. QED
  BY <1>1, <1>2, <1>3, <1>4 DEF IInv, EntityShapes, UnderWay

LEMMA QuitInv == ASSUME IInv, OnQuit PROVE IInv'
<1>. DEFINE came == {"receiveError", "NoCompatibleVersion", "ByeByeResponse", "Garbled"}
<1>1. CASE Runs(came)
  BY <1>1, Kinds, GivesUp DEF OnQuit
<1>2. CASE Head(posted) \notin Come
  <2>1. /\ posted # <<>> /\ posted' = Tail(posted) /\ UNCHANGED <<eventHandler, inbox>>
        /\ receives' = receives /\ sends' = sends
        /\ quits' = IF eventHandler = "set" THEN quits + 1 ELSE quits
        /\ IsSequence(posted) /\ quits \in Nat
    BY DEF OnQuit, Runs, outside, GiveUp, TriggerQuit, IInv, EntityShapes
  <2>2. /\ IsSequence(posted') /\ (NoneIn(posted) => NoneIn(posted'))
        /\ (OneIn(posted) => OneIn(posted'))
    BY <1>2, <2>1, Taken
  <2>3. Nobody' \/ Asked' \/ Came'
    BY <2>1, <2>2 DEF IInv, Nobody, Asked, Came
  <2>4. quits' \in Nat /\ (eventHandler' = "set" => quits' # 0)
    BY <2>1
  <2>. QED
    BY <2>1, <2>2, <2>3, <2>4 DEF IInv, EntityShapes
<1>3. Head(posted) \in Come => Runs(came)
  BY Kinds DEF OnQuit, Runs
<1>. QED
  BY <1>1, <1>2, <1>3

\* A message without an id stays where it is.
LEMMA ReadsNoIdInv == ASSUME IInv, ReadsNoId PROVE IInv'
<1>1. UNCHANGED <<eventHandler, receives, posted, sends, inbox, quits>>
  BY DEF ReadsNoId, outside
<1>. QED
  BY <1>1 DEF IInv, EntityShapes, Nobody, Asked, Came, UnderWay

-----------------------------------------------------------------------------
\* The App begins and ends the session.
LEMMA StartInv == ASSUME IInv, Start PROVE IInv'
<1>1. /\ receives = 0 /\ posted = <<>> /\ sends = <<>> /\ eventHandler' = "set"
      /\ sends' = Append(sends, "VersionRequest") /\ receives' = receives + 1
      /\ UNCHANGED <<posted, inbox, quits>>
  BY DEF Start, Send, Receive, IInv
<1>2. IsSequence(sends') /\ NoneIn(posted')
  BY <1>1, Nothing, Appended
<1>3. Asked'
  BY <1>1, <1>2 DEF Asked
<1>. QED
  BY <1>1, <1>2, <1>3 DEF IInv, EntityShapes

LEMMA StopInv == ASSUME IInv, Stop PROVE IInv'
<1>1. /\ eventHandler' = "null"
      /\ UNCHANGED <<receives, posted, sends, inbox, quits>>
  BY DEF Stop
<1>. QED
  BY <1>1 DEF IInv, EntityShapes, Nobody, Asked, Came

\* What is posted besides the outcome of a receive leaves it where it is.
LEMMA OtherPosted ==
    ASSUME IInv, UNCHANGED <<eventHandler, receives, inbox, quits>>,
           IsSequence(posted'), IsSequence(sends'), eventHandler # "unset",
           NoneIn(posted) => NoneIn(posted'), OneIn(posted) => OneIn(posted'),
           UnderWay => UnderWay'
    PROVE  IInv'
<1>1. /\ (Nobody => Nobody') /\ (Asked => Asked') /\ (Came => Came')
  BY DEF Nobody, Asked, Came
<1>. QED
  BY <1>1 DEF IInv, EntityShapes

LEMMA TransmitInv == ASSUME IInv, Transmit PROVE IInv'
<1>1. /\ sends # <<>> /\ sends' = Tail(sends) /\ IsSequence(sends) /\ IsSequence(posted)
      /\ posted' = IF Head(sends) = "ShutdownResponse" THEN Append(posted, "responseSent")
                   ELSE posted
      /\ UNCHANGED <<eventHandler, receives, inbox, quits>>
  BY DEF Transmit, IInv, EntityShapes
<1>2. eventHandler # "unset"
  BY <1>1 DEF IInv
<1>3. IsSequence(posted') /\ IsSequence(sends')
      /\ (NoneIn(posted) => NoneIn(posted')) /\ (OneIn(posted) => OneIn(posted'))
  BY <1>1, Kinds, Appended, Taken
<1>4. ASSUME NEW i \in DOMAIN posted
      PROVE  i \in DOMAIN posted' /\ posted'[i] = posted[i]
  <2>1. i \in 1..Len(posted)
    BY <1>1 DEF IsSequence
  <2>2. CASE posted' = posted
    BY <2>2
  <2>3. CASE posted' = Append(posted, "responseSent")
    <3>1. Len(posted) \in Nat /\ Len(posted') = Len(posted) + 1 /\ posted'[i] = posted[i]
      BY <1>1, <2>1, <2>3, Appended
    <3>2. DOMAIN posted' = 1..Len(posted')
      BY <1>3 DEF IsSequence
    <3>. QED
      BY <2>1, <3>1, <3>2
  <2>. QED
    BY <1>1, <2>2, <2>3
<1>5. ASSUME NEW i \in DOMAIN sends, sends[i] = "ShutdownResponse"
      PROVE  UnderWay'
  <2>1. i \in 1..Len(sends)
    BY <1>1 DEF IsSequence
  <2>2. CASE i = 1
    <3>1. posted' = Append(posted, "responseSent")
      BY <1>1, <1>5, <2>2, Taken
    <3>2. /\ Len(posted) \in Nat /\ Len(posted') = Len(posted) + 1
          /\ posted'[Len(posted) + 1] = "responseSent"
      BY <1>1, <3>1, Appended
    <3>3. Len(posted) + 1 \in DOMAIN posted'
      BY <1>3, <3>2 DEF IsSequence
    <3>. QED
      BY <3>2, <3>3 DEF UnderWay
  <2>3. CASE i # 1
    <3>1. i - 1 \in 1..Len(sends') /\ sends'[i - 1] = "ShutdownResponse"
      BY <1>1, <1>5, <2>1, <2>3, Taken
    <3>2. i - 1 \in DOMAIN sends'
      BY <1>3, <3>1 DEF IsSequence
    <3>. QED
      BY <3>1, <3>2 DEF UnderWay
  <2>. QED
    BY <2>2, <2>3
<1>6. UnderWay => UnderWay'
  BY <1>4, <1>5 DEF UnderWay
<1>. QED
  BY <1>1, <1>2, <1>3, <1>6, OtherPosted

LEMMA SendFailsInv == ASSUME IInv, SendFails PROVE IInv'
<1>1. /\ sends # <<>> /\ sends' = <<>> /\ IsSequence(sends) /\ IsSequence(posted)
      /\ posted' = posted \o [i \in 1..Len(sends) |-> "sendError"]
      /\ UNCHANGED <<eventHandler, receives, inbox, quits>>
  BY DEF SendFails, IInv, EntityShapes
<1>2. eventHandler # "unset"
  BY <1>1 DEF IInv
<1>3. Len(sends) \in Nat /\ Len(sends) > 0
  BY <1>1 DEF IsSequence
<1>4. /\ IsSequence(posted') /\ \E i \in DOMAIN posted' : posted'[i] = "sendError"
      /\ (NoneIn(posted) => NoneIn(posted')) /\ (OneIn(posted) => OneIn(posted'))
  BY <1>1, <1>3, ErrorsJoined
<1>5. IsSequence(sends')
  BY <1>1, Nothing
<1>6. UnderWay'
  BY <1>4 DEF UnderWay
<1>. QED
  BY <1>1, <1>2, <1>4, <1>5, <1>6, OtherPosted

\* The messenger's answer to a receive is posted.
LEMMA ReceivedInv ==
    ASSUME IInv, receives > 0, receives' = receives - 1,
           NEW e \in Come, posted' = Append(posted, e),
           inbox' \in Seq(FromPhone), UNCHANGED <<eventHandler, sends, quits>>
    PROVE  IInv'
<1>1. Asked
  BY DEF IInv, Nobody, Came
<1>2. IsSequence(posted') /\ OneIn(posted')
  BY <1>1, Appended DEF Asked, IInv, EntityShapes
<1>3. Came' /\ eventHandler # "unset"
  BY <1>1, <1>2 DEF Asked, Came, IInv
<1>. QED
  BY <1>2, <1>3 DEF IInv, EntityShapes

LEMMA DeliverInv == ASSUME IInv, Deliver PROVE IInv'
<1>1. /\ receives > 0 /\ receives' = receives - 1 /\ inbox # <<>> /\ inbox' = Tail(inbox)
      /\ UNCHANGED <<eventHandler, sends, quits>>
      /\ inbox \in Seq(FromPhone)
  BY DEF Deliver, IInv, EntityShapes
<1>2. Head(inbox) \in FromPhone /\ Tail(inbox) \in Seq(FromPhone)
  BY <1>1
<1>3. ASSUME NEW m \in FromPhone, NEW s PROVE Reads(m, s) \subseteq Come
  <2>1. Secret \subseteq Come /\ m \in Come /\ "receiveError" \in Come /\ "Empty" \in Come
    BY Kinds DEF FromPhone
  <2>. QED
    BY <2>1, Zenon DEF Reads
<1>4. \E e \in Come : posted' = Append(posted, e)
  BY <1>2, <1>3, Kinds, Zenon DEF Deliver
<1>. QED
  BY <1>1, <1>2, <1>4, ReceivedInv

LEMMA ReceiveFailsInv == ASSUME IInv, ReceiveFails PROVE IInv'
  BY Kinds, ReceivedInv DEF ReceiveFails, IInv, EntityShapes

LEMMA PhoneInv ==
    ASSUME IInv, PhoneAnswers \/ PhoneChats \/ SessionFails \/ UNCHANGED vars
    PROVE  IInv'
<1>1. UNCHANGED <<eventHandler, receives, posted, sends, quits>>
  BY DEF PhoneAnswers, PhoneChats, SessionFails, Says, vars
<1>2. inbox' \in Seq(FromPhone)
  <2>1. inbox \in Seq(FromPhone)
    BY DEF IInv, EntityShapes
  <2>2. inbox' = inbox \/ \E m \in FromPhone : inbox' = Append(inbox, m)
    BY DEF PhoneAnswers, PhoneChats, SessionFails, Says, vars, FromPhone, Secret
  <2>. QED
    BY <2>1, <2>2
<1>. QED
  BY <1>1, <1>2 DEF IInv, EntityShapes, Nobody, Asked, Came, UnderWay

LEMMA NextInv == IInv /\ [Next]_vars => IInv'
<1>. SUFFICES ASSUME IInv, Next \/ UNCHANGED vars PROVE IInv'
  OBVIOUS
<1>1. CASE HandlerStep
  BY <1>1, HandshakeInv, RequestInv, ByeByeInv, QuitInv, ReadsNoIdInv DEF HandlerStep
<1>. QED
  BY <1>1, StartInv, StopInv, TransmitInv, SendFailsInv, DeliverInv, ReceiveFailsInv, PhoneInv
     DEF Next

-----------------------------------------------------------------------------
THEOREM Invariance == Spec => []IInv
  BY InitInv, NextInv, PTL DEF Spec

\* The receives that have not come back to a handler are counted by their places.
LEMMA AskingCounts ==
    ASSUME IInv
    PROVE  Asking = IF Nobody THEN 0 ELSE 1
<1>1. DOMAIN posted = 1..Len(posted)
  BY DEF IInv, EntityShapes, IsSequence
<1>2. Answered = {i \in 1..Len(posted) : posted[i] \in Come}
  BY <1>1 DEF Answered, Come
<1>3. NoneIn(posted) => Cardinality(Answered) = 0
  <2>. SUFFICES ASSUME NoneIn(posted) PROVE Cardinality(Answered) = 0
    OBVIOUS
  <2>1. Answered = {}
    BY <1>2 DEF NoneIn
  <2>. QED
    BY <2>1, FS_EmptySet
<1>4. OneIn(posted) => Cardinality(Answered) = 1
  <2>. SUFFICES ASSUME OneIn(posted) PROVE Cardinality(Answered) = 1
    OBVIOUS
  <2>1. PICK k \in 1..Len(posted) :
          posted[k] \in Come /\ \A i \in 1..Len(posted) : i # k => posted[i] \notin Come
    BY DEF OneIn
  <2>2. Answered = {k}
    BY <1>2, <2>1
  <2>. QED
    BY <2>2, FS_Singleton
<1>5. OneIn(posted) => ~ NoneIn(posted)
  BY DEF OneIn, NoneIn
<1>. QED
  BY <1>3, <1>4, <1>5 DEF IInv, Nobody, Asked, Came, Asking

(***************************************************************************)
(* The control channel never asks for a second message before the first    *)
(* came to its handler (AndroidAutoEntity.cpp:60, 124-290), which is what  *)
(* the receive path needs of it (ReceivePathProofs, MaxPromises = 1).      *)
(***************************************************************************)
THEOREM AskedForOnce == Spec => []AsksOnce
<1>1. IInv => AsksOnce
  BY AskingCounts DEF AsksOnce
<1>. QED
  BY <1>1, Invariance, PTL

(***************************************************************************)
(* Until the App was told that the session is over, a receive is           *)
(* outstanding or the handler that tells it is under way, whatever came    *)
(* and whatever failed (AndroidAutoEntity.cpp:108-303).                    *)
(***************************************************************************)
THEOREM SessionListens == Spec => []NeverDeaf
<1>1. IInv => NeverDeaf
  <2>. SUFFICES ASSUME IInv, eventHandler = "set", quits = 0 PROVE Asking = 1 \/ UnderWay
    BY DEF NeverDeaf
  <2>1. Asked \/ Came \/ UnderWay
    BY DEF IInv
  <2>2. Asked \/ Came => ~ Nobody
    BY DEF Asked, Came, Nobody, OneIn, NoneIn
  <2>. QED
    BY <2>1, <2>2, AskingCounts
<1>. QED
  BY <1>1, Invariance, PTL

-----------------------------------------------------------------------------
\* Induction over the naturals.  (The library's theorem is about an operator;
\* the least element of a set, WFMin, is not.)
Less == {p \in Nat \X Nat : p[1] < p[2]}

LEMMA LessWellFounded == IsWellFoundedOn(Less, Nat)
  BY NatLessThanWellFounded, Zenon DEF OpToRel, Less

\* Induction, as a fact about a set.
LEMMA Induction ==
    ASSUME NEW T, 0 \in T, \A n \in Nat : n \in T => n + 1 \in T
    PROVE  Nat \subseteq T
<1>. DEFINE others == {n \in Nat : n \notin T}
<1>. SUFFICES ASSUME others # {} PROVE FALSE
  OBVIOUS
<1>1. PICK n \in others : \A i \in others : <<i, n>> \notin Less
  BY LessWellFounded, WFMin, Zenon
<1>2. n \in Nat /\ n # 0
  BY <1>1
<1>3. n - 1 \in Nat /\ <<n - 1, n>> \in Less
  BY <1>2 DEF Less
<1>4. n - 1 \in T
  BY <1>1, <1>3
<1>5. n - 1 + 1 \in T
  BY <1>3, <1>4
<1>. QED
  BY <1>1, <1>2, <1>5

-----------------------------------------------------------------------------
\* DataIn: the data of the first i of these records, for i up to n.
Sums(records, n, f) ==
    f = [i \in 0..n |-> IF i = 0 THEN 0 ELSE f[i - 1] + Len(records[i].data)]

LEMMA SumsExist ==
    ASSUME NEW records, NEW n \in Nat
    PROVE  \E f : Sums(records, n, f)
<1>. DEFINE T == {k \in Nat : \E f : Sums(records, k, f)}
<1>1. 0 \in T
  <2>. DEFINE f == [i \in 0..0 |-> 0]
  <2>1. f = [i \in 0..0 |-> IF i = 0 THEN 0 ELSE f[i - 1] + Len(records[i].data)]
    OBVIOUS
  <2>. QED
    BY <2>1 DEF Sums
<1>2. ASSUME NEW k \in Nat, k \in T PROVE k + 1 \in T
  <2>1. PICK f : Sums(records, k, f)
    BY <1>2
  <2>. DEFINE g == [i \in 0..k + 1 |-> IF i <= k THEN f[i] ELSE f[k] + Len(records[k + 1].data)]
              h == [i \in 0..k + 1 |-> IF i = 0 THEN 0 ELSE g[i - 1] + Len(records[i].data)]
  <2>2. ASSUME NEW i \in 0..k + 1 PROVE g[i] = h[i]
    <3>1. CASE i = 0
      <4>1. g[i] = f[0] /\ f[0] = 0
        BY <1>2, <2>1, <3>1 DEF Sums
      <4>. QED
        BY <3>1, <4>1
    <3>2. CASE i # 0 /\ i <= k
      <4>1. i \in 0..k /\ i - 1 \in 0..k + 1 /\ i - 1 <= k
        BY <1>2, <3>2
      <4>2. g[i] = f[i] /\ g[i - 1] = f[i - 1]
        BY <3>2, <4>1
      <4>3. f[i] = f[i - 1] + Len(records[i].data)
        BY <2>1, <3>2, <4>1 DEF Sums
      <4>4. h[i] = g[i - 1] + Len(records[i].data)
        BY <3>2
      <4>. QED
        BY <4>2, <4>3, <4>4
    <3>3. CASE i = k + 1
      <4>1. g[i] = f[k] + Len(records[i].data) /\ g[k] = f[k] /\ i # 0 /\ i - 1 = k
        BY <1>2, <3>3
      <4>. QED
        BY <4>1
    <3>. QED
      BY <1>2, <3>1, <3>2, <3>3
  <2>3. g = h
    <3>. HIDE DEF g
    <3>. QED BY <2>2 DEF g
  <2>4. Sums(records, k + 1, g)
    BY <2>3 DEF Sums
  <2>. QED
    BY <2>4
<1>. HIDE DEF T
<1>3. n \in T
  BY <1>1, <1>2, Induction
<1>. QED
  BY <1>3 DEF T

\* Sums of natural numbers are natural numbers and grow.
LEMMA SumsGrow ==
    ASSUME NEW records, NEW n \in Nat, NEW f, Sums(records, n, f),
           \A i \in 1..n : Len(records[i].data) \in Nat
    PROVE  /\ f[0] = 0
           /\ \A i \in 1..n : f[i] = f[i - 1] + Len(records[i].data)
           /\ \A i \in 0..n : f[i] \in Nat /\ f[i] <= f[n]
<1>1. /\ f[0] = 0
      /\ \A i \in 1..n : f[i] = f[i - 1] + Len(records[i].data)
  <2>1. f[0] = 0
    BY DEF Sums
  <2>2. ASSUME NEW i \in 1..n PROVE f[i] = f[i - 1] + Len(records[i].data)
    <3>1. i \in 0..n /\ i # 0
      OBVIOUS
    <3>. QED
      BY <3>1 DEF Sums
  <2>. QED
    BY <2>1, <2>2
<1>. DEFINE Grown(k) == \A i \in 0..k : f[i] \in Nat /\ f[i] <= f[k]
            T == {k \in Nat : k <= n => Grown(k)}
<1>2. 0 \in T
  BY <1>1
<1>3. ASSUME NEW k \in Nat, k \in T PROVE k + 1 \in T
  <2>. SUFFICES ASSUME k + 1 <= n PROVE Grown(k + 1)
    OBVIOUS
  <2>1. Grown(k) /\ k \in 0..k
    BY <1>3
  <2>2. k + 1 \in 1..n /\ k + 1 - 1 = k
    OBVIOUS
  <2>3. f[k + 1] = f[k] + Len(records[k + 1].data) /\ Len(records[k + 1].data) \in Nat
    BY <1>1, <2>2
  <2>4. f[k] \in Nat
    BY <2>1
  <2>5. f[k + 1] \in Nat /\ f[k] <= f[k + 1]
    BY <2>3, <2>4
  <2>6. ASSUME NEW i \in 0..k + 1 PROVE f[i] \in Nat /\ f[i] <= f[k + 1]
    <3>1. CASE i = k + 1
      BY <2>5, <3>1
    <3>2. CASE i \in 0..k
      <4>1. f[i] \in Nat /\ f[i] <= f[k]
        BY <2>1, <3>2
      <4>. QED
        BY <2>4, <2>5, <4>1
    <3>. QED
      BY <3>1, <3>2
  <2>. QED
    BY <2>6
<1>. HIDE DEF T
<1>4. n \in T
  BY <1>2, <1>3, Induction
<1>. QED
  BY <1>1, <1>4 DEF T

\* DataIn is their sum.
LEMMA DataSummed ==
    ASSUME NEW records, Len(records) \in Nat,
           \A i \in 1..Len(records) : Len(records[i].data) \in Nat
    PROVE  \E f : /\ f[0] = 0 /\ DataIn(records) = f[Len(records)]
                  /\ \A i \in 1..Len(records) : f[i] = f[i - 1] + Len(records[i].data)
                  /\ \A i \in 0..Len(records) : f[i] \in Nat /\ f[i] <= f[Len(records)]
<1>. DEFINE f == CHOOSE g : Sums(records, Len(records), g)
<1>1. Sums(records, Len(records), f)
  BY SumsExist, Zenon
<1>2. DataIn(records) = f[Len(records)]
  BY Zenon DEF DataIn, Sums
<1>. HIDE DEF f
<1>. QED
  BY <1>1, <1>2, SumsGrow

-----------------------------------------------------------------------------
\* The loop of decrypt from state s, for up to n turns.
Loop(s, n, f) == f = [i \in 0..n |-> IF i = 0 THEN {s} ELSE {Turn(t) : t \in f[i - 1]}]

LEMMA LoopExists ==
    ASSUME NEW s, NEW n \in Nat
    PROVE  \E f : Loop(s, n, f)
<1>. DEFINE T == {k \in Nat : \E f : Loop(s, k, f)}
<1>1. 0 \in T
  <2>. DEFINE f == [i \in 0..0 |-> {s}]
  <2>1. f = [i \in 0..0 |-> IF i = 0 THEN {s} ELSE {Turn(t) : t \in f[i - 1]}]
    OBVIOUS
  <2>. QED
    BY <2>1 DEF Loop
<1>2. ASSUME NEW k \in Nat, k \in T PROVE k + 1 \in T
  <2>1. PICK f : Loop(s, k, f)
    BY <1>2
  <2>. DEFINE g == [i \in 0..k + 1 |-> IF i <= k THEN f[i] ELSE {Turn(t) : t \in f[k]}]
              h == [i \in 0..k + 1 |-> IF i = 0 THEN {s} ELSE {Turn(t) : t \in g[i - 1]}]
  <2>2. ASSUME NEW i \in 0..k + 1 PROVE g[i] = h[i]
    <3>1. CASE i = 0
      <4>1. g[i] = f[0] /\ f[0] = {s}
        BY <1>2, <2>1, <3>1 DEF Loop
      <4>. QED
        BY <3>1, <4>1
    <3>2. CASE i # 0 /\ i <= k
      <4>1. i \in 0..k /\ i - 1 \in 0..k + 1 /\ i - 1 <= k
        BY <1>2, <3>2
      <4>2. g[i] = f[i] /\ g[i - 1] = f[i - 1]
        BY <3>2, <4>1
      <4>3. f[i] = {Turn(t) : t \in f[i - 1]}
        BY <2>1, <3>2, <4>1 DEF Loop
      <4>4. h[i] = {Turn(t) : t \in g[i - 1]}
        BY <3>2
      <4>. QED
        BY <4>2, <4>3, <4>4
    <3>3. CASE i = k + 1
      <4>1. g[i] = {Turn(t) : t \in f[k]} /\ g[k] = f[k] /\ i # 0 /\ i - 1 = k
        BY <1>2, <3>3
      <4>. QED
        BY <4>1
    <3>. QED
      BY <1>2, <3>1, <3>2, <3>3
  <2>3. g = h
    <3>. HIDE DEF g
    <3>. QED BY <2>2 DEF g
  <2>4. Loop(s, k + 1, g)
    BY <2>3 DEF Loop
  <2>. QED
    BY <2>4
<1>. HIDE DEF T
<1>3. n \in T
  BY <1>1, <1>2, Induction
<1>. QED
  BY <1>3 DEF T

\* What the loop keeps from turn to turn holds of the outcome.  Kept[i] are the
\* states that may be reached after i turns.
LEMMA LoopInvariant ==
    ASSUME NEW records, NEW Kept,
           LET s == Entering(records)
           IN  /\ DataIn(s.pending) \in Nat
               /\ s \in Kept[0]
               /\ \A i \in 0..DataIn(s.pending) : \A t \in Kept[i] : Turn(t) \in Kept[i + 1]
    PROVE  Decrypt(records) \in Kept[DataIn(Entering(records).pending) + 1]
<1>. DEFINE s == Entering(records)
            n == DataIn(s.pending) + 1
            f == CHOOSE g : Loop(s, n, g)
<1>1. n \in Nat /\ s \in Kept[0] /\ \A i \in 0..n - 1 : \A t \in Kept[i] : Turn(t) \in Kept[i + 1]
  OBVIOUS
<1>2. Loop(s, n, f)
  BY <1>1, LoopExists, Zenon
<1>3. Decrypt(records) = CHOOSE outcome \in f[n] : TRUE
  BY Zenon DEF Decrypt, Loop
<1>. HIDE DEF f, n, s
<1>. DEFINE T == {k \in Nat : k <= n => f[k] # {} /\ f[k] \subseteq Kept[k]}
<1>4. 0 \in T
  <2>1. f[0] = {s}
    BY <1>1, <1>2 DEF Loop
  <2>. QED
    BY <1>1, <2>1
<1>5. ASSUME NEW k \in Nat, k \in T PROVE k + 1 \in T
  <2>. SUFFICES ASSUME k + 1 <= n PROVE f[k + 1] # {} /\ f[k + 1] \subseteq Kept[k + 1]
    OBVIOUS
  <2>1. k + 1 \in 0..n /\ k + 1 # 0 /\ k + 1 - 1 = k /\ k <= n /\ k \in 0..n - 1
    BY <1>1
  <2>2. f[k + 1] = {Turn(t) : t \in f[k]}
    <3>1. f[k + 1] = {Turn(t) : t \in f[k + 1 - 1]}
      BY <1>2, <2>1 DEF Loop
    <3>. QED
      BY <2>1, <3>1
  <2>3. f[k] # {} /\ f[k] \subseteq Kept[k]
    BY <1>5, <2>1
  <2>4. f[k + 1] # {}
    BY <2>2, <2>3
  <2>5. f[k + 1] \subseteq Kept[k + 1]
    BY <1>1, <2>1, <2>2, <2>3
  <2>. QED
    BY <2>4, <2>5
<1>. HIDE DEF T
<1>6. n \in T
  BY <1>1, <1>4, <1>5, Induction
<1>7. f[n] # {} /\ f[n] \subseteq Kept[n]
  BY <1>1, <1>6 DEF T
<1>8. Decrypt(records) \in f[n]
  <2>1. PICK x : x \in f[n]
    BY <1>7
  <2>. QED
    BY <1>3, <2>1, Zenon
<1>9. Decrypt(records) \in Kept[n]
  BY <1>7, <1>8
<1>. QED
  BY <1>9 DEF n, s

-----------------------------------------------------------------------------
\* A turn of the loop.  Records of data, none of them empty.
DataRecord == [type : {"data"}, data : Seq(Secret) \ {<<>>}]

LEMMA ReadsNothing ==
    ASSUME NEW n
    PROVE  SslRead(<<>>, n) = [bytes |-> <<>>, pending |-> <<>>]
<1>1. {i \in DOMAIN <<>> : <<>>[i].data # <<>>} = {}
  OBVIOUS
<1>. QED
  BY <1>1, Zenon DEF SslRead

\* A read gives what was asked for of the first record, or all of it.
LEMMA ReadsFirst ==
    ASSUME NEW pending \in Seq(DataRecord), pending # <<>>, NEW n \in Nat \ {0}
    PROVE  LET read == SslRead(pending, n)
               data == pending[1].data
           IN  \E d \in 1..Len(data) :
                 /\ d = IF n < Len(data) THEN n ELSE Len(data)
                 /\ read.bytes = SubSeq(data, 1, d)
                 /\ read.pending =
                      IF d < Len(data)
                      THEN <<[type |-> "data", data |-> SubSeq(data, d + 1, Len(data))]>>
                              \o SubSeq(pending, 2, Len(pending))
                      ELSE SubSeq(pending, 2, Len(pending))
<1>. DEFINE full == {i \in DOMAIN pending : pending[i].data # <<>>}
            first == CHOOSE i \in full : \A j \in full : i <= j
            data == pending[1].data
<1>1. /\ Len(pending) \in Nat \ {0} /\ DOMAIN pending = 1..Len(pending)
      /\ \A i \in DOMAIN pending : pending[i] \in DataRecord
  OBVIOUS
<1>2. full = 1..Len(pending)
  BY <1>1 DEF DataRecord
<1>3. 1 \in full /\ \A j \in full : 1 <= j
  BY <1>1, <1>2
<1>4. \A i \in full : (\A j \in full : i <= j) => i = 1
  BY <1>1, <1>2
<1>5. first = 1
  <2>. HIDE DEF full
  <2>. QED BY <1>3, <1>4
<1>6. data \in Seq(Secret) /\ data # <<>> /\ pending[1].type = "data"
      /\ pending[1] = [type |-> "data", data |-> data]
  BY <1>1 DEF DataRecord
<1>7. Len(data) \in Nat \ {0}
  BY <1>6
<1>8. PICK d \in 1..Len(data) : d = IF n < Len(data) THEN n ELSE Len(data)
  BY <1>7
<1>9. \A bytes : [pending[1] EXCEPT !.data = bytes] = [type |-> "data", data |-> bytes]
  BY <1>6
<1>10. SslRead(pending, n) =
         [bytes |-> SubSeq(data, 1, d),
          pending |-> IF d < Len(data)
                      THEN <<[pending[1] EXCEPT !.data = SubSeq(data, d + 1, Len(data))]>>
                              \o SubSeq(pending, 2, Len(pending))
                      ELSE SubSeq(pending, 2, Len(pending))]
  <2>1. SslRead(pending, n) =
         LET dt == pending[first].data
             k == IF n < Len(dt) THEN n ELSE Len(dt)
             rest == [pending[first] EXCEPT !.data = SubSeq(dt, k + 1, Len(dt))]
             behind == SubSeq(pending, first + 1, Len(pending))
         IN  [bytes |-> SubSeq(dt, 1, k),
              pending |-> IF k < Len(dt) THEN <<rest>> \o behind ELSE behind]
    <3>1. full # {}
      BY <1>3
    <3>. QED
      BY <3>1, Zenon DEF SslRead
  <2>2. 1 + 1 = 2
    OBVIOUS
  <2>. HIDE DEF first
  <2>. QED
    BY <1>5, <1>8, <2>1, <2>2, Zenon
<1>. HIDE DEF data
<1>11. PICK bytes : bytes = SubSeq(data, 1, d)
  OBVIOUS
<1>12. PICK rest :
         rest = IF d < Len(data)
                THEN <<[type |-> "data", data |-> SubSeq(data, d + 1, Len(data))]>>
                        \o SubSeq(pending, 2, Len(pending))
                ELSE SubSeq(pending, 2, Len(pending))
  OBVIOUS
<1>13. SslRead(pending, n) = [bytes |-> bytes, pending |-> rest]
  BY <1>9, <1>10, <1>11, <1>12, Zenon
<1>14. SslRead(pending, n).bytes = bytes /\ SslRead(pending, n).pending = rest
  BY <1>13
<1>. QED
  BY <1>8, <1>11, <1>12, <1>14, Zenon DEF data

\* A state of the loop, the one after a read that failed, and what is asked for.
State(length, total, size, data, pending) ==
    [length |-> length, total |-> total, size |-> size,
     data |-> data, pending |-> pending, threw |-> FALSE]
Failed(length, total, size, data, pending) ==
    [length |-> length, total |-> total, size |-> size,
     data |-> data, pending |-> pending, threw |-> TRUE]
Guess(length, total) ==
    IF length - total < 0 \/ length - total > MaxRead THEN MaxRead ELSE length - total

LEMMA Fields ==
    ASSUME NEW s, NEW l, NEW t, NEW z, NEW d, NEW p,
           s = State(l, t, z, d, p) \/ s = Failed(l, t, z, d, p)
    PROVE  /\ s.length = l /\ s.total = t /\ s.size = z
           /\ s.data = d /\ s.pending = p
           /\ ReadBytes(s) = Guess(l, t)
<1>1. /\ s.length = l /\ s.total = t /\ s.size = z
      /\ s.data = d /\ s.pending = p
  BY DEF State, Failed
<1>2. ReadBytes(s) = Guess(l, t)
  BY <1>1, Zenon DEF ReadBytes, Guess
<1>. QED
  BY <1>1, <1>2

LEMMA Threw ==
    ASSUME NEW s, NEW l, NEW t, NEW z, NEW d, NEW p
    PROVE  /\ s = State(l, t, z, d, p) => s.threw = FALSE
           /\ s = Failed(l, t, z, d, p) => s.threw = TRUE
  BY DEF State, Failed

LEMMA FailedPending ==
    ASSUME NEW s, NEW l, NEW t, NEW z, NEW d, NEW p, s = Failed(l, t, z, d, p)
    PROVE  s.pending = p
  BY Fields

\* The assignments of a turn.
Took(s, bytes, pending) ==
    [s EXCEPT !.total = @ + Len(bytes), !.data = @ \o bytes, !.pending = pending]
AsksMore(s) == [s EXCEPT !.size = @ + ReadBytes(s)]
Throws(s) == [s EXCEPT !.threw = TRUE]

LEMMA TurnDone ==
    ASSUME NEW s
    PROVE  Turn(s) =
             LET read == SslRead(s.pending, s.size - s.total)
             IN  IF s.threw \/ ReadBytes(s) = 0 THEN s
                 ELSE IF read.bytes = <<>> THEN Throws(s)
                 ELSE AsksMore(Took(s, read.bytes, read.pending))
  BY Zenon DEF Turn, Throws, AsksMore, Took

\* (For any value of threw: the provers mistake a field that is FALSE.)
Fielded(l, t, z, d, p, w) ==
    [length |-> l, total |-> t, size |-> z, data |-> d, pending |-> p, threw |-> w]

LEMMA Replaced ==
    ASSUME NEW l, NEW t, NEW z, NEW d, NEW p, NEW w, NEW e
    PROVE  LET s == Fielded(l, t, z, d, p, w)
           IN  /\ s.total = t /\ s.data = d /\ s.size = z
               /\ [s EXCEPT !.total = e] = Fielded(l, e, z, d, p, w)
               /\ [s EXCEPT !.data = e] = Fielded(l, t, z, e, p, w)
               /\ [s EXCEPT !.size = e] = Fielded(l, t, e, d, p, w)
               /\ [s EXCEPT !.pending = e] = Fielded(l, t, z, d, e, w)
               /\ [s EXCEPT !.threw = e] = Fielded(l, t, z, d, p, e)
<1>. DEFINE s == Fielded(l, t, z, d, p, w)
<1>1. s.total = t /\ s.data = d /\ s.size = z
  BY DEF Fielded
<1>2. [s EXCEPT !.total = e] = Fielded(l, e, z, d, p, w)
  BY DEF Fielded
<1>3. [s EXCEPT !.data = e] = Fielded(l, t, z, e, p, w)
  BY DEF Fielded
<1>4. [s EXCEPT !.size = e] = Fielded(l, t, e, d, p, w)
  BY DEF Fielded
<1>5. [s EXCEPT !.pending = e] = Fielded(l, t, z, d, e, w)
  BY DEF Fielded
<1>6. [s EXCEPT !.threw = e] = Fielded(l, t, z, d, p, e)
  BY DEF Fielded
<1>. HIDE DEF s
<1>. QED
  BY <1>1, <1>2, <1>3, <1>4, <1>5, <1>6, Zenon DEF s

LEMMA TookState ==
    ASSUME NEW l, NEW t, NEW z, NEW d, NEW p, NEW b, NEW q
    PROVE  Took(State(l, t, z, d, p), b, q) = State(l, t + Len(b), z, d \o b, q)
<1>. DEFINE From(w) == Fielded(l, t, z, d, p, w)
            To(w) == Fielded(l, t + Len(b), z, d \o b, q, w)
<1>1. ASSUME NEW w PROVE Took(From(w), b, q) = To(w)
  <2>1. PICK total : total = t + Len(b)
    OBVIOUS
  <2>2. PICK data : data = d \o b
    OBVIOUS
  <2>3. PICK s : s = From(w)
    OBVIOUS
  <2>4. s.total = t /\ s.data = d
    BY <2>3, Replaced
  <2>5. Took(s, b, q) = [s EXCEPT !.total = total, !.data = data, !.pending = q]
    BY <2>1, <2>2, <2>4, Zenon DEF Took
  <2>6. [From(w) EXCEPT !.total = total] = Fielded(l, total, z, d, p, w)
    BY Replaced
  <2>7. [Fielded(l, total, z, d, p, w) EXCEPT !.data = data]
          = Fielded(l, total, z, data, p, w)
    BY Replaced
  <2>8. [Fielded(l, total, z, data, p, w) EXCEPT !.pending = q]
          = Fielded(l, total, z, data, q, w)
    BY DEF Fielded
  <2>. QED
    BY <2>1, <2>2, <2>3, <2>5, <2>6, <2>7, <2>8, Zenon
<1>2. From(FALSE) = State(l, t, z, d, p) /\ To(FALSE) = State(l, t + Len(b), z, d \o b, q)
  BY Zenon DEF Fielded, State
<1>. HIDE DEF From, To
<1>. QED
  BY <1>1, <1>2, Zenon

LEMMA SizeState ==
    ASSUME NEW l, NEW t, NEW z, NEW d, NEW p, NEW e
    PROVE  [State(l, t, z, d, p) EXCEPT !.size = e] = State(l, t, e, d, p)
<1>. DEFINE From(w) == Fielded(l, t, z, d, p, w)
            To(w) == Fielded(l, t, e, d, p, w)
<1>1. ASSUME NEW w PROVE [From(w) EXCEPT !.size = e] = To(w)
  BY Replaced
<1>2. From(FALSE) = State(l, t, z, d, p) /\ To(FALSE) = State(l, t, e, d, p)
  BY Zenon DEF Fielded, State
<1>. HIDE DEF From, To
<1>. QED
  BY <1>1, <1>2, Zenon

LEMMA AsksState ==
    ASSUME NEW l, NEW t, NEW z, NEW d, NEW p
    PROVE  AsksMore(State(l, t, z, d, p)) = State(l, t, z + Guess(l, t), d, p)
<1>1. PICK size : size = z + Guess(l, t)
  OBVIOUS
<1>2. PICK s : s = State(l, t, z, d, p)
  OBVIOUS
<1>3. s.size = z /\ ReadBytes(s) = Guess(l, t)
  BY <1>2, Fields
<1>4. AsksMore(s) = [s EXCEPT !.size = size]
  BY <1>1, <1>3, Zenon DEF AsksMore
<1>5. [s EXCEPT !.size = size] = State(l, t, size, d, p)
  BY <1>2, SizeState
<1>. QED
  BY <1>1, <1>2, <1>4, <1>5, Zenon

LEMMA ThrowsState ==
    ASSUME NEW l, NEW t, NEW z, NEW d, NEW p
    PROVE  Throws(State(l, t, z, d, p)) = Failed(l, t, z, d, p)
<1>. DEFINE R(w) == Fielded(l, t, z, d, p, w)
            Set(w, x) == [R(w) EXCEPT !.threw = x]
<1>1. ASSUME NEW w, NEW x PROVE Set(w, x) = R(x)
  BY DEF Fielded
<1>2. /\ R(FALSE) = State(l, t, z, d, p) /\ R(TRUE) = Failed(l, t, z, d, p)
      /\ Set(FALSE, TRUE) = Throws(State(l, t, z, d, p))
  BY Zenon DEF Fielded, State, Failed, Throws
<1>. HIDE DEF R, Set
<1>. QED
  BY <1>1, <1>2, Zenon

\* A turn that finds data.
LEMMA TurnReads ==
    ASSUME NEW l, NEW t, NEW z, NEW d, NEW p, NEW b, NEW q,
           Guess(l, t) # 0,
           SslRead(p, z - t).bytes = b, b # <<>>,
           SslRead(p, z - t).pending = q
    PROVE  Turn(State(l, t, z, d, p)) =
             State(l, t + Len(b), z + Guess(l, t + Len(b)), d \o b, q)
<1>1. PICK s : s = State(l, t, z, d, p)
  OBVIOUS
<1>2. s.pending = p /\ s.size = z /\ s.total = t /\ ReadBytes(s) = Guess(l, t)
  BY <1>1, Fields
<1>3. s.threw = FALSE
  BY <1>1, Threw
<1>4. Turn(s) = AsksMore(Took(s, b, q))
  BY <1>2, <1>3, TurnDone, Zenon
<1>5. Took(s, b, q) = State(l, t + Len(b), z, d \o b, q)
  BY <1>1, TookState
<1>. QED
  BY <1>1, <1>4, <1>5, AsksState

\* A turn that finds none, and those after the end.
LEMMA TurnThrows ==
    ASSUME NEW l, NEW t, NEW z, NEW d, NEW p,
           Guess(l, t) # 0, SslRead(p, z - t).bytes = <<>>
    PROVE  Turn(State(l, t, z, d, p)) = Failed(l, t, z, d, p)
<1>1. PICK s : s = State(l, t, z, d, p)
  OBVIOUS
<1>2. s.pending = p /\ s.size = z /\ s.total = t /\ ReadBytes(s) = Guess(l, t)
  BY <1>1, Fields
<1>3. s.threw = FALSE
  BY <1>1, Threw
<1>4. Turn(s) = Throws(s)
  BY <1>2, <1>3, TurnDone, Zenon
<1>. QED
  BY <1>1, <1>4, ThrowsState

LEMMA TurnRests ==
    ASSUME NEW l, NEW t, NEW z, NEW d, NEW p
    PROVE  /\ Guess(l, t) = 0 => Turn(State(l, t, z, d, p)) = State(l, t, z, d, p)
           /\ Turn(Failed(l, t, z, d, p)) = Failed(l, t, z, d, p)
<1>1. ASSUME Guess(l, t) = 0 PROVE Turn(State(l, t, z, d, p)) = State(l, t, z, d, p)
  <2>1. PICK s : s = State(l, t, z, d, p)
    OBVIOUS
  <2>2. ReadBytes(s) = 0
    BY <1>1, <2>1, Fields
  <2>. QED
    BY <2>1, <2>2, TurnDone, Zenon
<1>2. Turn(Failed(l, t, z, d, p)) = Failed(l, t, z, d, p)
  <2>1. PICK s : s = Failed(l, t, z, d, p)
    OBVIOUS
  <2>2. s.threw = TRUE
    BY <2>1, Threw
  <2>. QED
    BY <2>1, <2>2, TurnDone, Zenon
<1>. QED
  BY <1>1, <1>2

LEMMA Entered ==
    ASSUME NEW records, NEW pending, readBIO \o records = pending
    PROVE  Entering(records) =
             State(FrameLength(records) - Overhead, 0,
                   Guess(FrameLength(records) - Overhead, 0), <<>>, pending)
<1>1. PICK l : l = FrameLength(records) - Overhead
  OBVIOUS
<1>2. PICK s : s = State(l, 0, 0, <<>>, pending)
  OBVIOUS
<1>3. PICK g : g = Guess(l, 0)
  OBVIOUS
<1>4. ReadBytes(s) = g
  BY <1>2, <1>3, Fields
<1>5. Entering(records) = [s EXCEPT !.size = ReadBytes(s)]
  BY <1>1, <1>2, Zenon DEF Entering, State
<1>6. [s EXCEPT !.size = g] = State(l, 0, g, <<>>, pending)
  BY <1>2, SizeState
<1>. QED
  BY <1>1, <1>3, <1>4, <1>5, <1>6, Zenon

-----------------------------------------------------------------------------
\* The data of a record of message m.
Bytes(m, n) == [i \in 1..n |-> m]

LEMMA BytesMade ==
    ASSUME NEW m \in Secret, NEW n \in Nat
    PROVE  /\ Bytes(m, n) \in Seq(Secret) /\ Len(Bytes(m, n)) = n
           /\ n # 0 => Bytes(m, n) # <<>>
  BY DEF Bytes

LEMMA BytesCut ==
    ASSUME NEW m \in Secret, NEW n \in Nat, NEW d \in 0..n
    PROVE  /\ SubSeq(Bytes(m, n), 1, d) = Bytes(m, d)
           /\ SubSeq(Bytes(m, n), d + 1, n) = Bytes(m, n - d)
<1>1. SubSeq(Bytes(m, n), 1, d) = Bytes(m, d)
  BY DEF Bytes
<1>2. SubSeq(Bytes(m, n), d + 1, n) = Bytes(m, n - d)
  BY DEF Bytes
<1>. QED
  BY <1>1, <1>2

LEMMA BytesJoined ==
    ASSUME NEW m \in Secret, NEW x \in Nat, NEW d \in Nat
    PROVE  Bytes(m, x) \o Bytes(m, d) = Bytes(m, x + d)
<1>. DEFINE a == Bytes(m, x)
            b == Bytes(m, d)
            c == Bytes(m, x + d)
<1>1. /\ a \in Seq(Secret) /\ Len(a) = x /\ \A i \in 1..x : a[i] = m
      /\ b \in Seq(Secret) /\ Len(b) = d /\ \A i \in 1..d : b[i] = m
      /\ c \in Seq(Secret) /\ Len(c) = x + d /\ \A i \in 1..x + d : c[i] = m
  BY DEF Bytes
<1>. HIDE DEF a, b, c
<1>2. a \o b \in Seq(Secret) /\ Len(a \o b) = x + d
  BY <1>1
<1>3. ASSUME NEW i \in 1..x + d PROVE (a \o b)[i] = c[i]
  <2>1. (a \o b)[i] = IF i <= Len(a) THEN a[i] ELSE b[i - Len(a)]
    BY <1>1, ConcatProperties
  <2>2. CASE i <= x
    BY <1>1, <2>1, <2>2
  <2>3. CASE ~ (i <= x)
    <3>1. i - x \in 1..d
      BY <2>3
    <3>. QED
      BY <1>1, <2>1, <2>3, <3>1
  <2>. QED
    BY <2>2, <2>3
<1>4. a \o b = c
  BY <1>1, <1>2, <1>3, SeqEqual
<1>. QED
  BY <1>4 DEF a, b, c

\* What is left of a sequence of records once the first is read, or a part of it.
LEMMA Behind ==
    ASSUME NEW p \in Seq(DataRecord), p # <<>>, NEW rest, rest = SubSeq(p, 2, Len(p))
    PROVE  /\ Len(p) \in Nat \ {0} /\ p[1] \in DataRecord
           /\ rest \in Seq(DataRecord) /\ Len(rest) = Len(p) - 1
           /\ \A q \in 1..Len(p) - 1 : rest[q] = p[q + 1]
<1>1. Len(p) \in Nat \ {0} /\ p[1] \in DataRecord
  OBVIOUS
<1>2. rest \in Seq(DataRecord)
  BY <1>1
<1>3. Len(rest) = Len(p) - 1
  <2>1. PICK last \in Nat \ {0} : last = Len(p)
    BY <1>1
  <2>2. \A i \in 2..last : p[i] \in DataRecord
    BY <1>1, <2>1
  <2>3. Len(SubSeq(p, 2, last)) = IF 2 <= last THEN last - 2 + 1 ELSE 0
    BY <2>2, SubSeqProperties
  <2>4. CASE last = 1
    BY <2>1, <2>3, <2>4
  <2>5. CASE last # 1
    <3>1. 2 <= last /\ last - 2 + 1 = last - 1
      BY <2>5
    <3>2. Len(SubSeq(p, 2, last)) = last - 1
      BY <2>3, <3>1
    <3>. QED
      BY <2>1, <3>2
  <2>. QED
    BY <2>4, <2>5
<1>4. ASSUME NEW q \in 1..Len(p) - 1 PROVE rest[q] = p[q + 1]
  BY <1>1
<1>. QED
  BY <1>1, <1>2, <1>3, <1>4

LEMMA InFront ==
    ASSUME NEW rest \in Seq(DataRecord), NEW r \in DataRecord,
           NEW front, front = <<r>> \o rest
    PROVE  /\ front \in Seq(DataRecord) /\ Len(front) = Len(rest) + 1 /\ front[1] = r
           /\ \A q \in 2..Len(rest) + 1 : front[q] = rest[q - 1]
<1>1. PICK one \in Seq(DataRecord) : one = <<r>>
  <2>1. <<r>> \in Seq(DataRecord)
    OBVIOUS
  <2>. QED
    BY <2>1, Zenon
<1>2. Len(one) = 1 /\ one[1] = r /\ Len(rest) \in Nat
  BY <1>1
<1>3. front = one \o rest
  BY <1>1, Zenon
<1>4. /\ front \in Seq(DataRecord) /\ Len(front) = Len(one) + Len(rest)
      /\ \A q \in 1..Len(one) + Len(rest) :
           front[q] = IF q <= Len(one) THEN one[q] ELSE rest[q - Len(one)]
  BY <1>3, ConcatProperties, Zenon
<1>5. front[1] = r /\ Len(front) = Len(rest) + 1
  BY <1>2, <1>4
<1>6. ASSUME NEW q \in 2..Len(rest) + 1 PROVE front[q] = rest[q - 1]
  BY <1>2, <1>4
<1>. QED
  BY <1>4, <1>5, <1>6

-----------------------------------------------------------------------------
\* The loop over one record, of n bytes of m, of which it takes l to be all, once
\* x of them were read.
Left(m, n, x) == IF x = n THEN <<>> ELSE <<Record(m, n - x)>>
Reading(m, n, l, x) == State(l, x, x + Guess(l, x), Bytes(m, x), Left(m, n, x))

LEMMA ReadingTurn ==
    ASSUME CryptorAssumption, NEW m \in Secret, NEW n \in Nat, NEW l \in 0..n, NEW x \in 0..l
    PROVE  /\ x = l => Turn(Reading(m, n, l, x)) = Reading(m, n, l, x)
           /\ x # l => \E y \in x + 1..l : Turn(Reading(m, n, l, x)) = Reading(m, n, l, y)
<1>1. ASSUME x = l PROVE Turn(Reading(m, n, l, x)) = Reading(m, n, l, x)
  <2>1. Guess(l, x) = 0
    BY <1>1 DEF Guess, CryptorAssumption
  <2>. QED
    BY <2>1, TurnRests, Zenon DEF Reading
<1>2. ASSUME x # l PROVE \E y \in x + 1..l : Turn(Reading(m, n, l, x)) = Reading(m, n, l, y)
  <2>1. PICK k : k = n - x
    OBVIOUS
  <2>2. PICK ask : ask = Guess(l, x)
    OBVIOUS
  <2>3. PICK record : record = Record(m, k)
    OBVIOUS
  <2>4. PICK p : p = <<record>>
    OBVIOUS
  <2>5. PICK z : z = x + ask
    OBVIOUS
  <2>6. k \in Nat \ {0} /\ ask \in Nat \ {0} /\ ask <= k /\ ask <= l - x /\ z - x = ask
    BY <1>2, <2>1, <2>2, <2>5 DEF Guess, CryptorAssumption
  <2>7. record = [type |-> "data", data |-> Bytes(m, k)]
        /\ record.data = Bytes(m, k) /\ record.type = "data"
    BY <2>3 DEF Record, Bytes
  <2>8. Bytes(m, k) \in Seq(Secret) /\ Bytes(m, k) # <<>> /\ Len(Bytes(m, k)) = k
    BY <2>6, BytesMade
  <2>9. record \in DataRecord
    BY <2>7, <2>8 DEF DataRecord
  <2>10. p \in Seq(DataRecord) /\ p # <<>> /\ p[1] = record /\ SubSeq(p, 2, Len(p)) = <<>>
    BY <2>4, <2>9
  <2>11. PICK d \in 1..Len(p[1].data) :
           /\ d = IF ask < Len(p[1].data) THEN ask ELSE Len(p[1].data)
           /\ SslRead(p, ask).bytes = SubSeq(p[1].data, 1, d)
           /\ SslRead(p, ask).pending =
                IF d < Len(p[1].data)
                THEN <<[type |-> "data", data |-> SubSeq(p[1].data, d + 1, Len(p[1].data))]>>
                        \o SubSeq(p, 2, Len(p))
                ELSE SubSeq(p, 2, Len(p))
    <3>1. p \in Seq(DataRecord) /\ p # <<>>
      BY <2>10
    <3>2. ask \in Nat \ {0}
      BY <2>6
    <3>. QED
      BY <3>1, <3>2, ReadsFirst, Zenon
  <2>12. p[1].data = Bytes(m, k) /\ Len(p[1].data) = k
    BY <2>7, <2>8, <2>10, Zenon
  <2>13. d = ask /\ d \in 1..k /\ d \in 0..k
    BY <2>6, <2>11, <2>12
  <2>14. PICK b : b = Bytes(m, d)
    OBVIOUS
  <2>15. SslRead(p, z - x).bytes = b
    <3>1. SubSeq(Bytes(m, k), 1, d) = b
      BY <2>6, <2>13, <2>14, BytesCut
    <3>. QED
      BY <2>6, <2>11, <2>12, <3>1, Zenon
  <2>16. PICK y : y = x + d
    OBVIOUS
  <2>17. y \in x + 1..l /\ z + Guess(l, y) = y + Guess(l, y) /\ k - d = n - y
         /\ (y = n <=> d = k)
    BY <2>1, <2>5, <2>6, <2>13, <2>16
  <2>18. SslRead(p, z - x).pending = Left(m, n, y)
    <3>1. CASE d < k
      <4>1. SubSeq(Bytes(m, k), d + 1, k) = Bytes(m, n - y)
        <5>1. SubSeq(Bytes(m, k), d + 1, k) = Bytes(m, k - d)
          BY <2>6, <2>13, BytesCut
        <5>. QED
          BY <2>17, <5>1, Zenon
      <4>2. PICK rest : rest = [type |-> "data", data |-> Bytes(m, n - y)]
        OBVIOUS
      <4>3. SslRead(p, ask).pending = <<rest>> \o <<>>
        BY <2>10, <2>11, <2>12, <3>1, <4>1, <4>2, Zenon
      <4>4. <<rest>> \o <<>> = <<rest>>
        OBVIOUS
      <4>5. Left(m, n, y) = <<rest>>
        <5>1. y # n
          BY <2>13, <2>17, <3>1
        <5>. QED
          BY <4>2, <5>1, Zenon DEF Left, Record, Bytes
      <4>. QED
        BY <2>6, <4>3, <4>4, <4>5, Zenon
    <3>2. CASE ~ (d < k)
      <4>1. SslRead(p, ask).pending = <<>>
        BY <2>10, <2>11, <2>12, <3>2, Zenon
      <4>2. y = n
        BY <2>6, <2>13, <2>17, <3>2
      <4>. QED
        BY <2>6, <4>1, <4>2, Zenon DEF Left
    <3>. QED
      BY <3>1, <3>2
  <2>19. b # <<>> /\ Len(b) = d /\ Bytes(m, x) \o b = Bytes(m, y)
    <3>1. d \in Nat /\ x \in Nat /\ d # 0
      BY <2>13
    <3>2. b # <<>> /\ Len(b) = d
      BY <2>14, <3>1, BytesMade
    <3>3. Bytes(m, x) \o b = Bytes(m, y)
      BY <2>14, <2>16, <3>1, BytesJoined, Zenon
    <3>. QED
      BY <3>2, <3>3
  <2>20. Turn(State(l, x, z, Bytes(m, x), p)) =
           State(l, y, z + Guess(l, y), Bytes(m, x) \o b, Left(m, n, y))
    <3>1. PICK q : q = Left(m, n, y)
      OBVIOUS
    <3>2. PICK data : data = Bytes(m, x)
      OBVIOUS
    <3>3. Guess(l, x) # 0 /\ b # <<>>
      BY <2>2, <2>6, <2>19
    <3>4. SslRead(p, z - x).bytes = b /\ SslRead(p, z - x).pending = q
      BY <2>15, <2>18, <3>1
    <3>5. Turn(State(l, x, z, data, p)) =
            State(l, x + Len(b), z + Guess(l, x + Len(b)), data \o b, q)
      BY <3>3, <3>4, TurnReads
    <3>. QED
      BY <2>16, <2>19, <3>1, <3>2, <3>5, Zenon
  <2>21. Left(m, n, x) = p
    <3>1. x # n
      BY <1>2
    <3>. QED
      BY <2>1, <2>3, <2>4, <3>1, Zenon DEF Left
  <2>22. Turn(Reading(m, n, l, x)) = Reading(m, n, l, y)
    BY <2>2, <2>5, <2>17, <2>19, <2>20, <2>21, Zenon DEF Reading
  <2>. QED
    BY <2>17, <2>22
<1>. QED
  BY <1>1, <1>2

-----------------------------------------------------------------------------
\* What the suite adds to a record.
LEMMA SuiteAdds ==
    ASSUME CryptorAssumption, suite \in Suites
    PROVE  /\ suite.overhead \in Nat /\ 2 * suite.overhead > Overhead
           /\ Overhead \in Nat \ {0}
  BY DEF CryptorAssumption

\* What decrypt takes a message of these records to be long.
LEMMA LengthGuessed ==
    ASSUME CryptorAssumption, suite \in Suites, NEW records \in Seq(DataRecord)
    PROVE  \E f : /\ f[0] = 0
                  /\ \A i \in 1..Len(records) : /\ f[i] = f[i - 1] + Len(records[i].data)
                                                /\ Len(records[i].data) \in Nat \ {0}
                  /\ \A i \in 0..Len(records) : f[i] \in Nat /\ f[i] <= f[Len(records)]
                  /\ DataIn(records) = f[Len(records)]
                  /\ FrameLength(records) - Overhead =
                       f[Len(records)] + (Len(records) * suite.overhead - Overhead)
<1>1. \A i \in 1..Len(records) : Len(records[i].data) \in Nat \ {0}
  <2>1. ASSUME NEW i \in 1..Len(records) PROVE Len(records[i].data) \in Nat \ {0}
    <3>1. records[i] \in DataRecord
      OBVIOUS
    <3>2. records[i].data \in Seq(Secret) /\ records[i].data # <<>>
      BY <3>1 DEF DataRecord
    <3>. QED
      BY <3>2
  <2>. QED
    BY <2>1
<1>2. Len(records) \in Nat
  OBVIOUS
<1>3. PICK f : /\ f[0] = 0 /\ DataIn(records) = f[Len(records)]
               /\ \A i \in 1..Len(records) : f[i] = f[i - 1] + Len(records[i].data)
               /\ \A i \in 0..Len(records) : f[i] \in Nat /\ f[i] <= f[Len(records)]
  BY <1>1, <1>2, DataSummed
<1>4. FrameLength(records) - Overhead =
        f[Len(records)] + (Len(records) * suite.overhead - Overhead)
  <2>1. PICK k \in Nat : k = Len(records)
    BY <1>2
  <2>2. PICK l : l = FrameLength(records)
    OBVIOUS
  <2>3. l = f[k] + k * suite.overhead
    BY <1>3, <2>1, <2>2, Zenon DEF FrameLength
  <2>4. f[k] \in Nat /\ Overhead \in Nat /\ k * suite.overhead \in Nat
    BY <1>3, <2>1, SuiteAdds
  <2>5. l - Overhead = f[k] + (k * suite.overhead - Overhead)
    BY <2>3, <2>4
  <2>. QED
    BY <2>1, <2>2, <2>5
<1>. QED
  BY <1>1, <1>3, <1>4

LEMMA OneGuessed ==
    ASSUME CryptorAssumption, suite \in Suites,
           NEW m \in Secret, NEW n \in Nat \ {0}, NEW records, records = <<Record(m, n)>>
    PROVE  /\ records \in Seq(DataRecord) /\ DataIn(records) = n
           /\ FrameLength(records) - Overhead = n + (suite.overhead - Overhead)
<1>1. records = <<[type |-> "data", data |-> Bytes(m, n)]>>
  BY Zenon DEF Record, Bytes
<1>2. Bytes(m, n) \in Seq(Secret) /\ Bytes(m, n) # <<>> /\ Len(Bytes(m, n)) = n
  BY BytesMade
<1>3. /\ records \in Seq(DataRecord) /\ Len(records) = 1
      /\ records[1].data = Bytes(m, n)
  BY <1>1, <1>2 DEF DataRecord
<1>4. FrameLength(records) - Overhead = n + (suite.overhead - Overhead)
      /\ DataIn(records) = n
  <2>1. PICK f : /\ f[0] = 0
                 /\ \A i \in 1..Len(records) : f[i] = f[i - 1] + Len(records[i].data)
                 /\ DataIn(records) = f[Len(records)]
                 /\ FrameLength(records) - Overhead =
                      f[Len(records)] + (Len(records) * suite.overhead - Overhead)
    <3>1. \E f : /\ f[0] = 0
                 /\ \A i \in 1..Len(records) : /\ f[i] = f[i - 1] + Len(records[i].data)
                                               /\ Len(records[i].data) \in Nat \ {0}
                 /\ \A i \in 0..Len(records) : f[i] \in Nat /\ f[i] <= f[Len(records)]
                 /\ DataIn(records) = f[Len(records)]
                 /\ FrameLength(records) - Overhead =
                      f[Len(records)] + (Len(records) * suite.overhead - Overhead)
      BY <1>3, LengthGuessed, Zenon
    <3>. QED
      BY <3>1, Zenon
  <2>2. 1 \in 1..Len(records) /\ 1 - 1 = 0
    BY <1>3
  <2>3. f[1] = n
    <3>1. f[1] = f[1 - 1] + Len(records[1].data)
      BY <2>1, <2>2, Zenon
    <3>. QED
      BY <1>2, <1>3, <2>1, <2>2, <3>1
  <2>4. 1 * suite.overhead = suite.overhead
    BY SuiteAdds
  <2>. QED
    BY <1>3, <2>1, <2>3, <2>4, Zenon
<1>. QED
  BY <1>3, <1>4

LEMMA GuessMet ==
    ASSUME MaxRead \in Nat \ {0}, NEW l \in Nat
    PROVE  Guess(l, l) = 0 /\ l + 0 = l
  BY DEF Guess

\* Of a message of one record, decrypt gives as much as it takes it to be long.
LEMMA OneRecord ==
    ASSUME CryptorAssumption, suite \in Suites, readBIO = <<>>,
           NEW m \in Secret, NEW n \in Nat \ {0}, NEW records, records = <<Record(m, n)>>,
           NEW l \in 0..n, l = n + (suite.overhead - Overhead)
    PROVE  LET s == Decrypt(records)
           IN  /\ s.threw = FALSE /\ s.pending = Left(m, n, l)
               /\ Output(s) = Bytes(m, l)
<1>1. /\ records \in Seq(DataRecord) /\ DataIn(records) = n
      /\ FrameLength(records) - Overhead = l
  BY OneGuessed, Zenon
<1>2. Entering(records) = Reading(m, n, l, 0)
  <2>1. Entering(records) = State(l, 0, Guess(l, 0), <<>>, records)
    <3>1. readBIO \o records = records
      BY <1>1
    <3>. QED
      BY <1>1, <3>1, Entered, Zenon
  <2>2. Bytes(m, 0) = <<>>
    BY DEF Bytes
  <2>3. Left(m, n, 0) = records
    <3>1. n # 0 /\ n - 0 = n
      OBVIOUS
    <3>. QED
      BY <3>1, Zenon DEF Left
  <2>4. 0 + Guess(l, 0) = Guess(l, 0)
    BY DEF Guess, CryptorAssumption
  <2>. QED
    BY <2>1, <2>2, <2>3, <2>4, Zenon DEF Reading
<1>3. Entering(records).pending = records
  <2>1. Entering(records) = State(l, 0, Guess(l, 0), <<>>, records)
    <3>1. readBIO \o records = records
      BY <1>1
    <3>. QED
      BY <1>1, <3>1, Entered, Zenon
  <2>. QED
    BY <2>1, Fields
<1>. DEFINE Read(i) == {x \in 0..l : x = l \/ i <= x}
            Kept == [i \in Nat |-> {Reading(m, n, l, x) : x \in Read(i)}]
<1>4. Reading(m, n, l, 0) \in Kept[0]
  OBVIOUS
<1>5. ASSUME NEW i \in 0..n, NEW t \in Kept[i] PROVE Turn(t) \in Kept[i + 1]
  <2>1. i \in Nat /\ i + 1 \in Nat
    OBVIOUS
  <2>2. PICK x \in Read(i) : t = Reading(m, n, l, x)
    BY <1>5, <2>1
  <2>3. CASE x = l
    <3>1. Turn(t) = Reading(m, n, l, x) /\ x \in Read(i + 1)
      BY <2>2, <2>3, ReadingTurn
    <3>. QED
      BY <2>1, <3>1
  <2>4. CASE x # l
    <3>1. PICK y \in x + 1..l : Turn(t) = Reading(m, n, l, y)
      BY <2>2, <2>4, ReadingTurn
    <3>2. y \in Read(i + 1)
      BY <2>1, <2>2, <2>4
    <3>. QED
      BY <2>1, <3>1, <3>2
  <2>. QED
    BY <2>3, <2>4
<1>6. Decrypt(records) \in Kept[n + 1]
  <2>. HIDE DEF Kept
  <2>1. PICK s : s = Entering(records)
    OBVIOUS
  <2>2. DataIn(s.pending) = n /\ s \in Kept[0]
    BY <1>1, <1>2, <1>3, <1>4, <2>1, Zenon
  <2>3. /\ DataIn(s.pending) \in Nat
        /\ \A i \in 0..DataIn(s.pending) : \A t \in Kept[i] : Turn(t) \in Kept[i + 1]
    BY <1>5, <2>2
  <2>4. Decrypt(records) \in Kept[DataIn(Entering(records).pending) + 1]
    BY <2>1, <2>2, <2>3, LoopInvariant, Zenon
  <2>. QED
    BY <2>1, <2>2, <2>4, Zenon
<1>7. Decrypt(records) = Reading(m, n, l, l)
  <2>1. PICK x \in Read(n + 1) : Decrypt(records) = Reading(m, n, l, x)
    BY <1>6
  <2>2. x = l
    OBVIOUS
  <2>. QED
    BY <2>1, <2>2, Zenon
<1>8. Decrypt(records) = State(l, l, l, Bytes(m, l), Left(m, n, l))
  <2>1. l \in Nat /\ MaxRead \in Nat \ {0}
    BY DEF CryptorAssumption
  <2>2. Guess(l, l) = 0 /\ l + 0 = l
    BY <2>1, GuessMet, Zenon
  <2>. QED
    BY <1>7, <2>2, Zenon DEF Reading
<1>. PICK s : s = Decrypt(records)
  OBVIOUS
<1>9. /\ s.threw = FALSE /\ s.pending = Left(m, n, l) /\ s.data = Bytes(m, l)
      /\ s.size = l /\ s.total = l
  <2>1. s = State(l, l, l, Bytes(m, l), Left(m, n, l))
    BY <1>8
  <2>2. s.threw = FALSE
    BY <2>1, Threw, Zenon
  <2>3. PICK d, q : d = Bytes(m, l) /\ q = Left(m, n, l)
    OBVIOUS
  <2>4. s = State(l, l, l, d, q)
    BY <2>1, <2>3, Zenon
  <2>5. s.total = l /\ s.size = l /\ s.data = d /\ s.pending = q
    BY <2>4, Fields
  <2>. QED
    BY <2>2, <2>3, <2>5, Zenon
<1>10. Output(s) = Bytes(m, l)
  <2>1. Output(s) = Bytes(m, l) \o [i \in 1..l - l |-> "zero"]
    BY <1>9, Zenon DEF Output
  <2>2. [i \in 1..l - l |-> "zero"] = <<>>
    OBVIOUS
  <2>3. Bytes(m, l) \o <<>> = Bytes(m, l)
    <3>1. Bytes(m, l) \in Seq(Secret)
      BY BytesMade
    <3>. QED
      BY <3>1
  <2>. QED
    BY <2>1, <2>2, <2>3, Zenon
<1>. QED
  BY <1>9, <1>10, Zenon

-----------------------------------------------------------------------------
\* The sums of the data of k records.
Ascends(k, records, f) ==
    /\ \A i \in 1..k : f[i] = f[i - 1] + Len(records[i].data)
    /\ \A i \in 1..k : Len(records[i].data) \in Nat
    /\ \A i \in 0..k : f[i] \in Nat /\ f[i] <= f[k]

\* The loop over k records: n of them are pending, l bytes of the first, and
\* total bytes are read, all of record j and a part of the next.
Behinds(k, records, j, pending) ==
    \A i \in 2..k - j : pending[i] = records[j + i]
Position(k, records, f, n, pending, l, total) ==
    \E j \in 0..k :
        /\ n = k - j
        /\ j = k => total = f[j]
        /\ j < k => total = f[j + 1] - l
        /\ Behinds(k, records, j, pending)

\* Some are, and the first of them is record m.
Amid(k, records, f, n, pending, l, total) ==
    /\ k \in Nat /\ n \in Nat \ {0} /\ l \in Nat /\ total \in Nat
    /\ Ascends(k, records, f) /\ Position(k, records, f, n, pending, l, total)
At(k, records, f, n, pending, l, total, m, sum) ==
    /\ m \in 1..k /\ sum \in Nat
    /\ n = k - m + 1 /\ sum = f[m] /\ total = sum - l /\ sum <= f[k]
    /\ \A i \in 2..n : pending[i] = records[m - 1 + i]

LEMMA Placed ==
    ASSUME NEW k, NEW records, NEW f, NEW n, NEW p, NEW l, NEW t,
           Amid(k, records, f, n, p, l, t)
    PROVE  \E m, sum : At(k, records, f, n, p, l, t, m, sum)
<1>. USE DEF Amid
<1>1. PICK j \in 0..k :
        /\ n = k - j
        /\ j < k => t = f[j + 1] - l
        /\ Behinds(k, records, j, p)
  BY Zenon DEF Position
<1>2. PICK m \in 1..k : m = j + 1 /\ j < k /\ n = k - m + 1 /\ m - 1 = j /\ n = k - j
  BY <1>1
<1>3. PICK sum : sum = f[m]
  OBVIOUS
<1>4. m \in 0..k
  OBVIOUS
<1>5. sum \in Nat /\ sum <= f[k]
  BY <1>3, <1>4, Zenon DEF Ascends
<1>6. t = sum - l
  BY <1>1, <1>2, <1>3, Zenon
<1>7. \A i \in 2..n : p[i] = records[m - 1 + i]
  BY <1>1, <1>2, Zenon DEF Behinds
<1>. QED
  BY <1>2, <1>3, <1>5, <1>6, <1>7, Zenon DEF At

\* A part of the first pending record is read.
SameBehind(n, p, q) == \A i \in 2..n : q[i] = p[i]

LEMMA PartRead ==
    ASSUME NEW k, NEW records, NEW f, NEW n, NEW p, NEW l, NEW t,
           Amid(k, records, f, n, p, l, t),
           NEW d \in 0..l, NEW q, SameBehind(n, p, q)
    PROVE  Position(k, records, f, n, q, l - d, t + d) /\ t + d <= f[k]
<1>1. PICK m, sum : At(k, records, f, n, p, l, t, m, sum)
  BY Placed, Zenon
<1>2. /\ k \in Nat /\ l \in Nat /\ t \in Nat /\ m \in 1..k /\ sum \in Nat
      /\ n = k - m + 1 /\ t = sum - l /\ n \in Nat \ {0}
  BY <1>1 DEF At, Amid
<1>3. PICK j \in 0..k : j = m - 1 /\ n = k - j /\ j + 1 = m /\ j # k /\ j < k
  BY <1>2
<1>4. PICK sums \in Nat : sums = f[k] /\ sum <= sums
  <2>1. k \in 0..k
    BY <1>2
  <2>2. f[k] \in Nat /\ sum <= f[k]
    BY <1>1, <2>1, Zenon DEF At, Amid, Ascends
  <2>. QED
    BY <2>2, Zenon
<1>5. t + d = sum - (l - d) /\ t + d <= sums
  BY <1>2, <1>4
<1>6. Behinds(k, records, j, q)
  BY <1>1, <1>3, Zenon DEF Behinds, At, SameBehind
<1>7. t + d = f[j + 1] - (l - d)
  BY <1>1, <1>3, <1>5, Zenon DEF At
<1>. QED
  BY <1>3, <1>4, <1>5, <1>6, <1>7, Zenon DEF Position

\* All of it is.
OneFurther(n, p, q) == \A i \in 1..n - 1 : q[i] = p[i + 1]

LEMMA RecordRead ==
    ASSUME NEW k, NEW records, NEW f, NEW n, NEW p, NEW l, NEW t,
           Amid(k, records, f, n, p, l, t),
           NEW q, OneFurther(n, p, q)
    PROVE  Position(k, records, f, n - 1, q, Len(q[1].data), t + l) /\ t + l <= f[k]
<1>1. PICK m, sum : At(k, records, f, n, p, l, t, m, sum)
  BY Placed, Zenon
<1>2. /\ k \in Nat /\ l \in Nat /\ t \in Nat /\ m \in 1..k /\ sum \in Nat
      /\ n = k - m + 1 /\ t = sum - l /\ n \in Nat \ {0}
  BY <1>1 DEF At, Amid
<1>3. m \in 0..k /\ n - 1 = k - m
  BY <1>2
<1>4. t + l = sum
  BY <1>2
<1>5. sum = f[m] /\ sum <= f[k]
  BY <1>1 DEF At
<1>6. \A i \in 1..n - 1 : q[i] = records[m + i]
  <2>1. ASSUME NEW i \in 1..n - 1 PROVE q[i] = records[m + i]
    <3>1. i + 1 \in 2..n /\ m - 1 + (i + 1) = m + i
      BY <1>2
    <3>2. p[i + 1] = records[m - 1 + (i + 1)]
      BY <1>1, <3>1, Zenon DEF At
    <3>3. q[i] = p[i + 1]
      BY Zenon DEF OneFurther
    <3>. QED
      BY <3>1, <3>2, <3>3, Zenon
  <2>. QED
    BY <2>1
<1>7. Behinds(k, records, m, q)
  <2>1. \A i \in 2..k - m : i \in 1..n - 1
    BY <1>3
  <2>. QED
    BY <1>6, <2>1, Zenon DEF Behinds
<1>8. ASSUME m < k PROVE t + l = f[m + 1] - Len(q[1].data)
  <2>1. 1 \in 1..n - 1 /\ m + 1 \in 1..k /\ m + 1 - 1 = m
    BY <1>2, <1>8
  <2>2. PICK i \in 1..k : i = m + 1 /\ i - 1 = m
    BY <1>2, <1>8
  <2>3. q[1] = records[i]
    <3>1. q[1] = records[m + 1]
      BY <1>6, <2>1, Zenon
    <3>. QED
      BY <2>2, <3>1, Zenon
  <2>4. PICK x, next : x = Len(q[1].data) /\ next = f[i]
    OBVIOUS
  <2>5. Ascends(k, records, f)
    BY DEF Amid
  <2>6. x \in Nat
    BY <2>3, <2>4, <2>5, Zenon DEF Ascends
  <2>7. next = sum + x
    <3>1. f[i] = f[i - 1] + Len(records[i].data)
      BY <2>5, Zenon DEF Ascends
    <3>. QED
      BY <1>5, <2>2, <2>3, <2>4, <3>1, Zenon
  <2>8. next - x = sum
    BY <1>2, <2>6, <2>7
  <2>. QED
    BY <1>4, <2>2, <2>4, <2>8, Zenon
<1>. QED
  BY <1>3, <1>4, <1>5, <1>7, <1>8, Zenon DEF Position

\* What is pending behind d of the bytes of p's first record, l.
Cut(p, l, d) ==
    IF d < l
    THEN <<[type |-> "data", data |-> SubSeq(p[1].data, d + 1, l)]>> \o SubSeq(p, 2, Len(p))
    ELSE SubSeq(p, 2, Len(p))

LEMMA PositionMoves ==
    ASSUME NEW records \in Seq(DataRecord), NEW f, NEW k, k = Len(records),
           NEW p \in Seq(DataRecord), p # <<>>,
           NEW n, n = Len(p), NEW l, l = Len(p[1].data),
           NEW t, Amid(k, records, f, n, p, l, t),
           NEW d \in 1..l,
           NEW q, q = Cut(p, l, d)
    PROVE  /\ q \in Seq(DataRecord)
           /\ Position(k, records, f, Len(q), q, Len(q[1].data), t + d)
           /\ t + d <= f[k]
<1>1. PICK rest : rest = SubSeq(p, 2, Len(p))
  OBVIOUS
<1>2. n \in Nat \ {0} /\ l \in Nat /\ p[1] \in DataRecord
  <2>1. n \in Nat \ {0} /\ l \in Nat
    BY Zenon DEF Amid
  <2>. QED
    BY <2>1
<1>3. rest \in Seq(DataRecord) /\ Len(rest) = n - 1 /\ OneFurther(n, p, rest)
  <2>1. /\ rest \in Seq(DataRecord) /\ Len(rest) = Len(p) - 1
        /\ \A i \in 1..Len(p) - 1 : rest[i] = p[i + 1]
    BY <1>1, Behind, Zenon
  <2>. QED
    BY <2>1, Zenon DEF OneFurther
<1>4. CASE d < l
  <2>1. PICK data \in Seq(Secret) : data = p[1].data
    BY <1>2 DEF DataRecord
  <2>2. PICK bytes : bytes = SubSeq(data, d + 1, l)
    OBVIOUS
  <2>3. bytes \in Seq(Secret) /\ Len(bytes) = l - d /\ bytes # <<>>
    <3>1. Len(data) = l
      BY <2>1, Zenon
    <3>2. Len(bytes) = l - d
      BY <1>2, <1>4, <2>2, <3>1
    <3>3. bytes \in Seq(Secret)
      BY <1>2, <2>2, <3>1
    <3>. QED
      BY <1>2, <1>4, <3>2, <3>3
  <2>4. PICK r : r = [type |-> "data", data |-> bytes]
    OBVIOUS
  <2>5. r \in DataRecord /\ r.data = bytes
    BY <2>3, <2>4 DEF DataRecord
  <2>6. q = <<r>> \o rest
    BY <1>1, <1>4, <2>1, <2>2, <2>4, Zenon DEF Cut
  <2>7. /\ q \in Seq(DataRecord) /\ Len(q) = Len(rest) + 1 /\ q[1] = r
        /\ \A i \in 2..Len(rest) + 1 : q[i] = rest[i - 1]
    BY <1>3, <2>5, <2>6, InFront
  <2>8. Len(rest) + 1 = n
    BY <1>2, <1>3
  <2>9. SameBehind(n, p, q)
    <3>1. ASSUME NEW i \in 2..n PROVE q[i] = p[i]
      <4>1. i - 1 \in 1..n - 1 /\ i - 1 + 1 = i
        BY <1>2
      <4>2. rest[i - 1] = p[i - 1 + 1]
        BY <1>3, <4>1, Zenon DEF OneFurther
      <4>. QED
        BY <2>7, <2>8, <4>1, <4>2, Zenon
    <3>. QED
      BY <3>1, Zenon DEF SameBehind
  <2>10. Len(q[1].data) = l - d /\ Len(q) = n
    BY <2>3, <2>5, <2>7, <2>8, Zenon
  <2>11. d \in 0..l
    OBVIOUS
  <2>12. Position(k, records, f, n, q, l - d, t + d) /\ t + d <= f[k]
    BY <2>9, <2>11, PartRead, Zenon
  <2>. QED
    BY <2>7, <2>10, <2>12, Zenon
<1>5. CASE ~ (d < l)
  <2>1. d = l
    BY <1>2, <1>5
  <2>2. q = rest
    BY <1>1, <1>5, Zenon DEF Cut
  <2>3. Position(k, records, f, n - 1, rest, Len(rest[1].data), t + l) /\ t + l <= f[k]
    BY <1>3, RecordRead, Zenon
  <2>. QED
    BY <1>3, <2>1, <2>2, <2>3, Zenon
<1>. QED
  BY <1>4, <1>5, Zenon

-----------------------------------------------------------------------------
\* With records other than one, or a suite that adds more than decrypt reckons with,
\* or too short a message, decrypt's idea of the length is never met.
LEMMA Misjudged ==
    ASSUME NEW over \in Nat \ {0}, NEW o \in Nat, 2 * o > over, MaxRead \in Nat \ {0},
           NEW k \in Nat, NEW sums \in Nat, k = 0 => sums = 0,
           NEW l, l = sums + (k * o - over), k # 1 \/ o > over \/ l < 0, NEW t \in 0..sums
    PROVE  Guess(l, t) \in Nat \ {0}
<1>1. CASE k = 0
  <2>1. sums = 0 /\ t = 0 /\ 0 * o = 0 /\ over # 0
    BY <1>1
  <2>2. l - t < 0
    BY <1>1, <2>1
  <2>. QED
    BY <2>2 DEF Guess
<1>2. CASE k = 1
  <2>1. k * o = o
    BY <1>2
  <2>2. CASE o > over
    <3>1. l - t \in Nat \ {0}
      BY <2>1, <2>2
    <3>. QED
      BY <3>1 DEF Guess
  <2>3. CASE l < 0
    <3>1. l - t < 0
      BY <2>1, <2>3
    <3>. QED
      BY <3>1 DEF Guess
  <2>. QED
    BY <1>2, <2>2, <2>3
<1>3. CASE k # 0 /\ k # 1
  <2>1. PICK j \in Nat : j = k - 2
    BY <1>3
  <2>2. PICK more \in Nat : more = j * o
    OBVIOUS
  <2>3. k * o = more + 2 * o
    <3>1. (j + 2) * o = j * o + 2 * o
      OBVIOUS
    <3>2. k = j + 2
      BY <2>1
    <3>. QED
      BY <2>2, <3>1, <3>2
  <2>4. l - t \in Nat \ {0}
    <3>1. l = sums + (more + 2 * o - over)
      BY <2>3
    <3>. QED
      BY <3>1
  <2>. QED
    BY <2>4 DEF Guess
<1>. QED
  BY <1>1, <1>2, <1>3

\* The states of the loop over such records: those in which it asks for more,
\* with at least i bytes read, and those in which it has thrown.
ReadsOn(k, records, f, i, s) ==
    /\ i <= s.total /\ s.total < s.size /\ s.total <= f[k]
    /\ Position(k, records, f, Len(s.pending), s.pending, Len(s.pending[1].data), s.total)
States(l) ==
    {State(l, t, z, d, p) : t \in Nat, z \in Nat, d \in Seq(Secret), p \in Seq(DataRecord)}
Unread(k, records, f, l, i) == {s \in States(l) : ReadsOn(k, records, f, i, s)}
Thrown(l) == {Failed(l, t, z, d, <<>>) : t \in Nat, z \in Nat, d \in Seq(Secret)}

LEMMA Listed ==
    ASSUME NEW l, NEW s
    PROVE  s \in States(l) <=>
             \E t \in Nat, z \in Nat, d \in Seq(Secret), p \in Seq(DataRecord) :
                s = State(l, t, z, d, p)
  BY DEF States

LEMMA ThrownListed ==
    ASSUME NEW l, NEW s
    PROVE  s \in Thrown(l) <=>
             \E t \in Nat, z \in Nat, d \in Seq(Secret) : s = Failed(l, t, z, d, <<>>)
  BY DEF Thrown

\* A turn that reads b and leaves q pending, and what it makes of the rest.
Finds(l, t, z, d, p, b, q, total, size, data) ==
    /\ Guess(l, t) # 0 /\ b # <<>>
    /\ SslRead(p, z - t).bytes = b /\ SslRead(p, z - t).pending = q
    /\ total = t + Len(b) /\ size = z + Guess(l, total) /\ data = d \o b

LEMMA TurnFinds ==
    ASSUME NEW l, NEW t, NEW z, NEW d, NEW p, NEW b, NEW q, NEW total, NEW size, NEW data,
           Finds(l, t, z, d, p, b, q, total, size, data)
    PROVE  Turn(State(l, t, z, d, p)) = State(l, total, size, data, q)
<1>1. /\ Guess(l, t) # 0 /\ b # <<>>
      /\ SslRead(p, z - t).bytes = b /\ SslRead(p, z - t).pending = q
  BY Zenon DEF Finds
<1>2. total = t + Len(b) /\ size = z + Guess(l, total) /\ data = d \o b
  BY Zenon DEF Finds
<1>3. Turn(State(l, t, z, d, p)) =
        State(l, t + Len(b), z + Guess(l, t + Len(b)), d \o b, q)
  BY <1>1, TurnReads
<1>. QED
  BY <1>2, <1>3, Zenon

AlwaysAsks(l, sums) == \A t \in 0..sums : Guess(l, t) \in Nat \ {0}

LEMMA TurnAsks ==
    ASSUME NEW records \in Seq(DataRecord), NEW k, k = Len(records),
           NEW f, Ascends(k, records, f), NEW l, AlwaysAsks(l, f[k]),
           NEW i \in Nat, NEW s \in Unread(k, records, f, l, i)
    PROVE  Turn(s) \in Unread(k, records, f, l, i + 1) \cup Thrown(l)
<1>1. PICK t \in Nat, z \in Nat, d \in Seq(Secret), p \in Seq(DataRecord) : s = State(l, t, z, d, p)
  <2>1. s \in States(l)
    BY Zenon DEF Unread
  <2>. QED
    BY <2>1, Listed, Zenon
<1>2. ReadsOn(k, records, f, i, s)
  BY Zenon DEF Unread
<1>3. s.total = t /\ s.size = z /\ s.pending = p
  BY <1>1, Fields
<1>4. /\ i <= t /\ t < z /\ t <= f[k]
      /\ Position(k, records, f, Len(p), p, Len(p[1].data), t)
  BY <1>2, <1>3, Zenon DEF ReadsOn
<1>5. PICK sums \in Nat : sums = f[k]
  <2>1. k \in 0..k
    OBVIOUS
  <2>. QED
    BY <2>1, Zenon DEF Ascends
<1>6. \A x \in 0..sums : Guess(l, x) \in Nat \ {0}
  BY <1>5, Zenon DEF AlwaysAsks
<1>7. t \in 0..sums
  BY <1>4, <1>5
<1>8. Guess(l, t) # 0
  BY <1>6, <1>7, Zenon
<1>9. CASE p = <<>>
  <2>1. SslRead(p, z - t).bytes = <<>>
    <3>1. SslRead(p, z - t) = [bytes |-> <<>>, pending |-> <<>>]
      BY <1>9, ReadsNothing
    <3>. QED
      BY <3>1
  <2>2. Turn(State(l, t, z, d, p)) = Failed(l, t, z, d, p)
    BY <1>8, <2>1, TurnThrows
  <2>. QED
    <3>1. Failed(l, t, z, d, <<>>) \in Thrown(l)
      BY ThrownListed, Zenon
    <3>. QED
      BY <1>1, <1>9, <2>2, <3>1, Zenon
<1>10. CASE p # <<>>
  <2>1. PICK data : data = p[1].data
    OBVIOUS
  <2>2. PICK n \in Nat \ {0} : n = z - t
    BY <1>4
  <2>3. p[1] \in DataRecord /\ Len(p) \in Nat \ {0}
    BY <1>10
  <2>4. data \in Seq(Secret) /\ Len(data) \in Nat \ {0}
    BY <2>1, <2>3 DEF DataRecord
  <2>5. PICK e \in 1..Len(data) :
          /\ e = IF n < Len(data) THEN n ELSE Len(data)
          /\ SslRead(p, n).bytes = SubSeq(data, 1, e)
          /\ SslRead(p, n).pending = Cut(p, Len(data), e)
    <3>1. \E e \in 1..Len(data) :
            /\ e = IF n < Len(data) THEN n ELSE Len(data)
            /\ SslRead(p, n).bytes = SubSeq(data, 1, e)
            /\ SslRead(p, n).pending =
                 IF e < Len(data)
                 THEN <<[type |-> "data", data |-> SubSeq(data, e + 1, Len(data))]>>
                         \o SubSeq(p, 2, Len(p))
                 ELSE SubSeq(p, 2, Len(p))
      BY <1>10, <2>1, ReadsFirst, Zenon
    <3>. QED
      BY <2>1, <3>1, Zenon DEF Cut
  <2>6. PICK b, q : b = SubSeq(data, 1, e) /\ q = Cut(p, Len(data), e)
    OBVIOUS
  <2>7. b \in Seq(Secret) /\ Len(b) = e /\ b # <<>>
    <3>1. Len(b) = e
      BY <2>4, <2>6
    <3>2. b \in Seq(Secret)
      BY <2>4, <2>6
    <3>. QED
      BY <3>1, <3>2
  <2>8. SslRead(p, z - t).bytes = b /\ SslRead(p, z - t).pending = q
    BY <2>2, <2>5, <2>6, Zenon
  <2>9. Amid(k, records, f, Len(p), p, Len(data), t)
    <3>1. k \in Nat
      OBVIOUS
    <3>. QED
      BY <1>4, <2>1, <2>3, <2>4, <3>1, Zenon DEF Amid
  <2>10. /\ q \in Seq(DataRecord)
         /\ Position(k, records, f, Len(q), q, Len(q[1].data), t + e)
         /\ t + e <= f[k]
    BY <1>10, <2>1, <2>6, <2>9, PositionMoves, Zenon
  <2>11. PICK y \in 0..sums : y = t + e /\ i + 1 <= y /\ e \in Nat
    BY <1>4, <1>5, <2>4, <2>5, <2>10
  <2>12. PICK more \in Nat \ {0} : more = Guess(l, y)
    BY <1>6, <2>11
  <2>13. PICK d2 : d2 = d \o b
    OBVIOUS
  <2>14. d2 \in Seq(Secret)
    BY <2>7, <2>13
  <2>15. PICK z2 \in Nat : z2 = z + more /\ y < z2
    <3>1. n = z - t /\ e <= n
      BY <2>2, <2>4, <2>5
    <3>. QED
      BY <2>11, <2>12, <3>1
  <2>16. Turn(State(l, t, z, d, p)) = State(l, y, z2, d2, q)
    <3>1. Finds(l, t, z, d, p, b, q, y, z2, d2)
      BY <1>8, <2>7, <2>8, <2>11, <2>12, <2>13, <2>15, Zenon DEF Finds
    <3>. QED
      BY <3>1, TurnFinds
  <2>17. PICK s2 : s2 = State(l, y, z2, d2, q)
    OBVIOUS
  <2>18. s2.total = y /\ s2.size = z2 /\ s2.pending = q
    BY <2>17, Fields
  <2>19. ReadsOn(k, records, f, i + 1, s2)
    BY <2>10, <2>11, <2>15, <2>18, Zenon DEF ReadsOn
  <2>20. y \in Nat
    OBVIOUS
  <2>21. s2 \in Unread(k, records, f, l, i + 1)
    BY <2>10, <2>14, <2>17, <2>19, <2>20, Listed, Zenon DEF Unread
  <2>. QED
    BY <1>1, <2>16, <2>17, <2>21, Zenon
<1>. QED
  BY <1>9, <1>10, Zenon

\* So decrypt throws, with nothing left of them in the session.
LEMMA ThrowsUnlessMet ==
    ASSUME CryptorAssumption, suite \in Suites, readBIO = <<>>,
           NEW records \in Seq(DataRecord),
           \/ Len(records) # 1 \/ suite.overhead > Overhead
           \/ FrameLength(records) - Overhead < 0
    PROVE  Decrypt(records).threw = TRUE /\ Decrypt(records).pending = <<>>
<1>1. PICK k \in Nat : k = Len(records)
  OBVIOUS
<1>2. PICK f : /\ f[0] = 0
               /\ \A i \in 1..k : /\ f[i] = f[i - 1] + Len(records[i].data)
                                  /\ Len(records[i].data) \in Nat \ {0}
               /\ \A i \in 0..k : f[i] \in Nat /\ f[i] <= f[k]
               /\ DataIn(records) = f[k]
               /\ FrameLength(records) - Overhead = f[k] + (k * suite.overhead - Overhead)
  BY <1>1, LengthGuessed, Zenon
<1>3. Ascends(k, records, f) /\ (k = 0 => f[k] = 0)
  <2>1. \A i \in 1..k : f[i] = f[i - 1] + Len(records[i].data)
    BY <1>2, Zenon
  <2>2. \A i \in 1..k : Len(records[i].data) \in Nat
    BY <1>2
  <2>3. \A i \in 0..k : f[i] \in Nat /\ f[i] <= f[k]
    BY <1>2, Zenon
  <2>4. k = 0 => f[k] = 0
    BY <1>2, Zenon
  <2>. QED
    BY <2>1, <2>2, <2>3, <2>4, Zenon DEF Ascends
<1>4. PICK l : l = f[k] + (k * suite.overhead - Overhead)
  OBVIOUS
<1>5. PICK sums \in Nat : sums = f[k]
  <2>1. k \in 0..k
    OBVIOUS
  <2>. QED
    BY <1>2, <2>1, Zenon
<1>. AlwaysAsks(l, f[k])
  <2>1. ASSUME NEW t \in 0..sums PROVE Guess(l, t) \in Nat \ {0}
    <3>1. PICK o \in Nat, over \in Nat \ {0} : o = suite.overhead /\ over = Overhead /\ 2 * o > over
      BY SuiteAdds
    <3>2. l = sums + (k * o - over) /\ (k # 1 \/ o > over \/ l < 0)
      BY <1>1, <1>2, <1>4, <1>5, <3>1, Zenon
    <3>3. MaxRead \in Nat \ {0} /\ (k = 0 => sums = 0)
      BY <1>3, <1>5 DEF CryptorAssumption
    <3>. QED
      BY <3>1, <3>2, <3>3, Misjudged
  <2>. QED
    BY <1>5, <2>1, Zenon DEF AlwaysAsks
<1>6. PICK z \in Nat : z = Guess(l, 0) /\ 0 < z
  <2>1. 0 \in 0..sums
    OBVIOUS
  <2>2. Guess(l, 0) \in Nat \ {0}
    BY <1>5, <2>1, Zenon DEF AlwaysAsks
  <2>. QED
    BY <2>2
<1>7. Entering(records) = State(l, 0, z, <<>>, records)
  <2>1. Entering(records) =
             State(FrameLength(records) - Overhead, 0,
                   Guess(FrameLength(records) - Overhead, 0), <<>>, records)
    <3>1. readBIO \o records = records
      OBVIOUS
    <3>. QED
      BY <3>1, Entered, Zenon
  <2>. QED
    BY <1>2, <1>4, <1>6, <2>1, Zenon
<1>. PICK s : s = Entering(records)
  OBVIOUS
<1>8. s.total = 0 /\ s.size = z /\ s.pending = records
  BY <1>7, Fields
<1>9. Position(k, records, f, Len(records), records, Len(records[1].data), 0)
  <2>1. PICK j \in 0..k : j = 0 /\ Len(records) = k - j /\ j + 1 = 1
    BY <1>1
  <2>2. j = k => 0 = f[j]
    BY <1>2, <2>1, Zenon
  <2>3. ASSUME j < k PROVE 0 = f[j + 1] - Len(records[1].data)
    <3>1. 1 \in 1..k /\ 1 - 1 = 0
      BY <2>1, <2>3
    <3>2. f[1] = f[1 - 1] + Len(records[1].data) /\ Len(records[1].data) \in Nat \ {0}
      BY <1>2, <3>1, Zenon
    <3>3. f[1] = 0 + Len(records[1].data)
      BY <1>2, <3>1, <3>2, Zenon
    <3>4. PICK x \in Nat : x = Len(records[1].data)
      BY <3>2
    <3>5. PICK sum : sum = f[1]
      OBVIOUS
    <3>6. sum = 0 + x
      BY <3>3, <3>4, <3>5, Zenon
    <3>7. 0 = sum - x
      BY <3>6
    <3>. QED
      BY <2>1, <3>4, <3>5, <3>7, Zenon
  <2>4. Behinds(k, records, j, records)
    <3>1. \A i \in 2..k - j : j + i = i
      BY <1>1, <2>1
    <3>. QED
      BY <3>1, Zenon DEF Behinds
  <2>. QED
    BY <2>1, <2>2, <2>3, <2>4, Zenon DEF Position
<1>10. s \in Unread(k, records, f, l, 0)
  <2>1. 0 <= 0 /\ 0 <= f[k] /\ 0 \in Nat
    BY <1>5
  <2>2. ReadsOn(k, records, f, 0, s)
    BY <1>6, <1>8, <1>9, <2>1, Zenon DEF ReadsOn
  <2>3. <<>> \in Seq(Secret)
    OBVIOUS
  <2>. QED
    BY <1>7, <2>1, <2>2, <2>3, Listed, Zenon DEF Unread
<1>. DEFINE Kept == [i \in Nat |-> Unread(k, records, f, l, i) \cup Thrown(l)]
<1>11. s \in Kept[0]
  BY <1>10
<1>12. ASSUME NEW i \in Nat, NEW t \in Kept[i] PROVE Turn(t) \in Kept[i + 1]
  <2>1. Kept[i] = Unread(k, records, f, l, i) \cup Thrown(l)
        /\ Kept[i + 1] = Unread(k, records, f, l, i + 1) \cup Thrown(l)
    OBVIOUS
  <2>. HIDE DEF Kept
  <2>2. CASE t \in Unread(k, records, f, l, i)
    <3>2. Turn(t) \in Unread(k, records, f, l, i + 1) \cup Thrown(l)
      BY <1>1, <1>3, <2>2, TurnAsks, Zenon
    <3>. QED
      BY <2>1, <3>2, Zenon
  <2>3. CASE t \in Thrown(l)
    <3>1. PICK x \in Nat, y \in Nat, d \in Seq(Secret) : t = Failed(l, x, y, d, <<>>)
      BY <2>3, ThrownListed, Zenon
    <3>2. Turn(t) = t
      BY <3>1, TurnRests, Zenon
    <3>. QED
      BY <2>1, <2>3, <3>2, Zenon
  <2>. QED
    BY <1>12, <2>1, <2>2, <2>3, Zenon
<1>13. DataIn(s.pending) = sums
  BY <1>2, <1>5, <1>8, Zenon
<1>14. Decrypt(records) \in Kept[sums + 1]
  <2>. HIDE DEF Kept
  <2>1. /\ DataIn(s.pending) \in Nat
        /\ \A i \in 0..DataIn(s.pending) : \A t \in Kept[i] : Turn(t) \in Kept[i + 1]
    <3>1. sums \in Nat /\ \A i \in 0..sums : i \in Nat
      OBVIOUS
    <3>. QED
      BY <1>12, <1>13, <3>1, Zenon
  <2>2. Decrypt(records) \in Kept[DataIn(s.pending) + 1]
    BY <1>11, <2>1, LoopInvariant, Zenon
  <2>. QED
    BY <1>13, <2>2, Zenon
<1>15. Decrypt(records) \in Thrown(l)
  <2>1. Decrypt(records) \in Unread(k, records, f, l, sums + 1) \cup Thrown(l)
    BY <1>14
  <2>2. ASSUME Decrypt(records) \in Unread(k, records, f, l, sums + 1) PROVE FALSE
    <3>1. PICK t \in Nat, y \in Nat, d \in Seq(Secret), p \in Seq(DataRecord) :
            Decrypt(records) = State(l, t, y, d, p)
      BY <2>2, Listed, Zenon DEF Unread
    <3>2. Decrypt(records).total = t
      BY <3>1, Fields
    <3>3. ReadsOn(k, records, f, sums + 1, Decrypt(records))
      BY <2>2, Zenon DEF Unread
    <3>4. sums + 1 <= t /\ t <= sums
      BY <1>5, <3>2, <3>3, Zenon DEF ReadsOn
    <3>. QED
      BY <3>4
  <2>. QED
    BY <2>1, <2>2
<1>16. PICK t \in Nat, y \in Nat, d \in Seq(Secret) : Decrypt(records) = Failed(l, t, y, d, <<>>)
  BY <1>15, ThrownListed, Zenon
<1>17. Decrypt(records).threw = TRUE
  BY <1>16, Threw, Zenon
<1>18. Decrypt(records).pending = <<>>
  <2>1. PICK o, none : o = Decrypt(records) /\ none = <<>>
    OBVIOUS
  <2>2. o = Failed(l, t, y, d, none)
    BY <1>16, <2>1, Zenon
  <2>3. o.pending = none
    BY <2>2, FailedPending
  <2>. QED
    BY <2>1, <2>3, Zenon
<1>. QED
  BY <1>17, <1>18, Zenon

-----------------------------------------------------------------------------
\* The records of the phone's messages.
LEMMA RecordsMade ==
    ASSUME EntityAssumption, NEW m \in Secret
    PROVE  /\ Records(m) \in Seq(DataRecord)
           /\ Len(Records(m)) = 1 =>
                \E n \in Nat \ {0} : Records(m) = <<Record(m, n)>>
<1>1. PICK lengths \in Seq(Nat \ {0}) : lengths = Plaintext[m]
  BY DEF EntityAssumption
<1>2. PICK k \in Nat : k = Len(lengths) /\ DOMAIN lengths = 1..k
  BY <1>1
<1>3. \A i \in 1..k : lengths[i] \in Nat \ {0}
  BY <1>1, <1>2
<1>. DEFINE made == [i \in 1..k |-> Record(m, lengths[i])]
<1>4. Records(m) = made
  BY <1>1, <1>2, Zenon DEF Records
<1>5. ASSUME NEW i \in 1..k PROVE Record(m, lengths[i]) \in DataRecord
  <2>1. PICK n \in Nat \ {0} : n = lengths[i]
    BY <1>3
  <2>2. Bytes(m, n) \in Seq(Secret) /\ Bytes(m, n) # <<>>
    BY BytesMade
  <2>3. Record(m, n) = [type |-> "data", data |-> Bytes(m, n)]
    BY Zenon DEF Record, Bytes
  <2>4. Record(m, n) \in DataRecord
    BY <2>2, <2>3 DEF DataRecord
  <2>. QED
    BY <2>1, <2>4
<1>6. made \in Seq(DataRecord) /\ Len(made) = k /\ (k = 1 => made = <<made[1]>>)
  <2>1. \A i \in 1..k : made[i] \in DataRecord
    BY <1>5
  <2>2. made = [i \in 1..k |-> made[i]] /\ DOMAIN made = 1..k
    OBVIOUS
  <2>. HIDE DEF made
  <2>3. made \in [1..k -> DataRecord]
    BY <2>1, <2>2
  <2>4. made \in Seq(DataRecord)
    BY <2>3
  <2>5. Len(made) = k
    BY <2>2, <2>4
  <2>6. ASSUME k = 1 PROVE made = <<made[1]>>
    BY <2>4, <2>5, <2>6
  <2>. QED
    BY <2>4, <2>5, <2>6
<1>7. k = 1 => made[1] = Record(m, lengths[1]) /\ lengths[1] \in Nat \ {0}
  BY <1>3
<1>. HIDE DEF made
<1>. QED
  BY <1>4, <1>6, <1>7

\* With nothing before it in the session, a message whose decryption does not throw is
\* of one record, and gets the bytes that decrypt takes it to have, all of them if the
\* suite does not add less than that reckons with.
WholeOrCut(m, s) ==
    \E n \in Nat \ {0} : \E l \in 0..n :
        /\ Records(m) = <<Record(m, n)>>
        /\ s.pending = Left(m, n, l) /\ Output(s) = Bytes(m, l)
        /\ NothingCut => l = n

LEMMA Decrypted ==
    ASSUME CryptorAssumption, EntityAssumption, suite \in Suites, readBIO = <<>>,
           NEW m \in Secret
    PROVE  LET s == Decrypt(Records(m))
           IN  \/ s.threw = TRUE /\ s.pending = <<>>
               \/ WholeOrCut(m, s)
<1>1. PICK records : records = Records(m)
  OBVIOUS
<1>2. records \in Seq(DataRecord)
  BY <1>1, RecordsMade
<1>3. CASE \/ Len(records) # 1 \/ suite.overhead > Overhead
           \/ FrameLength(records) - Overhead < 0
  <2>1. Decrypt(records).threw = TRUE /\ Decrypt(records).pending = <<>>
    BY <1>2, <1>3, ThrowsUnlessMet, Zenon
  <2>. QED
    BY <1>1, <2>1, Zenon
<1>4. CASE /\ Len(records) = 1 /\ ~ (suite.overhead > Overhead)
           /\ ~ (FrameLength(records) - Overhead < 0)
  <2>1. PICK n \in Nat \ {0} : records = <<Record(m, n)>>
    BY <1>1, <1>4, RecordsMade
  <2>2. PICK l : l = n + (suite.overhead - Overhead)
    OBVIOUS
  <2>3. FrameLength(records) - Overhead = l
    BY <1>2, <1>4, <2>1, <2>2, OneGuessed
  <2>4. l \in 0..n /\ (NothingCut => l = n)
    BY <1>4, <2>2, <2>3, SuiteAdds DEF NothingCut
  <2>5. LET s == Decrypt(records)
        IN  /\ s.threw = FALSE /\ s.pending = Left(m, n, l)
            /\ Output(s) = Bytes(m, l)
    BY <2>1, <2>2, <2>4, OneRecord, Zenon
  <2>. QED
    BY <1>1, <2>1, <2>4, <2>5, Zenon DEF WholeOrCut
<1>. QED
  BY <1>3, <1>4, Zenon

-----------------------------------------------------------------------------
LEMMA DecryptedClean ==
    ASSUME CryptorAssumption, EntityAssumption, suite \in Suites, readBIO = <<>>,
           NEW m \in Secret, NothingCut
    PROVE  Decrypt(Records(m)).pending = <<>>
<1>1. \/ Decrypt(Records(m)).pending = <<>>
      \/ WholeOrCut(m, Decrypt(Records(m)))
  BY Decrypted, Zenon
<1>2. CASE WholeOrCut(m, Decrypt(Records(m)))
  BY <1>2, Zenon DEF WholeOrCut, Left
<1>. QED
  BY <1>1, <1>2

LEMMA RecordData ==
    ASSUME NEW m, NEW n, NEW records, records = <<Record(m, n)>>
    PROVE  records[1].data = Bytes(m, n)
<1>1. PICK record : record = Record(m, n)
  OBVIOUS
<1>2. record.data = Bytes(m, n)
  BY <1>1 DEF Record, Bytes
<1>3. records[1] = record
  BY <1>1
<1>. QED
  BY <1>2, <1>3, Zenon

IsBeginning(m, s) ==
    \E n \in 0..Len(Records(m)[1].data) :
        /\ Output(s) = SubSeq(Records(m)[1].data, 1, n)
        /\ NothingCut => n = Len(Records(m)[1].data)

LEMMA BeginningOf ==
    ASSUME NEW m \in Secret, NEW s, WholeOrCut(m, s)
    PROVE  IsBeginning(m, s)
<1>1. PICK n \in Nat \ {0} :
        \E l \in 0..n :
           /\ Records(m) = <<Record(m, n)>>
           /\ Output(s) = Bytes(m, l)
           /\ NothingCut => l = n
  BY Zenon DEF WholeOrCut
<1>2. PICK l \in 0..n :
        /\ Records(m) = <<Record(m, n)>>
        /\ Output(s) = Bytes(m, l)
        /\ NothingCut => l = n
  BY <1>1, Zenon
<1>3. PICK records, out : records = Records(m) /\ out = Output(s)
  OBVIOUS
<1>4. PICK data : data = records[1].data
  OBVIOUS
<1>5. n \in Nat /\ l \in 0..n
  OBVIOUS
<1>6. data = Bytes(m, n)
  <2>1. records = <<Record(m, n)>>
    BY <1>2, <1>3, Zenon
  <2>. QED
    BY <1>4, <2>1, RecordData
<1>7. Len(data) = n /\ SubSeq(data, 1, l) = out
  <2>1. Len(Bytes(m, n)) = n
    BY BytesMade
  <2>2. SubSeq(Bytes(m, n), 1, l) = Bytes(m, l)
    BY BytesCut
  <2>. QED
    BY <1>2, <1>3, <1>6, <2>1, <2>2, Zenon
<1>8. \E k \in 0..Len(data) : out = SubSeq(data, 1, k) /\ (NothingCut => k = Len(data))
  BY <1>2, <1>5, <1>7, Zenon
<1>. QED
  BY <1>3, <1>4, <1>8, Zenon DEF IsBeginning

LEMMA DecryptedBytes ==
    ASSUME CryptorAssumption, EntityAssumption, suite \in Suites, readBIO = <<>>,
           NEW m \in Secret
    PROVE  Decrypt(Records(m)).threw \/ IsBeginning(m, Decrypt(Records(m)))
<1>1. Decrypt(Records(m)).threw = TRUE \/ WholeOrCut(m, Decrypt(Records(m)))
  BY Decrypted, Zenon
<1>. QED
  BY <1>1, BeginningOf, Zenon

\* Whatever was left of other messages, what is left are records with data.
LEMMA CutTyped ==
    ASSUME NEW p \in Seq(DataRecord), p # <<>>, NEW l, l = Len(p[1].data), NEW d \in 1..l
    PROVE  Cut(p, l, d) \in Seq(DataRecord)
<1>1. PICK rest : rest = SubSeq(p, 2, Len(p))
  OBVIOUS
<1>2. rest \in Seq(DataRecord) /\ p[1] \in DataRecord
  BY <1>1, Behind, Zenon
<1>3. CASE d < l
  <2>1. PICK data \in Seq(Secret) : data = p[1].data
    BY <1>2 DEF DataRecord
  <2>2. PICK bytes : bytes = SubSeq(data, d + 1, l)
    OBVIOUS
  <2>3. l \in Nat /\ l = Len(data)
    BY <2>1
  <2>4. bytes \in Seq(Secret) /\ bytes # <<>>
    <3>1. Len(bytes) = l - d
      BY <1>3, <2>2, <2>3
    <3>2. bytes \in Seq(Secret)
      BY <2>2, <2>3
    <3>. QED
      BY <1>3, <2>3, <3>1, <3>2
  <2>5. PICK r : r = [type |-> "data", data |-> bytes]
    OBVIOUS
  <2>6. r \in DataRecord
    BY <2>4, <2>5 DEF DataRecord
  <2>7. Cut(p, l, d) = <<r>> \o rest
    BY <1>1, <1>3, <2>1, <2>2, <2>5, Zenon DEF Cut
  <2>. QED
    BY <1>2, <2>6, <2>7, InFront
<1>4. CASE ~ (d < l)
  BY <1>1, <1>2, <1>4, Zenon DEF Cut
<1>. QED
  BY <1>3, <1>4

\* The states of the loop over any records: more is asked for than was read, unless
\* nothing is asked for.
Asks(l, t, z) == t <= z /\ (Guess(l, t) # 0 => t < z)
Running(l) == {s \in States(l) : Asks(l, s.total, s.size)}
Ended(l) ==
    {Failed(l, t, z, d, p) : t \in Nat, z \in Nat, d \in Seq(Secret), p \in Seq(DataRecord)}

LEMMA EndedListed ==
    ASSUME NEW l, NEW s
    PROVE  s \in Ended(l) <=>
             \E t \in Nat, z \in Nat, d \in Seq(Secret), p \in Seq(DataRecord) :
                s = Failed(l, t, z, d, p)
  BY DEF Ended

LEMMA GuessTyped ==
    ASSUME MaxRead \in Nat, NEW l \in Int, NEW t \in Nat
    PROVE  Guess(l, t) \in Nat
  BY DEF Guess

LEMMA TurnRuns ==
    ASSUME MaxRead \in Nat, NEW l \in Int, NEW s \in Running(l)
    PROVE  Turn(s) \in Running(l) \cup Ended(l)
<1>1. PICK t \in Nat, z \in Nat, d \in Seq(Secret), p \in Seq(DataRecord) : s = State(l, t, z, d, p)
  <2>1. s \in States(l)
    BY Zenon DEF Running
  <2>. QED
    BY <2>1, Listed, Zenon
<1>2. s.total = t /\ s.size = z
  BY <1>1, Fields
<1>3. t <= z /\ (Guess(l, t) # 0 => t < z)
  BY <1>2, Zenon DEF Running, Asks
<1>4. CASE Guess(l, t) = 0
  <2>1. Turn(s) = s
    BY <1>1, <1>4, TurnRests, Zenon
  <2>. QED
    BY <2>1, Zenon
<1>5. CASE Guess(l, t) # 0 /\ p = <<>>
  <2>1. SslRead(p, z - t).bytes = <<>>
    <3>1. SslRead(p, z - t) = [bytes |-> <<>>, pending |-> <<>>]
      BY <1>5, ReadsNothing
    <3>. QED
      BY <3>1
  <2>2. Turn(s) = Failed(l, t, z, d, p)
    BY <1>1, <1>5, <2>1, TurnThrows, Zenon
  <2>. QED
    BY <2>2, EndedListed, Zenon
<1>6. CASE Guess(l, t) # 0 /\ p # <<>>
  <2>1. PICK data : data = p[1].data
    OBVIOUS
  <2>2. PICK n \in Nat \ {0} : n = z - t
    BY <1>3, <1>6
  <2>3. p[1] \in DataRecord
    BY <1>6
  <2>4. data \in Seq(Secret) /\ Len(data) \in Nat \ {0}
    BY <2>1, <2>3 DEF DataRecord
  <2>5. PICK e \in 1..Len(data) :
          /\ e = IF n < Len(data) THEN n ELSE Len(data)
          /\ SslRead(p, n).bytes = SubSeq(data, 1, e)
          /\ SslRead(p, n).pending = Cut(p, Len(data), e)
    <3>1. \E e \in 1..Len(data) :
            /\ e = IF n < Len(data) THEN n ELSE Len(data)
            /\ SslRead(p, n).bytes = SubSeq(data, 1, e)
            /\ SslRead(p, n).pending =
                 IF e < Len(data)
                 THEN <<[type |-> "data", data |-> SubSeq(data, e + 1, Len(data))]>>
                         \o SubSeq(p, 2, Len(p))
                 ELSE SubSeq(p, 2, Len(p))
      BY <1>6, <2>1, ReadsFirst, Zenon
    <3>. QED
      BY <2>1, <3>1, Zenon DEF Cut
  <2>6. PICK b, q : b = SubSeq(data, 1, e) /\ q = Cut(p, Len(data), e)
    OBVIOUS
  <2>7. b \in Seq(Secret) /\ Len(b) = e /\ b # <<>>
    <3>1. Len(b) = e
      BY <2>4, <2>6
    <3>2. b \in Seq(Secret)
      BY <2>4, <2>6
    <3>. QED
      BY <3>1, <3>2
  <2>8. SslRead(p, z - t).bytes = b /\ SslRead(p, z - t).pending = q
    BY <2>2, <2>5, <2>6, Zenon
  <2>9. q \in Seq(DataRecord)
    BY <1>6, <2>1, <2>6, CutTyped, Zenon
  <2>10. PICK y \in Nat : y = t + e /\ y <= z
    BY <2>2, <2>4, <2>5
  <2>11. PICK more \in Nat : more = Guess(l, y)
    BY GuessTyped
  <2>12. PICK z2 \in Nat : z2 = z + more
    OBVIOUS
  <2>13. y <= z2 /\ (more # 0 => y < z2)
    BY <2>10, <2>12
  <2>14. PICK d2 \in Seq(Secret) : d2 = d \o b
    BY <2>7, ConcatProperties, Zenon
  <2>15. Turn(State(l, t, z, d, p)) = State(l, y, z2, d2, q)
    <3>1. Finds(l, t, z, d, p, b, q, y, z2, d2)
      BY <1>6, <2>7, <2>8, <2>10, <2>11, <2>12, <2>14, Zenon DEF Finds
    <3>. QED
      BY <3>1, TurnFinds
  <2>16. PICK s2 : s2 = State(l, y, z2, d2, q)
    OBVIOUS
  <2>17. s2.total = y /\ s2.size = z2
    BY <2>16, Fields
  <2>18. Asks(l, s2.total, s2.size)
    BY <2>11, <2>13, <2>17, Zenon DEF Asks
  <2>19. s2 \in Running(l)
    BY <2>9, <2>16, <2>18, Listed, Zenon DEF Running
  <2>. QED
    BY <1>1, <2>15, <2>16, <2>19, Zenon
<1>. QED
  BY <1>4, <1>5, <1>6, Zenon

LEMMA PendingTyped ==
    ASSUME CryptorAssumption, suite \in Suites, readBIO \in Seq(DataRecord),
           NEW records \in Seq(DataRecord)
    PROVE  Decrypt(records).pending \in Seq(DataRecord)
<1>1. PICK pending \in Seq(DataRecord) : pending = readBIO \o records
  BY ConcatProperties, Zenon
<1>2. PICK l \in Int : l = FrameLength(records) - Overhead
  <2>1. PICK f : /\ \A i \in 0..Len(records) : f[i] \in Nat /\ f[i] <= f[Len(records)]
                 /\ FrameLength(records) - Overhead =
                      f[Len(records)] + (Len(records) * suite.overhead - Overhead)
    BY LengthGuessed, Zenon
  <2>2. PICK k \in Nat : k = Len(records) /\ k \in 0..k
    OBVIOUS
  <2>3. f[k] \in Nat
    BY <2>1, <2>2, Zenon
  <2>4. f[k] + (k * suite.overhead - Overhead) \in Int
    BY <2>3, SuiteAdds
  <2>. QED
    BY <2>1, <2>2, <2>4, Zenon
<1>3. DataIn(pending) \in Nat
  <2>1. PICK f : /\ \A i \in 0..Len(pending) : f[i] \in Nat /\ f[i] <= f[Len(pending)]
                 /\ DataIn(pending) = f[Len(pending)]
    BY LengthGuessed, Zenon
  <2>2. PICK k \in Nat : k = Len(pending) /\ k \in 0..k
    OBVIOUS
  <2>. QED
    BY <2>1, <2>2, Zenon
<1>4. MaxRead \in Nat
  BY DEF CryptorAssumption
<1>5. PICK z \in Nat : z = Guess(l, 0)
  BY <1>4, GuessTyped
<1>6. PICK none \in Seq(Secret) : none = <<>>
  <2>1. <<>> \in Seq(Secret)
    OBVIOUS
  <2>. QED
    BY <2>1, Zenon
<1>7. PICK s : s = Entering(records)
  OBVIOUS
<1>8. s = State(l, 0, z, none, pending)
  BY <1>1, <1>2, <1>5, <1>6, <1>7, Entered, Zenon
<1>9. s.total = 0 /\ s.size = z /\ s.pending = pending
  BY <1>8, Fields
<1>10. s \in Running(l)
  <2>1. 0 \in Nat /\ 0 <= z /\ (z # 0 => 0 < z)
    BY <1>5
  <2>2. Asks(l, s.total, s.size)
    BY <1>5, <1>9, <2>1, Zenon DEF Asks
  <2>. QED
    BY <1>8, <2>1, <2>2, Listed, Zenon DEF Running
<1>. DEFINE Kept == [i \in Nat |-> Running(l) \cup Ended(l)]
<1>11. \A i \in Nat : Kept[i] = Running(l) \cup Ended(l)
  OBVIOUS
<1>. HIDE DEF Kept
<1>12. ASSUME NEW t \in Running(l) \cup Ended(l) PROVE Turn(t) \in Running(l) \cup Ended(l)
  <2>1. CASE t \in Running(l)
    BY <1>4, <2>1, TurnRuns, Zenon
  <2>2. CASE t \in Ended(l)
    <3>1. PICK x \in Nat, y \in Nat, d \in Seq(Secret), p \in Seq(DataRecord) :
            t = Failed(l, x, y, d, p)
      BY <2>2, EndedListed, Zenon
    <3>2. Turn(t) = t
      BY <3>1, TurnRests, Zenon
    <3>. QED
      BY <2>2, <3>2, Zenon
  <2>. QED
    BY <2>1, <2>2, Zenon
<1>13. PICK n \in Nat : n = DataIn(s.pending) /\ n + 1 \in Nat
  BY <1>3, <1>9
<1>14. \A i \in 0..n : i \in Nat /\ i + 1 \in Nat
  OBVIOUS
<1>15. s \in Kept[0] /\ \A i \in 0..n : \A t \in Kept[i] : Turn(t) \in Kept[i + 1]
  <2>1. 0 \in Nat
    OBVIOUS
  <2>. QED
    BY <1>10, <1>11, <1>12, <1>14, <2>1, Zenon
<1>16. Decrypt(records) \in Kept[n + 1]
  BY <1>7, <1>13, <1>15, LoopInvariant, Zenon
<1>17. Decrypt(records) \in Running(l) \cup Ended(l)
  BY <1>11, <1>13, <1>16, Zenon
<1>18. PICK t \in Nat, y \in Nat, d \in Seq(Secret), p \in Seq(DataRecord) :
         Decrypt(records) = State(l, t, y, d, p) \/ Decrypt(records) = Failed(l, t, y, d, p)
  <2>1. Decrypt(records) \in States(l) \/ Decrypt(records) \in Ended(l)
    BY <1>17, Zenon DEF Running
  <2>2. CASE Decrypt(records) \in States(l)
    <3>1. PICK t \in Nat, y \in Nat, d \in Seq(Secret), p \in Seq(DataRecord) :
            Decrypt(records) = State(l, t, y, d, p)
      BY <2>2, Listed, Zenon
    <3>. QED
      BY <3>1, Zenon
  <2>3. CASE Decrypt(records) \in Ended(l)
    <3>1. PICK t \in Nat, y \in Nat, d \in Seq(Secret), p \in Seq(DataRecord) :
            Decrypt(records) = Failed(l, t, y, d, p)
      BY <2>3, EndedListed, Zenon
    <3>. QED
      BY <3>1, Zenon
  <2>. QED
    BY <2>1, <2>2, <2>3, Zenon
<1>19. PICK o : o = Decrypt(records) /\ (o = State(l, t, y, d, p) \/ o = Failed(l, t, y, d, p))
  BY <1>18, Zenon
<1>20. o.pending = p
  BY <1>19, Fields
<1>. QED
  BY <1>18, <1>19, <1>20, Zenon

-----------------------------------------------------------------------------
\* Between the handlers the BIOs hold the end of a message that was cut, and flights of
\* TLS 1.3, until the session failed, which the App was told, or was freed.
Clean ==
    /\ suite \in Suites
    /\ readBIO \in Seq(DataRecord) /\ (NothingCut => readBIO = <<>>)
    /\ writeBIO \in Seq({Flight})
    /\ ssl = "failed" => quits # 0
    /\ eventHandler = "null" => ssl = "none"
    /\ ssl # "none" /\ quits = 0 /\ writeBIO # <<>>
         => suite.version = "TLSv1_3" /\ ssl = "connected"

\* A handler that gives up with a session has told the App.
LEMMA QuitCounts ==
    ASSUME IInv, Clean, GiveUp
    PROVE  /\ quits' = 0 => quits = 0
           /\ eventHandler # "unset" /\ ssl # "none" => quits' # 0
  BY DEF IInv, EntityShapes, Clean, GiveUp, TriggerQuit

LEMMA HandshakeClean ==
    ASSUME IInv, Clean, OnVersionResponse \/ OnHandshake \/ UsesFreedSession
    PROVE  Clean'
<1>1. /\ posted # <<>> /\ UNCHANGED eventHandler
      /\ eventHandler # "unset"
  BY DEF OnVersionResponse, OnHandshake, UsesFreedSession, Runs, outside, IInv
<1>2. ASSUME NEW done \in BOOLEAN, NEW records, DoHandshake(records, done),
             writeBIO' = <<>> \/ (done = TRUE /\ writeBIO' = Pending(TRUE)), UNCHANGED quits
      PROVE  Clean'
  <2>1. /\ ssl # "none" /\ ssl' = (IF done THEN "connected" ELSE "connecting")
        /\ readBIO' = <<>> /\ suite' = suite
    BY <1>2 DEF DoHandshake
  <2>2. suite' \in Suites /\ readBIO' \in Seq(DataRecord) /\ writeBIO' \in Seq({Flight})
    <3>1. <<>> \in Seq(DataRecord) /\ <<>> \in Seq({Flight})
      OBVIOUS
    <3>2. Append(writeBIO, Flight) \in Seq({Flight}) /\ writeBIO \in Seq({Flight})
      BY DEF Clean
    <3>. QED
      BY <1>2, <2>1, <3>1, <3>2, Zenon DEF Clean, Pending
  <2>3. ASSUME quits' = 0, writeBIO' # <<>>
        PROVE  suite.version = "TLSv1_3" /\ ssl' = "connected"
    <3>1. done = TRUE /\ writeBIO' = Pending(TRUE)
      BY <1>2, <2>3
    <3>2. ssl' = "connected"
      BY <2>1, <3>1
    <3>3. CASE suite.version = "TLSv1_2"
      <4>1. writeBIO' = writeBIO
        BY <3>1, <3>3 DEF Pending
      <4>. QED
        BY <1>2, <2>1, <2>3, <3>2, <4>1 DEF Clean
    <3>4. CASE suite.version # "TLSv1_2"
      <4>1. suite.version = "TLSv1_3"
        BY <3>4, CryptorAssumption DEF Clean, CryptorAssumption
      <4>. QED
        BY <3>2, <4>1
    <3>. QED
      BY <3>3, <3>4
  <2>. QED
    BY <1>1, <2>1, <2>2, <2>3 DEF Clean
<1>3. ASSUME DoHandshakeThrows, GiveUp PROVE Clean'
  <2>1. ssl # "none" /\ ssl' = "failed" /\ UNCHANGED <<suite, readBIO, writeBIO>>
    BY <1>3 DEF DoHandshakeThrows
  <2>2. quits' # 0
    BY <1>1, <1>3, <2>1, QuitCounts
  <2>. QED
    BY <1>1, <2>1, <2>2 DEF Clean, NothingCut
<1>4. CASE OnVersionResponse
  BY <1>2, <1>3, <1>4 DEF OnVersionResponse, ReadHandshakeBuffer, SendHandshake, Answer
<1>5. CASE OnHandshake
  BY <1>2, <1>3, <1>5 DEF OnHandshake, ReadHandshakeBuffer, SendHandshake, Answer
<1>6. CASE UsesFreedSession
  <2>1. ssl = "none" /\ UNCHANGED <<suite, ssl, readBIO, writeBIO>>
    BY <1>6 DEF UsesFreedSession, cryptorVars
  <2>. QED
    BY <1>1, <2>1 DEF Clean, NothingCut
<1>. QED
  BY <1>4, <1>5, <1>6

\* The other handlers do not touch the session.
LEMMA HandlersClean ==
    ASSUME IInv, Clean,
           \/ OnServiceDiscoveryRequest \/ OnFocusRequest \/ OnNotice
           \/ OnByeByeRequest \/ OnQuit \/ ReadsNoId
    PROVE  Clean'
<1>1. UNCHANGED <<eventHandler, suite, ssl, readBIO, writeBIO>>
  BY DEF OnServiceDiscoveryRequest, OnFocusRequest, OnNotice, OnByeByeRequest, OnQuit,
         ReadsNoId, Runs, outside, tlsVars, cryptorVars
<1>2. quits' = 0 => quits = 0
  BY QuitCounts DEF OnServiceDiscoveryRequest, OnFocusRequest, OnNotice, OnByeByeRequest,
     OnQuit, ReadsNoId, Answer
<1>. QED
  BY <1>1, <1>2 DEF Clean, NothingCut

LEMMA TransmitClean == ASSUME Clean, Transmit PROVE Clean'
<1>1. UNCHANGED <<eventHandler, quits>>
  BY DEF Transmit
<1>2. CASE UNCHANGED cryptorVars
  BY <1>1, <1>2 DEF Clean, NothingCut, cryptorVars
<1>3. CASE Encrypt
  <2>1. <<>> \in Seq({Flight})
    OBVIOUS
  <2>. QED
    BY <1>1, <1>3, <2>1 DEF Clean, NothingCut, Encrypt
<1>. QED
  BY <1>2, <1>3 DEF Transmit

LEMMA DeliverClean ==
    ASSUME CryptorAssumption, EntityAssumption, IInv, Clean, Deliver
    PROVE  Clean'
<1>1. /\ inbox # <<>> /\ UNCHANGED <<eventHandler, quits>>
  BY DEF Deliver
<1>2. CASE UNCHANGED cryptorVars
  BY <1>1, <1>2 DEF Clean, NothingCut, cryptorVars
<1>3. CASE ~ UNCHANGED cryptorVars
  <2>1. /\ Head(inbox) \in Secret /\ UNCHANGED <<suite, ssl, writeBIO>>
        /\ readBIO' = Decrypt(Records(Head(inbox))).pending
    BY <1>3, Zenon DEF Deliver, tlsVars
  <2>2. Records(Head(inbox)) \in Seq(DataRecord)
    BY <2>1, RecordsMade, Zenon
  <2>3. readBIO' \in Seq(DataRecord)
    BY <2>1, <2>2, PendingTyped, Zenon DEF Clean
  <2>4. NothingCut => readBIO' = <<>>
    BY <2>1, DecryptedClean, Zenon DEF Clean
  <2>. QED
    BY <1>1, <2>1, <2>3, <2>4, Zenon DEF Clean, NothingCut
<1>. QED
  BY <1>2, <1>3

LEMMA NextClean == IInv /\ Clean /\ [Next]_vars => Clean'
<1>. SUFFICES ASSUME IInv, Clean, Next \/ UNCHANGED vars PROVE Clean'
  OBVIOUS
<1>1. CASE HandlerStep
  BY <1>1, HandshakeClean, HandlersClean DEF HandlerStep
<1>2. CASE Start
  BY <1>2 DEF Start, Clean, NothingCut, tlsVars, cryptorVars
<1>3. CASE Stop
  <2>1. <<>> \in Seq(DataRecord) /\ <<>> \in Seq({Flight})
    OBVIOUS
  <2>. QED
    BY <1>3, <2>1 DEF Stop, Deinit, Clean, NothingCut
<1>4. CASE Deliver
  BY <1>4, DeliverClean, CryptorAssumption, EntityAssumption
<1>5. CASE \/ SendFails \/ ReceiveFails \/ SessionFails \/ PhoneAnswers \/ PhoneChats
           \/ UNCHANGED vars
  <2>1. UNCHANGED <<eventHandler, suite, ssl, readBIO, writeBIO, quits>>
    BY <1>5 DEF SendFails, ReceiveFails, SessionFails, PhoneAnswers, PhoneChats, Says,
                vars, tlsVars, cryptorVars
  <2>. QED
    BY <2>1 DEF Clean, NothingCut
<1>. QED
  BY <1>1, <1>2, <1>3, <1>4, <1>5, TransmitClean DEF Next

\* What a session holds between the handlers (Cryptor.cpp:115-225).
THEOREM CleanInvariance == Spec => []Clean
<1>1. Init => Clean
  <2>1. <<>> \in Seq(DataRecord) /\ <<>> \in Seq({Flight})
    OBVIOUS
  <2>. QED
    BY <2>1 DEF Init, CryptorInit, Clean
<1>. QED
  BY <1>1, NextClean, Invariance, PTL DEF Spec

(***************************************************************************)
(* What the BIOs hold between the handlers is the end of a message that    *)
(* was cut, or a last flight of TLS 1.3, for any number of flights, any    *)
(* suites and any lengths of records (Cryptor.cpp:115-225,                 *)
(* AndroidAutoEntity.cpp:120-164).                                         *)
(***************************************************************************)
THEOREM NothingIsLeft == Spec => []NothingLeft
<1>1. Clean => NothingLeft
  BY DEF Clean, NothingLeft
<1>. QED
  BY <1>1, CleanInvariance, PTL

(***************************************************************************)
(* What decrypt returns without throwing is the beginning of the message,  *)
(* and all of it unless the suite adds less than decrypt reckons with,     *)
(* whatever the length of its records is to MaxRead and whatever the suite *)
(* adds to them (Cryptor.cpp:148-180).                                     *)
(***************************************************************************)
THEOREM DecryptsWhole == Spec => []DecryptedWhole
<1>1. Clean => DecryptedWhole
  BY CryptorAssumption, EntityAssumption, DecryptedBytes, Zenon DEF Clean, DecryptedWhole, IsBeginning
<1>. QED
  BY <1>1, CleanInvariance, PTL

-------------------------------------------------------------------------------
\* What each handler may do to what has a type.
LEMMA RunsTypes ==
    ASSUME TypeOK, NEW kinds, Runs(kinds), receives' \in {receives, receives + 1},
           quits' \in Nat, crashed' \in BOOLEAN,
           sends' = sends \/ \E m \in ToPhone : sends' = Append(sends, m)
    PROVE  CryptorTypeOK(Secret)' => TypeOK'
<1>1. posted' \in Seq(Posted)
  BY DEF Runs, TypeOK
<1>2. sends' \in Seq(ToPhone)
  BY DEF TypeOK
<1>3. receives' \in Nat
  BY DEF TypeOK
<1>. QED
  BY <1>1, <1>2, <1>3 DEF TypeOK, Runs, outside

LEMMA GiveUpTypes ==
    ASSUME TypeOK, GiveUp
    PROVE  quits' \in Nat /\ receives' = receives /\ sends' = sends
  BY DEF TypeOK, GiveUp, TriggerQuit

LEMMA AnswerTypes ==
    ASSUME TypeOK, NEW m \in ToPhone, Answer(m)
    PROVE  /\ receives' = receives + 1 /\ quits' \in Nat
           /\ \E e \in ToPhone : sends' = Append(sends, e)
  BY DEF TypeOK, Answer, Send, Receive

\* The session, in the steps of a handshake.
BIO == Seq([type : {"flight", "data"}, data : Seq(Secret)])

LEMMA SeqsWider ==
    ASSUME NEW X, NEW Y, X \subseteq Y
    PROVE  Seq(X) \subseteq Seq(Y)
<1>1. ASSUME NEW seq \in Seq(X) PROVE seq \in Seq(Y)
  BY <1>1
<1>. QED
  BY <1>1

LEMMA RecordTypes ==
    /\ Seq(DataRecord) \subseteq BIO /\ Seq({Flight}) \subseteq BIO /\ <<>> \in BIO
    /\ \A seq \in Seq({Flight}) : Append(seq, Flight) \in Seq({Flight})
<1>1. DataRecord \subseteq [type : {"flight", "data"}, data : Seq(Secret)]
  BY DEF DataRecord
<1>2. Flight \in [type : {"flight", "data"}, data : Seq(Secret)]
  <2>1. <<>> \in Seq(Secret)
    OBVIOUS
  <2>. QED
    BY <2>1 DEF Flight
<1>3. Seq(DataRecord) \subseteq BIO
  BY <1>1, SeqsWider, Zenon DEF BIO
<1>4. Seq({Flight}) \subseteq BIO /\ <<>> \in BIO
  <2>1. {Flight} \subseteq [type : {"flight", "data"}, data : Seq(Secret)]
    BY <1>2, Zenon
  <2>2. <<>> \in Seq([type : {"flight", "data"}, data : Seq(Secret)])
    OBVIOUS
  <2>. QED
    BY <2>1, <2>2, SeqsWider, Zenon DEF BIO
<1>5. \A seq \in Seq({Flight}) : Append(seq, Flight) \in Seq({Flight})
  OBVIOUS
<1>. QED
  BY <1>3, <1>4, <1>5

LEMMA SessionTypes ==
    ASSUME CryptorTypeOK(Secret), Clean, NEW records, records = <<>> \/ records = <<Flight>>,
           NEW done \in BOOLEAN, DoHandshake(records, done),
           writeBIO' = Pending(TRUE) \/ writeBIO' = <<>>
    PROVE  CryptorTypeOK(Secret)'
<1>1. flights' = flights + Len(readBIO \o records)
  BY DEF DoHandshake
<1>2. Len(readBIO \o records) \in Nat
  BY DEF Clean
<1>3. flights' \in Nat /\ ssl' \in {"connecting", "connected"} /\ readBIO' = <<>>
      /\ suite' \in Suites
  BY <1>1, <1>2 DEF DoHandshake, CryptorTypeOK
<1>4. active' \in BOOLEAN
  BY DEF DoHandshake, CryptorTypeOK
<1>5. writeBIO' \in BIO
  BY RecordTypes, Zenon DEF Clean, Pending
<1>6. readBIO' \in BIO
  BY <1>3, RecordTypes
<1>. QED
  BY <1>3, <1>4, <1>5, <1>6, Zenon DEF CryptorTypeOK, BIO

LEMMA HandshakeTypes ==
    ASSUME TypeOK, Clean, OnVersionResponse \/ OnHandshake \/ UsesFreedSession
    PROVE  TypeOK'
<1>1. CryptorTypeOK(Secret) /\ crashed \in BOOLEAN
  BY DEF TypeOK
<1>2. ASSUME NEW kinds, Runs(kinds), UNCHANGED crashed,
             NEW records, records = <<>> \/ records = <<Flight>>,
             NEW done \in BOOLEAN, DoHandshake(records, done),
             writeBIO' = Pending(TRUE) \/ writeBIO' = <<>>, NEW m \in ToPhone, Answer(m)
      PROVE  TypeOK'
  <2>1. CryptorTypeOK(Secret)'
    BY <1>1, <1>2, SessionTypes
  <2>2. /\ receives' = receives + 1 /\ quits' \in Nat
        /\ \E e \in ToPhone : sends' = Append(sends, e)
    BY <1>2, AnswerTypes
  <2>. QED
    BY <1>1, <1>2, <2>1, <2>2, RunsTypes
<1>3. ASSUME NEW kinds, Runs(kinds), crashed' \in BOOLEAN, GiveUp, CryptorTypeOK(Secret)'
      PROVE  TypeOK'
  BY <1>3, GiveUpTypes, RunsTypes
<1>4. DoHandshakeThrows => CryptorTypeOK(Secret)'
  BY <1>1 DEF DoHandshakeThrows, CryptorTypeOK
<1>5. \A output : \E m \in ToPhone : SendHandshake(output) => Answer(m)
  BY DEF SendHandshake, ToPhone
<1>6. "AuthComplete" \in ToPhone
  BY DEF ToPhone
<1>7. CASE OnVersionResponse
  <2>1. CASE DoHandshake(<<>>, FALSE) /\ ReadHandshakeBuffer /\ SendHandshake(Pending(FALSE))
    BY <1>2, <1>5, <1>7, <2>1 DEF OnVersionResponse, ReadHandshakeBuffer
  <2>2. CASE DoHandshakeThrows /\ GiveUp
    BY <1>1, <1>3, <1>4, <1>7, <2>2 DEF OnVersionResponse
  <2>. QED
    BY <1>7, <2>1, <2>2 DEF OnVersionResponse
<1>8. CASE OnHandshake
  <2>1. CASE /\ DoHandshake(<<Flight>>, FALSE) /\ ReadHandshakeBuffer
             /\ SendHandshake(Pending(FALSE))
    BY <1>2, <1>5, <1>8, <2>1 DEF OnHandshake, ReadHandshakeBuffer
  <2>2. CASE DoHandshakeThrows /\ GiveUp
    BY <1>1, <1>3, <1>4, <1>8, <2>2 DEF OnHandshake
  <2>3. CASE /\ DoHandshake(<<Flight>>, TRUE) /\ writeBIO' = Pending(TRUE)
             /\ Answer("AuthComplete")
    BY <1>2, <1>6, <1>8, <2>3 DEF OnHandshake
  <2>. QED
    BY <1>8, <2>1, <2>2, <2>3 DEF OnHandshake
<1>9. CASE UsesFreedSession
  <2>1. CryptorTypeOK(Secret)'
    BY <1>1, <1>9 DEF UsesFreedSession, cryptorVars, CryptorTypeOK
  <2>. QED
    BY <1>3, <1>9, <2>1 DEF UsesFreedSession
<1>. QED
  BY <1>7, <1>8, <1>9

LEMMA HandlersTypes ==
    ASSUME TypeOK,
           \/ OnServiceDiscoveryRequest \/ OnFocusRequest \/ OnNotice
           \/ OnByeByeRequest \/ OnQuit
    PROVE  TypeOK'
<1>1. PICK kinds : Runs(kinds) /\ UNCHANGED tlsVars
  BY DEF OnServiceDiscoveryRequest, OnFocusRequest, OnNotice, OnByeByeRequest, OnQuit
<1>2. CryptorTypeOK(Secret)' /\ crashed' \in BOOLEAN
  BY <1>1 DEF TypeOK, CryptorTypeOK, tlsVars, cryptorVars
<1>3. {"DiscoveryResponse", "FocusResponse", "ShutdownResponse"} \subseteq ToPhone
  BY DEF ToPhone, Encrypted
<1>4. CASE OnServiceDiscoveryRequest
  BY <1>1, <1>2, <1>3, <1>4, AnswerTypes, RunsTypes DEF OnServiceDiscoveryRequest
<1>5. CASE OnFocusRequest
  BY <1>1, <1>2, <1>3, <1>5, AnswerTypes, RunsTypes DEF OnFocusRequest
<1>6. CASE OnNotice
  BY <1>1, <1>2, <1>6, RunsTypes DEF OnNotice, Receive, TypeOK
<1>7. CASE OnByeByeRequest
  BY <1>1, <1>2, <1>3, <1>7, RunsTypes DEF OnByeByeRequest, Send, TypeOK
<1>8. CASE OnQuit
  BY <1>1, <1>2, <1>8, GiveUpTypes, RunsTypes DEF OnQuit
<1>. QED
  BY <1>4, <1>5, <1>6, <1>7, <1>8

LEMMA ReadsNoIdTypes == ASSUME TypeOK, ReadsNoId PROVE TypeOK'
  BY DEF ReadsNoId, outside, cryptorVars, TypeOK, CryptorTypeOK

LEMMA StartTypes == ASSUME TypeOK, Start PROVE TypeOK'
<1>1. "VersionRequest" \in ToPhone
  BY DEF ToPhone
<1>2. sends' \in Seq(ToPhone) /\ receives' \in Nat
  BY <1>1 DEF Start, Send, Receive, TypeOK
<1>. QED
  BY <1>2 DEF Start, TypeOK, CryptorTypeOK, tlsVars, cryptorVars

LEMMA StopTypes == ASSUME TypeOK, Stop PROVE TypeOK'
<1>1. <<>> \in Seq([type : {"flight", "data"}, data : Seq(Secret)])
  OBVIOUS
<1>. QED
  BY <1>1 DEF Stop, Deinit, TypeOK, CryptorTypeOK

LEMMA TransmitTypes == ASSUME TypeOK, Transmit PROVE TypeOK'
<1>1. sends' \in Seq(ToPhone)
  BY DEF TypeOK, Transmit
<1>2. posted' \in Seq(Posted)
  <2>1. "responseSent" \in Posted
    BY DEF Posted
  <2>. QED
    BY <2>1 DEF TypeOK, Transmit
<1>3. phone' \in {"listens", "asked", "hello", "open", "discovers", "ready"}
  <2>1. phone' = phone \/ \E m : phone' = Hears(m)
    BY DEF Transmit
  <2>. QED
    BY <2>1 DEF TypeOK, Hears
<1>4. CryptorTypeOK(Secret)'
  <2>1. <<>> \in Seq([type : {"flight", "data"}, data : Seq(Secret)])
    OBVIOUS
  <2>2. Encrypt \/ UNCHANGED cryptorVars
    BY DEF Transmit
  <2>. QED
    BY <2>1, <2>2 DEF Encrypt, TypeOK, CryptorTypeOK, cryptorVars
<1>. QED
  BY <1>1, <1>2, <1>3, <1>4 DEF TypeOK, Transmit

LEMMA SendFailsTypes == ASSUME TypeOK, SendFails PROVE TypeOK'
<1>1. posted' \in Seq(Posted)
  <2>1. "sendError" \in Posted /\ Len(sends) \in Nat /\ posted \in Seq(Posted)
    BY DEF Posted, TypeOK
  <2>2. PICK n \in Nat : n = Len(sends)
    BY <2>1
  <2>3. [i \in 1..n |-> "sendError"] \in Seq(Posted)
    BY <2>1
  <2>4. posted' = posted \o [i \in 1..n |-> "sendError"]
    BY <2>2 DEF SendFails
  <2>. QED
    BY <2>1, <2>3, <2>4
<1>2. <<>> \in Seq(ToPhone)
  OBVIOUS
<1>3. crashed' \in BOOLEAN
  BY DEF SendFails, MayCrash, TypeOK
<1>. QED
  BY <1>1, <1>2, <1>3 DEF SendFails, TypeOK, CryptorTypeOK, cryptorVars

LEMMA DeliverTypes == ASSUME TypeOK, Clean', Deliver PROVE TypeOK'
<1>1. inbox' \in Seq(FromPhone) /\ receives' \in Nat /\ Head(inbox) \in FromPhone
  BY DEF Deliver, TypeOK
<1>2. ASSUME NEW m \in FromPhone, NEW s PROVE Reads(m, s) \subseteq Posted
  <2>1. Secret \subseteq Posted /\ m \in Posted /\ "receiveError" \in Posted /\ "Empty" \in Posted
    BY DEF FromPhone, Posted
  <2>. QED
    BY <2>1, Zenon DEF Reads
<1>3. "receiveError" \in Posted /\ Head(inbox) \in Posted
  BY <1>1 DEF Posted
<1>4. PICK x \in Posted : posted' = Append(posted, x)
  BY <1>1, <1>2, <1>3, Zenon DEF Deliver
<1>5. posted' \in Seq(Posted)
  BY <1>4 DEF TypeOK
<1>6. crashed' \in BOOLEAN /\ UNCHANGED <<suite, ssl, active, flights, writeBIO>>
  <2>1. UNCHANGED tlsVars => UNCHANGED <<crashed, suite, ssl, active, flights, writeBIO>>
    BY DEF tlsVars, cryptorVars
  <2>2. UNCHANGED cryptorVars => UNCHANGED <<suite, ssl, active, flights, writeBIO>>
    BY DEF cryptorVars
  <2>3. \/ UNCHANGED tlsVars
        \/ MayCrash(TRUE) /\ UNCHANGED cryptorVars
        \/ UNCHANGED <<suite, ssl, active, flights, writeBIO, crashed>>
    BY Zenon DEF Deliver
  <2>4. MayCrash(TRUE) => crashed' \in BOOLEAN
    BY DEF MayCrash, TypeOK
  <2>. QED
    BY <2>1, <2>2, <2>3, <2>4 DEF TypeOK
<1>7. CryptorTypeOK(Secret)'
  <2>1. readBIO' \in BIO
    BY RecordTypes DEF Clean
  <2>. QED
    BY <1>6, <2>1 DEF TypeOK, CryptorTypeOK, BIO
<1>8. UNCHANGED <<eventHandler, sends, up, phone, chats, quits>>
  BY DEF Deliver
<1>. QED
  BY <1>1, <1>5, <1>6, <1>7, <1>8 DEF TypeOK

LEMMA ReceiveFailsTypes == ASSUME TypeOK, ReceiveFails PROVE TypeOK'
<1>1. posted' \in Seq(Posted) /\ receives' \in Nat
  <2>1. "receiveError" \in Posted
    BY DEF Posted
  <2>. QED
    BY <2>1 DEF ReceiveFails, TypeOK
<1>. QED
  BY <1>1 DEF ReceiveFails, TypeOK, CryptorTypeOK, tlsVars, cryptorVars

LEMMA PhoneTypes ==
    ASSUME TypeOK, EntityAssumption, PhoneAnswers \/ PhoneChats \/ SessionFails \/ UNCHANGED vars
    PROVE  TypeOK'
<1>1. /\ UNCHANGED <<eventHandler, tlsVars, receives, posted, sends, quits>>
  BY DEF PhoneAnswers, PhoneChats, SessionFails, Says, vars, tlsVars
<1>2. inbox' \in Seq(FromPhone)
  <2>1. inbox' = inbox \/ \E m \in FromPhone : inbox' = Append(inbox, m)
    BY DEF PhoneAnswers, PhoneChats, SessionFails, Says, vars, FromPhone, Secret
  <2>2. inbox \in Seq(FromPhone)
    BY DEF TypeOK
  <2>. QED
    BY <2>1, <2>2
<1>3. phone' \in {"listens", "asked", "hello", "open", "discovers", "ready"}
  BY DEF PhoneAnswers, PhoneChats, SessionFails, Says, vars, TypeOK
<1>4. up' \in BOOLEAN
  BY DEF PhoneAnswers, PhoneChats, SessionFails, Says, vars, TypeOK
<1>5. chats' \in 0..MaxChats
  BY DEF PhoneAnswers, PhoneChats, SessionFails, Says, vars, TypeOK, EntityAssumption
<1>. QED
  BY <1>1, <1>2, <1>3, <1>4, <1>5 DEF TypeOK, CryptorTypeOK, tlsVars, cryptorVars

\* The members of AndroidAutoEntity and Cryptor keep their types.
THEOREM TypeCorrect == Spec => []TypeOK
<1>1. Init => TypeOK
  <2>1. /\ <<>> \in Seq(Posted) /\ <<>> \in Seq(ToPhone) /\ <<>> \in Seq(FromPhone)
        /\ <<>> \in Seq([type : {"flight", "data"}, data : Seq(Secret)])
    OBVIOUS
  <2>2. 0 \in 0..MaxChats /\ 0 \in Nat
    BY EntityAssumption DEF EntityAssumption
  <2>. QED
    BY <2>1, <2>2, Zenon DEF Init, CryptorInit, TypeOK, CryptorTypeOK
<1>2. TypeOK /\ Clean /\ Clean' /\ [Next]_vars => TypeOK'
  <2>. SUFFICES ASSUME TypeOK, Clean, Clean', Next \/ UNCHANGED vars PROVE TypeOK'
    OBVIOUS
  <2>1. CASE HandlerStep
    BY <2>1, HandshakeTypes, HandlersTypes, ReadsNoIdTypes DEF HandlerStep
  <2>. QED
    BY <2>1, EntityAssumption, StartTypes, StopTypes, TransmitTypes, SendFailsTypes,
       DeliverTypes, ReceiveFailsTypes, PhoneTypes DEF Next
<1>. QED
  BY <1>1, <1>2, CleanInvariance, PTL DEF Spec
===============================================================================
