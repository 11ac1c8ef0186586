---------------------------- MODULE BluetoothProofs ----------------------------
(***************************************************************************)
(* The two threads of btservice, for any number of connections and         *)
(* messages.  No descriptor is lost: while the D-Bus thread holds a new    *)
(* connection the socket is the one before, and once it has joined the     *)
(* reader there is none.  And connections are kept apart: the buffer and   *)
(* the wire hold what the phone sent after the messages handled.  At the   *)
(* end the settings that btservice reads: what is saved is loaded.         *)
(***************************************************************************)
EXTENDS BluezBluetoothServer, Configuration, SequenceTheorems, TLAPS

DbusPlaces == {"idle", "stop", "close", "forget", "join", "start", "version", "wifi"}
ReaderPlaces == {"loop", "read", "parse", "stop", "close", "forget", "join", "ended"}

\* A connection that was handed over and has no reader yet.
Taking == dbus.fresh /\ dbus.at \in {"stop", "close", "forget", "join", "start"}

ThreadsInv ==
    /\ dbus = [at |-> dbus.at, fd |-> dbus.fd, fresh |-> dbus.fresh]
    /\ dbus.at \in DbusPlaces /\ dbus.fd \in Nat /\ dbus.fresh \in BOOLEAN
    /\ dbus.fd \in {NoFd} \cup Fds
    /\ reader = [at |-> reader.at, fd |-> reader.fd]
    /\ reader.at \in ReaderPlaces /\ reader.fd \in 0..dbus.fd
    /\ Taking => reader.fd < dbus.fd
    /\ dbus.at = "start" => dbus.fresh /\ reader.at = "ended"
    /\ dbus.at \in {"version", "wifi"} => reader.fd = dbus.fd

\* A descriptor is closed before it is forgotten, and forgotten before the join.
SocketInv ==
    /\ open \subseteq 1..dbus.fd
    /\ socketFd \in {NoFd, reader.fd}
    /\ "forget" \in {dbus.at, reader.at} => socketFd \notin open
    /\ dbus.at \in {"join", "start"} => socketFd = NoFd
    /\ reader.at \in {"join", "ended"} => socketFd = NoFd
    /\ \A fd \in open : fd = socketFd \/ (fd = dbus.fd /\ Taking)

-----------------------------------------------------------------------------
IsSequence(seq) == \E S : seq \in Seq(S)

\* The half that the phone sent on fd after k others.
IsPart(part, fd, k) == IsHalf(part, fd, k \div 2 + 1, (k % 2) + 1)

\* A sequence of such halves, the first after k others.
Parts(seq, fd, k) == \A i \in 1..Len(seq) : IsPart(seq[i], fd, k + i - 1)

\* What is on the wire follows the first k halves.
Follows(fd, k) == sent[fd] = k + Len(wire[fd]) /\ Parts(wire[fd], fd, k)

\* The halves that the reader has taken from its connection.
TakenBy(fd) == 2 * handled[fd] + Len(buffer)

DataShapes ==
    /\ wire = [fd \in Fds |-> wire[fd]] /\ \A fd \in Fds : IsSequence(wire[fd])
    /\ sent \in [Fds -> Nat]
    /\ handled \in [Fds -> Nat]
    /\ IsSequence(buffer)

\* The buffer follows the messages handled, the wire the buffer.
StreamInv ==
    /\ \A fd \in Fds : fd > reader.fd => handled[fd] = 0 /\ Follows(fd, 0)
    /\ reader.at = "ended" => buffer = <<>>
    /\ reader.at # "ended" =>
         /\ reader.fd \in Fds
         /\ Follows(reader.fd, TakenBy(reader.fd))
         /\ Parts(buffer, reader.fd, 2 * handled[reader.fd])

LastInv == ConnectionsApart /\ (lastHandled.by # NoFd => lastHandled.by \in Fds)

ControlInv == ThreadsInv /\ SocketInv
DataInv == DataShapes /\ StreamInv

IInv == ControlInv /\ DataInv /\ LastInv

-----------------------------------------------------------------------------

LEMMA InitControl == ASSUME Init PROVE ControlInv
  BY DEF Init, ControlInv, ThreadsInv, SocketInv, Taking, DbusPlaces, ReaderPlaces, NoFd

\* What the threads do besides does not matter to the socket.
ControlSame == UNCHANGED <<socketFd, open, dbus, reader>>

LEMMA SameControl == ASSUME ControlInv, ControlSame PROVE ControlInv'
  BY DEF ControlInv, ControlSame, ThreadsInv, SocketInv, Taking

\* BlueZ may hand over a connection while the last one is read.
LEMMA NewConnectionControl ==
    ASSUME ControlInv, NEW fd \in Fds, NewConnection(fd)
    PROVE  ControlInv'
<1>1. /\ dbus.at = "idle" /\ fd = dbus.fd + 1 /\ dbus.fd \in Nat
      /\ dbus' = [at |-> "stop", fd |-> fd, fresh |-> TRUE]
      /\ open' = open \cup {fd} /\ socketFd' = socketFd /\ reader' = reader
  BY DEF NewConnection, ControlInv, ThreadsInv
<1>2. ThreadsInv'
  BY <1>1 DEF ControlInv, ThreadsInv, Taking, DbusPlaces
<1>3. \A k \in open : k = socketFd /\ k \in 1..fd
  BY <1>1 DEF ControlInv, SocketInv, Taking
<1>4. socketFd \in 0..dbus.fd
  BY <1>1 DEF ControlInv, SocketInv, ThreadsInv, NoFd
<1>5. SocketInv'
  BY <1>1, <1>3, <1>4 DEF ControlInv, SocketInv, ThreadsInv, Taking, NoFd
<1>. QED
  BY <1>2, <1>5 DEF ControlInv

LEMMA RequestDisconnectionControl ==
    ASSUME ControlInv, RequestDisconnection
    PROVE  ControlInv'
<1>1. /\ dbus.at = "idle" /\ dbus' = [dbus EXCEPT !.at = "stop", !.fresh = FALSE]
      /\ UNCHANGED <<socketFd, open, reader>>
  BY DEF RequestDisconnection, socketVars
<1>2. dbus' = [at |-> "stop", fd |-> dbus.fd, fresh |-> FALSE]
  BY <1>1 DEF ControlInv, ThreadsInv
<1>3. ThreadsInv'
  BY <1>1, <1>2 DEF ControlInv, ThreadsInv, Taking, DbusPlaces
<1>4. SocketInv'
  BY <1>1, <1>2 DEF ControlInv, SocketInv, ThreadsInv, Taking
<1>. QED
  BY <1>3, <1>4 DEF ControlInv

\* A step of stopReadLoop by the D-Bus thread, wherever the reader stands.
LEMMA DbusStopsControl == ASSUME ControlInv, DbusStops PROVE ControlInv'
<1>1. PICK next \in Places :
        /\ StopReadLoop(dbus.at, next)
        /\ dbus' = [dbus EXCEPT !.at = next]
        /\ reader' = reader
  BY DEF DbusStops
<1>2. dbus' = [at |-> next, fd |-> dbus.fd, fresh |-> dbus.fresh]
  BY <1>1 DEF ControlInv, ThreadsInv
<1>3. dbus.at \in {"stop", "close", "forget"}
  BY <1>1 DEF StopReadLoop
<1>4. Taking' <=> Taking
  BY <1>2, <1>3 DEF Taking, Places
<1>5. ThreadsInv'
  BY <1>1, <1>2, <1>3, <1>4 DEF ControlInv, ThreadsInv, DbusPlaces, Places
<1>6. CASE dbus.at = "stop" /\ next = IF socketFd = NoFd THEN "join" ELSE "close"
  <2>1. UNCHANGED <<socketFd, open>>
    BY <1>1, <1>6 DEF StopReadLoop
  <2>. QED
    BY <1>1, <1>2, <1>4, <1>5, <1>6, <2>1 DEF ControlInv, SocketInv
<1>7. CASE dbus.at = "close"
  <2>1. open' = open \ {socketFd} /\ socketFd' = socketFd /\ next = "forget"
    BY <1>1, <1>7 DEF StopReadLoop
  <2>. QED
    BY <1>1, <1>2, <1>4, <1>5, <2>1 DEF ControlInv, SocketInv
<1>8. CASE dbus.at = "forget"
  <2>1. open' = open /\ socketFd' = NoFd /\ next = "join" /\ socketFd \notin open
    BY <1>1, <1>8 DEF StopReadLoop, ControlInv, SocketInv
  <2>2. NoFd \notin open
    BY DEF ControlInv, SocketInv, ThreadsInv, NoFd
  <2>. QED
    BY <1>1, <1>2, <1>4, <1>5, <2>1, <2>2 DEF ControlInv, SocketInv
<1>. QED
  BY <1>1, <1>3, <1>6, <1>7, <1>8 DEF StopReadLoop

LEMMA DbusJoinsControl == ASSUME ControlInv, DbusJoins PROVE ControlInv'
<1>1. /\ dbus.at = "join" /\ reader.at = "ended"
      /\ dbus' = [dbus EXCEPT !.at = IF dbus.fresh THEN "start" ELSE "idle"]
      /\ UNCHANGED <<socketFd, open, reader>>
  BY DEF DbusJoins
<1>2. dbus' = [at |-> IF dbus.fresh THEN "start" ELSE "idle", fd |-> dbus.fd,
               fresh |-> dbus.fresh]
  BY <1>1 DEF ControlInv, ThreadsInv
<1>3. Taking' <=> Taking
  BY <1>1, <1>2 DEF Taking
<1>. QED
  BY <1>1, <1>2, <1>3 DEF ControlInv, ThreadsInv, SocketInv, DbusPlaces

\* The reader of a new connection is started when the one before has ended.
LEMMA StartReadLoopControl == ASSUME ControlInv, StartReadLoop PROVE ControlInv'
<1>1. /\ dbus.at = "start" /\ socketFd' = dbus.fd /\ open' = open
      /\ reader' = [at |-> "loop", fd |-> dbus.fd]
      /\ dbus' = [dbus EXCEPT !.at = "version"]
  BY DEF StartReadLoop
<1>2. dbus' = [at |-> "version", fd |-> dbus.fd, fresh |-> dbus.fresh]
  BY <1>1 DEF ControlInv, ThreadsInv
<1>3. ThreadsInv'
  BY <1>1, <1>2 DEF ControlInv, ThreadsInv, Taking, DbusPlaces, ReaderPlaces
<1>4. \A k \in open : k = dbus.fd
  BY <1>1 DEF ControlInv, SocketInv, NoFd
<1>5. SocketInv'
  BY <1>1, <1>2, <1>4 DEF ControlInv, SocketInv, Taking
<1>. QED
  BY <1>3, <1>5 DEF ControlInv

LEMMA SendRequestsControl ==
    ASSUME ControlInv, SendWifiVersionRequest \/ SendWifiStartRequest
    PROVE  ControlInv'
<1>1. /\ dbus.at \in {"version", "wifi"}
      /\ UNCHANGED <<socketFd, open, reader>>
      /\ \E next \in {"wifi", "idle"} : dbus' = [dbus EXCEPT !.at = next]
  BY DEF SendWifiVersionRequest, SendWifiStartRequest, socketVars
<1>2. \E next \in {"wifi", "idle"} :
        dbus' = [at |-> next, fd |-> dbus.fd, fresh |-> dbus.fresh]
  BY <1>1 DEF ControlInv, ThreadsInv
<1>. QED
  BY <1>1, <1>2 DEF ControlInv, ThreadsInv, SocketInv, Taking, DbusPlaces

\* A step of stopReadLoop by the reader, wherever the D-Bus thread stands.
LEMMA ReaderStopsControl == ASSUME ControlInv, ReaderStops PROVE ControlInv'
<1>1. PICK next \in Places :
        /\ StopReadLoop(reader.at, next)
        /\ reader' = [reader EXCEPT !.at = next]
        /\ dbus' = dbus
  BY DEF ReaderStops, readerUnchanged
<1>2. reader' = [at |-> next, fd |-> reader.fd]
  BY <1>1 DEF ControlInv, ThreadsInv
<1>3. reader.at \in {"stop", "close", "forget"}
  BY <1>1 DEF StopReadLoop
<1>4. Taking' <=> Taking
  BY <1>1 DEF Taking
<1>5. ThreadsInv'
  BY <1>1, <1>2, <1>3, <1>4 DEF ControlInv, ThreadsInv, ReaderPlaces, Places
<1>6. CASE reader.at = "stop" /\ next = IF socketFd = NoFd THEN "join" ELSE "close"
  <2>1. UNCHANGED <<socketFd, open>>
    BY <1>1, <1>6 DEF StopReadLoop
  <2>. QED
    BY <1>1, <1>2, <1>4, <1>5, <1>6, <2>1 DEF ControlInv, SocketInv
<1>7. CASE reader.at = "close"
  <2>1. open' = open \ {socketFd} /\ socketFd' = socketFd /\ next = "forget"
    BY <1>1, <1>7 DEF StopReadLoop
  <2>. QED
    BY <1>1, <1>2, <1>4, <1>5, <2>1 DEF ControlInv, SocketInv
<1>8. CASE reader.at = "forget"
  <2>1. open' = open /\ socketFd' = NoFd /\ next = "join" /\ socketFd \notin open
    BY <1>1, <1>8 DEF StopReadLoop, ControlInv, SocketInv
  <2>2. NoFd \notin open
    BY DEF ControlInv, SocketInv, ThreadsInv, NoFd
  <2>. QED
    BY <1>1, <1>2, <1>4, <1>5, <2>1, <2>2 DEF ControlInv, SocketInv
<1>. QED
  BY <1>1, <1>3, <1>6, <1>7, <1>8 DEF StopReadLoop

\* The other steps of the reader only move it.
LEMMA ReaderMovesControl ==
    ASSUME ControlInv, NEW next \in {"loop", "read", "parse", "stop", "ended"},
           reader' = [reader EXCEPT !.at = next], UNCHANGED <<socketFd, open, dbus>>,
           reader.at # "ended", next = "ended" => reader.at = "join"
    PROVE  ControlInv'
<1>1. reader' = [at |-> next, fd |-> reader.fd]
  BY DEF ControlInv, ThreadsInv
<1>2. Taking' <=> Taking
  BY DEF Taking
<1>3. ThreadsInv'
  BY <1>1, <1>2 DEF ControlInv, ThreadsInv, ReaderPlaces
<1>4. SocketInv'
  BY <1>1, <1>2 DEF ControlInv, SocketInv
<1>. QED
  BY <1>3, <1>4 DEF ControlInv

-----------------------------------------------------------------------------
LEMMA Extended ==
    ASSUME NEW s, IsSequence(s), NEW e, NEW fd, NEW k \in Nat,
           Parts(s, fd, k), IsPart(e, fd, k + Len(s))
    PROVE  /\ IsSequence(Append(s, e)) /\ Len(Append(s, e)) = Len(s) + 1
           /\ Parts(Append(s, e), fd, k)
<1>1. PICK S : s \in Seq(S)
  BY DEF IsSequence
<1>2. s \in Seq(S \cup {e}) /\ e \in S \cup {e} /\ Len(s) \in Nat
  BY <1>1
<1>3. /\ Append(s, e) \in Seq(S \cup {e}) /\ Len(Append(s, e)) = Len(s) + 1
      /\ \A i \in 1..Len(s) : Append(s, e)[i] = s[i]
      /\ Append(s, e)[Len(s) + 1] = e
  BY <1>2, AppendProperties
<1>4. ASSUME NEW i \in 1..Len(s) + 1 PROVE IsPart(Append(s, e)[i], fd, k + i - 1)
  <2>1. CASE i = Len(s) + 1
    <3>1. k + i - 1 = k + Len(s)
      BY <1>2, <2>1
    <3>. QED
      BY <1>3, <2>1, <3>1
  <2>2. CASE i # Len(s) + 1
    <3>1. i \in 1..Len(s)
      BY <1>2, <2>2
    <3>. QED
      BY <1>3, <3>1 DEF Parts
  <2>. QED
    BY <2>1, <2>2
<1>. QED
  BY <1>3, <1>4 DEF IsSequence, Parts

LEMMA Joined ==
    ASSUME NEW s, NEW t, IsSequence(s), IsSequence(t), NEW fd, NEW k \in Nat,
           Parts(s, fd, k), Parts(t, fd, k + Len(s))
    PROVE  /\ IsSequence(s \o t) /\ Len(s \o t) = Len(s) + Len(t)
           /\ Parts(s \o t, fd, k)
<1>1. PICK S : s \in Seq(S)
  BY DEF IsSequence
<1>2. PICK T : t \in Seq(T)
  BY DEF IsSequence
<1>3. s \in Seq(S \cup T) /\ t \in Seq(S \cup T) /\ Len(s) \in Nat /\ Len(t) \in Nat
  BY <1>1, <1>2
<1>4. s \o t \in Seq(S \cup T) /\ Len(s \o t) = Len(s) + Len(t)
  BY <1>3
<1>5. \A i \in 1..Len(s) + Len(t) :
        (s \o t)[i] = IF i <= Len(s) THEN s[i] ELSE t[i - Len(s)]
  BY <1>3, ConcatProperties, Zenon
<1>6. ASSUME NEW i \in 1..Len(s) + Len(t) PROVE IsPart((s \o t)[i], fd, k + i - 1)
  <2>1. CASE i <= Len(s)
    <3>1. i \in 1..Len(s)
      BY <1>3, <2>1
    <3>. QED
      BY <1>5, <2>1, <3>1 DEF Parts
  <2>2. CASE ~ (i <= Len(s))
    <3>1. i - Len(s) \in 1..Len(t) /\ k + Len(s) + (i - Len(s)) - 1 = k + i - 1
      BY <1>3, <2>2
    <3>2. (s \o t)[i] = t[i - Len(s)]
      BY <1>5, <2>2
    <3>3. IsPart(t[i - Len(s)], fd, k + Len(s) + (i - Len(s)) - 1)
      BY <3>1 DEF Parts
    <3>. QED
      BY <3>1, <3>2, <3>3
  <2>. QED
    BY <2>1, <2>2
<1>. QED
  BY <1>4, <1>6 DEF IsSequence, Parts

LEMMA Sliced ==
    ASSUME NEW s, IsSequence(s), NEW m \in Nat, NEW n \in Nat, n <= Len(s), m <= n,
           NEW fd, NEW k \in Nat, Parts(s, fd, k)
    PROVE  /\ IsSequence(SubSeq(s, m + 1, n)) /\ Len(SubSeq(s, m + 1, n)) = n - m
           /\ Parts(SubSeq(s, m + 1, n), fd, k + m)
<1>. DEFINE slice == SubSeq(s, m + 1, n)
<1>1. PICK S : s \in Seq(S)
  BY DEF IsSequence
<1>2. Len(s) \in Nat /\ m + 1 \in Int /\ n \in Int /\ \A i \in m + 1..n : s[i] \in S
  BY <1>1
<1>3. /\ slice \in Seq(S)
      /\ Len(slice) = IF m + 1 <= n THEN n - (m + 1) + 1 ELSE 0
      /\ \A i \in 1..n - (m + 1) + 1 : slice[i] = s[m + 1 + i - 1]
  BY <1>2, SubSeqProperties
<1>4. Len(slice) = n - m
  BY <1>2, <1>3
<1>5. ASSUME NEW i \in 1..n - m PROVE IsPart(slice[i], fd, k + m + i - 1)
  <2>1. m + i \in 1..Len(s) /\ k + (m + i) - 1 = k + m + i - 1 /\ m + 1 + i - 1 = m + i
        /\ i \in 1..n - (m + 1) + 1
    BY <1>2
  <2>2. slice[i] = s[m + i]
    BY <1>3, <2>1
  <2>3. IsPart(s[m + i], fd, k + (m + i) - 1)
    BY <2>1 DEF Parts
  <2>. QED
    BY <2>1, <2>2, <2>3
<1>. QED
  BY <1>3, <1>4, <1>5 DEF IsSequence, Parts

LEMMA Halves ==
    ASSUME NEW k \in Nat
    PROVE  /\ (2 * k) \div 2 + 1 = k + 1 /\ ((2 * k) % 2) + 1 = 1
           /\ (2 * k + 1) \div 2 + 1 = k + 1 /\ ((2 * k + 1) % 2) + 1 = 2
  OBVIOUS

-----------------------------------------------------------------------------
LEMMA InitData == ASSUME Init PROVE DataInv
<1>1. IsSequence(<<>>) /\ Len(<<>>) = 0
  <2>1. <<>> \in Seq({})
    OBVIOUS
  <2>. QED
    BY <2>1 DEF IsSequence
<1>2. DataShapes
  BY <1>1 DEF Init, DataShapes
<1>3. \A fd \in Fds : handled[fd] = 0 /\ Follows(fd, 0)
  BY <1>1 DEF Init, Follows, Parts
<1>. QED
  BY <1>2, <1>3 DEF Init, DataInv, StreamInv

\* What leaves the stream alone, and where the reader is begun or ended.
LEMMA SameData ==
    ASSUME DataInv, UNCHANGED <<wire, sent, handled>>, reader'.fd = reader.fd,
           \/ buffer' = buffer /\ (reader'.at = "ended" <=> reader.at = "ended")
           \/ buffer' = <<>> /\ reader'.at = "ended"
    PROVE  DataInv'
<1>1. IsSequence(buffer')
  <2>1. <<>> \in Seq({})
    OBVIOUS
  <2>. QED
    BY <2>1 DEF DataInv, DataShapes, IsSequence
<1>2. DataShapes'
  BY <1>1 DEF DataInv, DataShapes
<1>3. StreamInv'
  BY DEF DataInv, StreamInv, Follows, TakenBy
<1>. QED
  BY <1>2, <1>3 DEF DataInv

LEMMA StartReadLoopData ==
    ASSUME ControlInv, DataInv, StartReadLoop
    PROVE  DataInv'
<1>1. /\ dbus.at = "start" /\ reader' = [at |-> "loop", fd |-> dbus.fd]
      /\ UNCHANGED <<wire, sent, handled, buffer>>
  BY DEF StartReadLoop, phoneVars, logVars
<1>2. /\ dbus.fd \in Fds /\ dbus.fd > reader.fd /\ dbus.fd \in Nat /\ reader.fd \in Nat
      /\ reader.at = "ended"
  BY <1>1 DEF ControlInv, ThreadsInv, Taking, NoFd
<1>3. buffer = <<>> /\ Len(buffer) = 0
  BY <1>2 DEF DataInv, StreamInv
<1>4. handled[dbus.fd] = 0 /\ Follows(dbus.fd, 0)
  BY <1>2 DEF DataInv, StreamInv
<1>5. TakenBy(dbus.fd) = 0
  BY <1>3, <1>4 DEF TakenBy
<1>6. DataShapes'
  BY <1>1 DEF DataInv, DataShapes
<1>7. \A fd \in Fds : fd > dbus.fd => handled[fd] = 0 /\ Follows(fd, 0)
  BY <1>2 DEF DataInv, StreamInv, Fds
<1>8. reader'.fd = dbus.fd /\ reader'.at = "loop"
  BY <1>1
<1>9. \A fd \in Fds : fd > reader'.fd => handled'[fd] = 0 /\ Follows(fd, 0)'
  BY <1>1, <1>7, <1>8 DEF Follows
<1>10. Follows(dbus.fd, TakenBy(dbus.fd))
  BY <1>4, <1>5
<1>11. Follows(reader.fd, TakenBy(reader.fd))'
  BY <1>1, <1>8, <1>10 DEF Follows, TakenBy
<1>12. Parts(buffer', reader'.fd, 2 * handled'[reader'.fd])
  BY <1>1, <1>3 DEF Parts
<1>13. StreamInv'
  BY <1>2, <1>8, <1>9, <1>11, <1>12 DEF StreamInv
<1>. QED
  BY <1>6, <1>13 DEF DataInv

\* The half goes to the end of the wire.
LEMMA PhoneSendsData ==
    ASSUME DataInv, NEW fd \in Fds, NEW kind \in Kinds, PhoneSends(fd, kind)
    PROVE  DataInv'
<1>. DEFINE half == [fd |-> fd, no |-> sent[fd] \div 2 + 1, half |-> (sent[fd] % 2) + 1,
                     kind |-> kind]
<1>1. /\ sent' = [sent EXCEPT ![fd] = sent[fd] + 1]
      /\ wire' = [wire EXCEPT ![fd] = Append(wire[fd], half)]
      /\ UNCHANGED <<handled, buffer, reader>>
  BY DEF PhoneSends, socketVars, logVars
<1>2. IsSequence(wire[fd]) /\ sent[fd] \in Nat
  BY DEF DataInv, DataShapes
<1>3. IsPart(half, fd, sent[fd])
  BY DEF IsPart, IsHalf
<1>. HIDE DEF half
<1>4. IsSequence(Append(wire[fd], half))
  <2>1. PICK S : wire[fd] \in Seq(S)
    BY <1>2 DEF IsSequence
  <2>2. wire[fd] \in Seq(S \cup {half}) /\ half \in S \cup {half}
    BY <2>1
  <2>. QED
    BY <2>2 DEF IsSequence
<1>5. /\ wire'[fd] = Append(wire[fd], half) /\ sent'[fd] = sent[fd] + 1
      /\ \A k \in Fds : k # fd => wire'[k] = wire[k] /\ sent'[k] = sent[k]
      /\ wire' = [k \in Fds |-> wire'[k]] /\ sent' \in [Fds -> Nat]
  <2>1. wire = [k \in Fds |-> wire[k]] /\ sent \in [Fds -> Nat]
    BY DEF DataInv, DataShapes
  <2>2. wire' = [k \in Fds |-> IF k = fd THEN Append(wire[fd], half) ELSE wire[k]]
    BY <1>1, <2>1
  <2>3. sent' = [k \in Fds |-> IF k = fd THEN sent[fd] + 1 ELSE sent[k]]
    BY <1>1, <2>1
  <2>. QED
    BY <1>2, <2>1, <2>2, <2>3
<1>6. DataShapes'
  BY <1>1, <1>4, <1>5 DEF DataInv, DataShapes
<1>7. ASSUME NEW n \in Nat, Follows(fd, n)
      PROVE  Follows(fd, n)'
  <2>1. sent[fd] = n + Len(wire[fd]) /\ Parts(wire[fd], fd, n) /\ Len(wire[fd]) \in Nat
    BY <1>2, <1>7 DEF Follows, IsSequence
  <2>2. /\ Len(Append(wire[fd], half)) = Len(wire[fd]) + 1
        /\ Parts(Append(wire[fd], half), fd, n)
    BY <1>2, <1>3, <2>1, Extended
  <2>. QED
    BY <1>5, <2>1, <2>2 DEF Follows
<1>8. ASSUME NEW k \in Fds, NEW n \in Nat, Follows(k, n)
      PROVE  Follows(k, n)'
  <2>1. CASE k = fd
    BY <1>7, <1>8, <2>1
  <2>2. CASE k # fd
    BY <1>5, <1>8, <2>2 DEF Follows
  <2>. QED
    BY <2>1, <2>2
<1>9. \A k \in Fds : k > reader.fd => handled[k] = 0 /\ Follows(k, 0)'
  BY <1>8 DEF DataInv, StreamInv
<1>10. ASSUME reader.at # "ended"
       PROVE  /\ reader.fd \in Fds
              /\ Follows(reader.fd, 2 * handled[reader.fd] + Len(buffer))'
  <2>1. Len(buffer) \in Nat
    BY DEF DataInv, DataShapes, IsSequence
  <2>2. reader.fd \in Fds /\ Follows(reader.fd, TakenBy(reader.fd))
    BY <1>10 DEF DataInv, StreamInv
  <2>3. 2 * handled[reader.fd] + Len(buffer) \in Nat
    BY <2>1, <2>2 DEF DataInv, DataShapes
  <2>4. Follows(reader.fd, 2 * handled[reader.fd] + Len(buffer))
    BY <2>2 DEF TakenBy
  <2>. QED
    BY <1>1, <1>8, <2>2, <2>3, <2>4
<1>11. StreamInv'
  BY <1>1, <1>9, <1>10 DEF DataInv, StreamInv, Follows, TakenBy
<1>. QED
  BY <1>6, <1>11 DEF DataInv

\* Data goes from the front of the wire to the end of the buffer.
LEMMA Moved ==
    ASSUME NEW b, NEW w, IsSequence(b), IsSequence(w), NEW fd, NEW k \in Nat,
           NEW n \in 1..Len(w), Parts(b, fd, k), Parts(w, fd, k + Len(b))
    PROVE  /\ IsSequence(b \o SubSeq(w, 1, n)) /\ Len(b \o SubSeq(w, 1, n)) = Len(b) + n
           /\ IsSequence(SubSeq(w, n + 1, Len(w)))
           /\ Len(SubSeq(w, n + 1, Len(w))) = Len(w) - n
           /\ Parts(b \o SubSeq(w, 1, n), fd, k)
           /\ Parts(SubSeq(w, n + 1, Len(w)), fd, k + (Len(b) + n))
<1>. DEFINE first == SubSeq(w, 1, n)
            rest == SubSeq(w, n + 1, Len(w))
<1>1. Len(b) \in Nat /\ Len(w) \in Nat /\ n \in Nat /\ 0 \in Nat
      /\ n <= Len(w) /\ 0 <= n /\ Len(w) <= Len(w) /\ k + Len(b) \in Nat
  BY DEF IsSequence
<1>2. /\ IsSequence(SubSeq(w, 0 + 1, n)) /\ Len(SubSeq(w, 0 + 1, n)) = n - 0
      /\ Parts(SubSeq(w, 0 + 1, n), fd, k + Len(b) + 0)
  BY <1>1, Sliced
<1>3. 0 + 1 = 1 /\ n - 0 = n /\ k + Len(b) + 0 = k + Len(b)
  BY <1>1
<1>4. IsSequence(first) /\ Len(first) = n /\ Parts(first, fd, k + Len(b))
  BY <1>2, <1>3
<1>5. /\ IsSequence(rest) /\ Len(rest) = Len(w) - n
      /\ Parts(rest, fd, k + Len(b) + n)
  BY <1>1, Sliced
<1>6. k + Len(b) + n = k + (Len(b) + n)
  BY <1>1
<1>7. IsSequence(b \o first) /\ Len(b \o first) = Len(b) + Len(first) /\ Parts(b \o first, fd, k)
  BY <1>4, Joined
<1>. QED
  BY <1>4, <1>5, <1>6, <1>7

LEMMA ReaderReadsData ==
    ASSUME ControlInv, DataInv, ReaderReads
    PROVE  DataInv'
<1>1. /\ reader.at = "read"
      /\ UNCHANGED <<sent, handled>>
      /\ reader.fd \in Fds
      /\ \E next \in {"parse", "loop", "stop"} : reader' = [reader EXCEPT !.at = next]
  BY DEF ReaderReads, logVars, DataInv, StreamInv
<1>2. reader'.fd = reader.fd /\ reader'.at # "ended"
  BY <1>1 DEF ControlInv, ThreadsInv
<1>3. CASE buffer' = buffer /\ wire' = wire
  BY <1>1, <1>2, <1>3, SameData
<1>4. CASE ~ (buffer' = buffer /\ wire' = wire)
  <2>0. PICK f : f = reader.fd
    OBVIOUS
  <2>1. socketFd \in open /\ socketFd = f
    <3>1. ASSUME socketFd \notin open PROVE FALSE
      <4>1. 1..Len(<<>>) = {}
        OBVIOUS
      <4>. QED
        BY <1>4, <3>1, <4>1 DEF ReaderReads
    <3>. QED
      BY <2>0, <3>1 DEF ControlInv, SocketInv, ThreadsInv, NoFd
  <2>2. PICK w : w = wire[f]
    OBVIOUS
  <2>3. PICK n \in 1..Len(w) :
          /\ buffer' = buffer \o SubSeq(w, 1, n)
          /\ wire' = [wire EXCEPT ![f] = SubSeq(w, n + 1, Len(w))]
    BY <1>4, <2>1, <2>2 DEF ReaderReads
  <2>4. PICK b : b = buffer
    OBVIOUS
  <2>5. PICK k \in Nat : k = 2 * handled[f]
    BY <1>1, <2>0 DEF DataInv, DataShapes
  <2>6. PICK rest : rest = SubSeq(w, n + 1, Len(w))
    OBVIOUS
  <2>7. /\ IsSequence(b) /\ IsSequence(w) /\ Parts(b, f, k) /\ Parts(w, f, k + Len(b))
        /\ sent[f] = k + Len(b) + Len(w)
    BY <1>1, <2>0, <2>2, <2>4, <2>5 DEF DataInv, DataShapes, StreamInv, Follows, TakenBy
  <2>8. /\ IsSequence(buffer') /\ Len(buffer') = Len(b) + n /\ Parts(buffer', f, k)
        /\ IsSequence(rest) /\ Len(rest) = Len(w) - n /\ Parts(rest, f, k + (Len(b) + n))
    BY <2>3, <2>4, <2>6, <2>7, Moved
  <2>9. /\ wire' = [j \in Fds |-> wire'[j]] /\ wire'[f] = rest
        /\ \A j \in Fds : j # f => wire'[j] = wire[j]
    <3>1. wire = [j \in Fds |-> wire[j]] /\ wire' = [wire EXCEPT ![f] = rest]
      BY <2>3, <2>6 DEF DataInv, DataShapes
    <3>2. wire' = [j \in Fds |-> IF j = f THEN rest ELSE wire[j]]
      BY <3>1
    <3>. QED
      BY <1>1, <2>0, <3>2
  <2>10. DataShapes'
    BY <1>1, <2>8, <2>9 DEF DataInv, DataShapes
  <2>11. \A j \in Fds : j > f => handled'[j] = 0 /\ Follows(j, 0)'
    <3>. SUFFICES ASSUME NEW j \in Fds, j > f PROVE handled'[j] = 0 /\ Follows(j, 0)'
      OBVIOUS
    <3>1. j # f
      BY <1>1, <2>0 DEF Fds
    <3>2. handled[j] = 0 /\ Follows(j, 0)
      BY <2>0 DEF DataInv, StreamInv
    <3>. QED
      BY <1>1, <2>9, <3>1, <3>2 DEF Follows
  <2>12. TakenBy(f)' = k + (Len(b) + n)
    <3>1. Len(b) \in Nat /\ n \in Nat
      BY <2>7 DEF IsSequence
    <3>. QED
      BY <1>1, <2>5, <2>8, <3>1 DEF TakenBy
  <2>13. sent'[f] = k + (Len(b) + n) + Len(rest)
    <3>1. Len(b) \in Nat /\ Len(w) \in Nat /\ n \in Nat
      BY <2>7 DEF IsSequence
    <3>2. sent'[f] = k + Len(b) + Len(w)
      BY <1>1, <2>7
    <3>. QED
      BY <2>8, <3>1, <3>2
  <2>14. /\ sent'[f] = TakenBy(f)' + Len(wire'[f]) /\ Parts(wire'[f], f, TakenBy(f)')
    BY <2>8, <2>9, <2>12, <2>13
  <2>15. StreamInv'
    BY <1>1, <1>2, <2>0, <2>5, <2>8, <2>11, <2>14 DEF StreamInv, Follows, TakenBy
  <2>. QED
    BY <2>10, <2>15 DEF DataInv
<1>. QED
  BY <1>3, <1>4

\* A message is two halves, the first two in the buffer.
LEMMA ReaderParsesData ==
    ASSUME ControlInv, DataInv, ReaderParses, Len(buffer) >= 2
    PROVE  /\ DataInv'
           /\ IsHalf(buffer[1], reader.fd, handled'[reader.fd], 1)
           /\ IsHalf(buffer[2], reader.fd, handled'[reader.fd], 2)
<1>0. PICK f : f = reader.fd
  OBVIOUS
<1>1. /\ reader.at = "parse" /\ handled' = [handled EXCEPT ![f] = handled[f] + 1]
      /\ buffer' = SubSeq(buffer, 3, Len(buffer))
      /\ UNCHANGED <<wire, sent, reader>>
  <2>1. Len(buffer) \in Nat /\ ~ (Len(buffer) < 2)
    BY DEF DataInv, DataShapes, IsSequence
  <2>. QED
    BY <1>0, <2>1 DEF ReaderParses, phoneVars
<1>2. PICK b : b = buffer
  OBVIOUS
<1>3. PICK h \in Nat : h = handled[f]
  BY <1>0, <1>1 DEF DataInv, DataShapes, StreamInv
<1>4. /\ f \in Fds /\ IsSequence(b) /\ Parts(b, f, 2 * h) /\ Len(b) >= 2 /\ Len(b) \in Nat
      /\ sent[f] = 2 * h + Len(b) + Len(wire[f]) /\ Parts(wire[f], f, 2 * h + Len(b))
  BY <1>0, <1>1, <1>2, <1>3
     DEF DataInv, DataShapes, StreamInv, Follows, TakenBy, IsSequence
<1>5. 2 * h \in Nat /\ 2 \in Nat /\ 2 <= Len(b) /\ Len(b) <= Len(b)
  BY <1>4
<1>6. /\ IsSequence(SubSeq(b, 2 + 1, Len(b))) /\ Len(SubSeq(b, 2 + 1, Len(b))) = Len(b) - 2
      /\ Parts(SubSeq(b, 2 + 1, Len(b)), f, 2 * h + 2)
  BY <1>4, <1>5, Sliced
<1>7. 2 + 1 = 3 /\ 2 * h + 2 = 2 * (h + 1)
  OBVIOUS
<1>8. /\ IsSequence(buffer') /\ Len(buffer') = Len(b) - 2 /\ Parts(buffer', f, 2 * (h + 1))
  BY <1>1, <1>2, <1>6, <1>7
<1>9. /\ handled'[f] = h + 1 /\ \A j \in Fds : j # f => handled'[j] = handled[j]
      /\ handled' \in [Fds -> Nat]
  BY <1>1, <1>3, <1>4 DEF DataInv, DataShapes
<1>10. TakenBy(f)' = 2 * h + Len(b)
  BY <1>4, <1>8, <1>9 DEF TakenBy
<1>11. Follows(f, TakenBy(f))'
  BY <1>1, <1>4, <1>10 DEF Follows
<1>12. \A j \in Fds : j > f => handled'[j] = 0 /\ Follows(j, 0)'
  <2>. SUFFICES ASSUME NEW j \in Fds, j > f PROVE handled'[j] = 0 /\ Follows(j, 0)'
    OBVIOUS
  <2>1. j # f
    BY <1>4 DEF Fds
  <2>2. handled[j] = 0 /\ Follows(j, 0)
    BY <1>0 DEF DataInv, StreamInv
  <2>. QED
    BY <1>1, <1>9, <2>1, <2>2 DEF Follows
<1>13. StreamInv'
  BY <1>0, <1>1, <1>4, <1>8, <1>9, <1>11, <1>12 DEF StreamInv
<1>14. DataShapes'
  BY <1>1, <1>8, <1>9 DEF DataInv, DataShapes
<1>15. IsHalf(b[1], f, h + 1, 1) /\ IsHalf(b[2], f, h + 1, 2)
  <2>1. 1 \in 1..Len(b) /\ 2 \in 1..Len(b) /\ 2 * h + 1 - 1 = 2 * h /\ 2 * h + 2 - 1 = 2 * h + 1
    BY <1>4
  <2>2. IsPart(b[1], f, 2 * h) /\ IsPart(b[2], f, 2 * h + 1)
    BY <1>4, <2>1 DEF Parts
  <2>. QED
    BY <2>2, Halves DEF IsPart
<1>. QED
  BY <1>0, <1>2, <1>9, <1>13, <1>14, <1>15 DEF DataInv

-----------------------------------------------------------------------------
\* Whatever is open is the connection's.
LEMMA SocketOf ==
    ASSUME ControlInv, socketFd \in open
    PROVE  socketFd = reader.fd
  BY DEF ControlInv, SocketInv, ThreadsInv, NoFd

\* What is written for the connection of the reader goes to it.
LEMMA SendMessageLast ==
    ASSUME ControlInv, LastInv, NEW interface, SendMessage(reader.fd, interface)
    PROVE  lastWritten'.for = lastWritten'.on
<1>1. CASE socketFd \in open
  <2>1. lastWritten' = [for |-> reader.fd, on |-> socketFd, interface |-> interface]
    BY <1>1 DEF SendMessage
  <2>. QED
    BY <1>1, <2>1, SocketOf
<1>2. CASE socketFd \notin open
  BY <1>2 DEF SendMessage, LastInv, ConnectionsApart
<1>. QED
  BY <1>1, <1>2

LEMMA SameLast ==
    ASSUME LastInv, UNCHANGED <<handled, lastHandled>>, lastWritten'.for = lastWritten'.on
    PROVE  LastInv'
  BY DEF LastInv, ConnectionsApart

LEMMA SendRequestsLast ==
    ASSUME ControlInv, LastInv, SendWifiVersionRequest \/ SendWifiStartRequest
    PROVE  LastInv'
<1>1. dbus.fd = reader.fd /\ UNCHANGED <<handled, lastHandled>>
  BY DEF SendWifiVersionRequest, SendWifiStartRequest, ControlInv, ThreadsInv
<1>2. \/ lastWritten' = lastWritten
      \/ \E interface : SendMessage(reader.fd, interface)
  BY <1>1 DEF SendWifiVersionRequest, SendWifiStartRequest
<1>3. lastWritten'.for = lastWritten'.on
  BY <1>2, SendMessageLast DEF LastInv, ConnectionsApart
<1>. QED
  BY <1>1, <1>3, SameLast

LEMMA ReaderParsesLast ==
    ASSUME ControlInv, DataInv, LastInv, ReaderParses, Len(buffer) >= 2
    PROVE  LastInv'
<1>1. /\ IsHalf(buffer[1], reader.fd, handled'[reader.fd], 1)
      /\ IsHalf(buffer[2], reader.fd, handled'[reader.fd], 2)
  BY ReaderParsesData
<1>2. /\ reader.at = "parse" /\ reader.fd \in Fds
      /\ lastHandled' = [by |-> reader.fd, head |-> buffer[1], rest |-> buffer[2]]
      /\ \/ \E interface : SendMessage(buffer[1].fd, interface)
         \/ lastWritten' = lastWritten
  <2>1. Len(buffer) \in Nat /\ ~ (Len(buffer) < 2)
    BY DEF DataInv, DataShapes, IsSequence
  <2>. QED
    BY <2>1 DEF ReaderParses, HandleWifiInfoRequest, HandleStatus, DataInv, StreamInv
<1>3. buffer[1].fd = reader.fd
  BY <1>1 DEF IsHalf
<1>4. lastWritten'.for = lastWritten'.on
  BY <1>2, <1>3, SendMessageLast DEF LastInv, ConnectionsApart
<1>. QED
  BY <1>1, <1>2, <1>4 DEF LastInv, ConnectionsApart

-----------------------------------------------------------------------------
\* In the beginning there is no connection.
LEMMA InitInv == ASSUME Init PROVE IInv
<1>1. LastInv
  BY DEF Init, LastInv, ConnectionsApart
<1>. QED
  BY <1>1, InitControl, InitData DEF IInv

\* The main thread and the phone leave the threads of btservice alone.
LEMMA OutsideInv ==
    ASSUME IInv,
           \/ Start
           \/ \E fd \in Fds : PhoneCloses(fd)
           \/ \E fd \in Fds, kind \in Kinds : PhoneSends(fd, kind)
           \/ UNCHANGED vars
    PROVE  IInv'
<1>1. ControlInv'
  <2>1. ControlSame
    BY DEF Start, PhoneCloses, PhoneSends, vars, socketVars, ControlSame
  <2>. QED
    BY <2>1, SameControl DEF IInv
<1>2. DataInv'
  <2>1. CASE \E fd \in Fds, kind \in Kinds : PhoneSends(fd, kind)
    BY <2>1, PhoneSendsData DEF IInv
  <2>2. CASE Start \/ (\E fd \in Fds : PhoneCloses(fd)) \/ UNCHANGED vars
    <3>1. UNCHANGED <<wire, sent, handled, buffer, reader>>
      BY <2>2 DEF Start, PhoneCloses, vars, socketVars, phoneVars, logVars
    <3>. QED
      BY <3>1, SameData DEF IInv
  <2>. QED
    BY <2>1, <2>2
<1>3. LastInv'
  <2>1. UNCHANGED logVars
    BY DEF Start, PhoneCloses, PhoneSends, vars
  <2>. QED
    BY <2>1, SameLast DEF IInv, LastInv, ConnectionsApart, logVars
<1>. QED
  BY <1>1, <1>2, <1>3 DEF IInv

LEMMA BluezInv ==
    ASSUME IInv, (\E fd \in Fds : NewConnection(fd)) \/ RequestDisconnection
    PROVE  IInv'
<1>1. ControlInv'
  BY NewConnectionControl, RequestDisconnectionControl DEF IInv
<1>2. UNCHANGED <<wire, sent, handled, buffer, reader, logVars>>
  BY DEF NewConnection, RequestDisconnection, socketVars, phoneVars, logVars
<1>3. DataInv'
  BY <1>2, SameData DEF IInv
<1>4. LastInv'
  BY <1>2, SameLast DEF IInv, LastInv, ConnectionsApart, logVars
<1>. QED
  BY <1>1, <1>3, <1>4 DEF IInv

\* Neither thread's stopReadLoop touches what was read.
LEMMA StopsInv ==
    ASSUME IInv, DbusStops \/ ReaderStops
    PROVE  IInv'
<1>1. ControlInv'
  BY DbusStopsControl, ReaderStopsControl DEF IInv
<1>2. buffer' = buffer
  BY DEF DbusStops, ReaderStops, StopReadLoop
<1>3. reader'.fd = reader.fd /\ (reader'.at = "ended" <=> reader.at = "ended")
  <2>1. CASE DbusStops
    BY <2>1 DEF DbusStops
  <2>2. CASE ReaderStops
    <3>1. \E next \in Places :
            /\ reader' = [reader EXCEPT !.at = next]
            /\ reader.at \in {"stop", "close", "forget"}
      BY <2>2 DEF ReaderStops, StopReadLoop
    <3>. QED
      BY <3>1 DEF IInv, ControlInv, ThreadsInv, Places
  <2>. QED
    BY <2>1, <2>2
<1>4. UNCHANGED <<wire, sent, logVars>>
  BY DEF DbusStops, ReaderStops, readerUnchanged, phoneVars
<1>5. DataInv'
  BY <1>2, <1>3, <1>4, SameData DEF IInv, logVars
<1>6. LastInv'
  BY <1>4, SameLast DEF IInv, LastInv, ConnectionsApart, logVars
<1>. QED
  BY <1>1, <1>5, <1>6 DEF IInv

LEMMA DbusStepInv ==
    ASSUME IInv, DbusJoins \/ StartReadLoop \/ SendWifiVersionRequest \/ SendWifiStartRequest
    PROVE  IInv'
<1>1. ControlInv'
  BY DbusJoinsControl, StartReadLoopControl, SendRequestsControl DEF IInv
<1>2. CASE DbusJoins
  <2>1. /\ buffer' = <<>> /\ reader' = reader /\ reader.at = "ended"
        /\ UNCHANGED <<wire, sent, logVars>>
    BY <1>2 DEF DbusJoins, ClearBuffer, phoneVars
  <2>2. DataInv'
    BY <2>1, SameData DEF IInv, logVars
  <2>3. LastInv'
    BY <2>1, SameLast DEF IInv, LastInv, ConnectionsApart, logVars
  <2>. QED
    BY <1>1, <2>2, <2>3 DEF IInv
<1>3. CASE StartReadLoop
  <2>1. LastInv'
    BY <1>3, SameLast DEF StartReadLoop, IInv, LastInv, ConnectionsApart, logVars
  <2>. QED
    BY <1>1, <1>3, <2>1, StartReadLoopData DEF IInv
<1>4. CASE SendWifiVersionRequest \/ SendWifiStartRequest
  <2>1. UNCHANGED <<wire, sent, handled, buffer, reader>>
    BY <1>4 DEF SendWifiVersionRequest, SendWifiStartRequest, socketVars, phoneVars
  <2>2. DataInv'
    BY <2>1, SameData DEF IInv
  <2>. QED
    BY <1>1, <1>4, <2>2, SendRequestsLast DEF IInv
<1>. QED
  BY <1>2, <1>3, <1>4

LEMMA ReaderLoopsInv == ASSUME IInv, ReaderLoops \/ ReaderEnds PROVE IInv'
<1>1. PICK next \in {"read", "stop", "ended"} :
        /\ reader' = [reader EXCEPT !.at = next]
        /\ UNCHANGED <<socketFd, open, dbus, wire, sent, logVars>>
        /\ reader.at # "ended"
        /\ \/ next # "ended" /\ buffer' = buffer
           \/ next = "ended" /\ reader.at = "join" /\ buffer' = <<>>
  BY DEF ReaderLoops, ReaderEnds, ClearBuffer, readerUnchanged, socketVars, phoneVars
<1>2. reader' = [at |-> next, fd |-> reader.fd]
  BY <1>1 DEF IInv, ControlInv, ThreadsInv
<1>3. ControlInv'
  BY <1>1, ReaderMovesControl DEF IInv
<1>4. DataInv'
  BY <1>1, <1>2, SameData DEF IInv, logVars
<1>5. LastInv'
  BY <1>1, SameLast DEF IInv, LastInv, ConnectionsApart, logVars
<1>. QED
  BY <1>3, <1>4, <1>5 DEF IInv

LEMMA ReaderReadsInv == ASSUME IInv, ReaderReads PROVE IInv'
<1>1. PICK next \in {"parse", "loop", "stop"} : reader' = [reader EXCEPT !.at = next]
  BY DEF ReaderReads
<1>2. reader.at = "read" /\ UNCHANGED <<socketFd, open, dbus, logVars>>
  BY DEF ReaderReads
<1>3. ControlInv'
  BY <1>1, <1>2, ReaderMovesControl DEF IInv
<1>4. LastInv'
  BY <1>2, SameLast DEF IInv, LastInv, ConnectionsApart, logVars
<1>. QED
  BY <1>3, <1>4, ReaderReadsData DEF IInv

LEMMA ReaderParsesInv == ASSUME IInv, ReaderParses PROVE IInv'
<1>1. /\ reader.at = "parse" /\ UNCHANGED <<socketFd, open, dbus, wire, sent>>
      /\ Len(buffer) \in Nat
  BY DEF ReaderParses, phoneVars, IInv, DataInv, DataShapes, IsSequence
<1>2. CASE Len(buffer) >= 2
  <2>1. reader' = reader
    BY <1>1, <1>2 DEF ReaderParses
  <2>2. ControlInv'
    BY <1>1, <2>1, SameControl DEF IInv, ControlSame
  <2>. QED
    BY <1>2, <2>2, ReaderParsesData, ReaderParsesLast DEF IInv
<1>3. CASE Len(buffer) < 2
  <2>1. reader' = [reader EXCEPT !.at = "loop"] /\ UNCHANGED <<buffer, logVars>>
    BY <1>3 DEF ReaderParses
  <2>2. ControlInv'
    BY <1>1, <2>1, ReaderMovesControl DEF IInv
  <2>3. reader'.fd = reader.fd /\ reader'.at = "loop"
    BY <2>1 DEF IInv, ControlInv, ThreadsInv
  <2>4. DataInv'
    BY <1>1, <2>1, <2>3, SameData DEF IInv, logVars
  <2>5. LastInv'
    BY <2>1, SameLast DEF IInv, LastInv, ConnectionsApart, logVars
  <2>. QED
    BY <2>2, <2>4, <2>5 DEF IInv
<1>. QED
  BY <1>1, <1>2, <1>3

LEMMA NextInv == IInv /\ [Next]_vars => IInv'
<1>. SUFFICES ASSUME IInv, Next \/ UNCHANGED vars PROVE IInv'
  OBVIOUS
<1>1. CASE DbusStep
  BY <1>1, StopsInv, DbusStepInv DEF DbusStep
<1>2. CASE ReaderStep
  BY <1>2, StopsInv, ReaderLoopsInv, ReaderReadsInv, ReaderParsesInv DEF ReaderStep
<1>. QED
  BY <1>1, <1>2, OutsideInv, BluezInv DEF Next

-----------------------------------------------------------------------------
\* The invariant holds in every reachable state.
THEOREM Invariance == Spec => []IInv
  BY InitInv, NextInv, PTL DEF Spec

(***************************************************************************)
(* Whichever thread runs which step of stopReadLoop, a descriptor that is  *)
(* open is that of the socket, or of the connection that is about to get a *)
(* reader (BluezBluetoothServer.cpp:242-247, 394-406).                     *)
(***************************************************************************)
THEOREM DescriptorsAreKept == Spec => []NoLeak
<1>1. IInv => NoLeak
  BY DEF IInv, ControlInv, SocketInv, Taking, NoLeak
<1>. QED
  BY <1>1, Invariance, PTL

(***************************************************************************)
(* Whatever pieces a stream arrives in and whenever connections come and   *)
(* go, messages are handled whole, in order and by the reader of their own *)
(* connection, and what is written for a connection goes to its socket     *)
(* (BluezBluetoothServer.cpp:242-279, 385-465, 536-560).                   *)
(***************************************************************************)
THEOREM ConnectionsAreApart == Spec => []ConnectionsApart
<1>1. IInv => ConnectionsApart
  BY DEF IInv, LastInv
<1>. QED
  BY <1>1, Invariance, PTL

-----------------------------------------------------------------------------
\* A margin that is negative is put above the numbers that can be got, and the
\* others read back.
LEMMA MarginReadsBack ==
    ASSUME NEW n \in -IntLimit..IntLimit - 1
    PROVE  GetSigned(PutUnsigned(n), 0) = IF n < 0 THEN 0 ELSE n
<1>. USE IntAssumption
<1>1. CASE n >= 0
  <2>1. PutUnsigned(n) = n
    BY <1>1 DEF PutUnsigned
  <2>. QED
    BY <1>1, <2>1 DEF GetSigned
<1>2. CASE n < 0
  <2>1. PutUnsigned(n) = n + 2 * IntLimit
    BY <1>2 DEF PutUnsigned
  <2>. QED
    BY <1>2, <2>1 DEF GetSigned
<1>. QED
  BY <1>1, <1>2

\* Every setting that load reads is one that save wrote, under the same key.
LEMMA GetReadsBack ==
    ASSUME NEW c, NEW k \in DOMAIN Defaults
    PROVE  Get(Put(c), k) = IF k \in Margins
                            THEN GetSigned(PutUnsigned(c[k]), Defaults[k]) ELSE c[k]
<1>1. k \in Members
  BY DEF Members
<1>. QED
  BY <1>1 DEF Get, Put

(***************************************************************************)
(* For any settings and any object that loads them: each is read back as   *)
(* it was saved, but a negative margin, which becomes 0                    *)
(* (Configuration.cpp:82-133, 174-206).                                    *)
(***************************************************************************)
THEOREM SettingsReadBack ==
    ASSUME NEW c, \A m \in Margins : c[m] \in -IntLimit..IntLimit - 1,
           NEW fresh, NEW k \in DOMAIN Defaults
    PROVE  Load(Put(c), fresh)[k] = IF k \in Margins /\ c[k] < 0 THEN 0 ELSE c[k]
<1>1. Load(Put(c), fresh)[k] = Get(Put(c), k)
  BY DEF Load, Members
<1>2. CASE k \in Margins
  <2>1. Defaults[k] = 0
    <3>1. Defaults.marginWidth = 0 /\ Defaults.marginHeight = 0
      BY Zenon DEF Defaults
    <3>. QED
      BY <1>2, <3>1, Zenon DEF Margins
  <2>. QED
    BY <1>1, <1>2, <2>1, GetReadsBack, MarginReadsBack
<1>3. CASE k \notin Margins
  BY <1>1, <1>3, GetReadsBack
<1>. QED
  BY <1>2, <1>3

-----------------------------------------------------------------------------
Distinct(list) == \A i, j \in DOMAIN list : i # j => list[i] # list[j]

(***************************************************************************)
(* The list of recent addresses keeps within its size and holds no address *)
(* twice, whichever is inserted (RecentAddressesList.cpp:47-61).           *)
(***************************************************************************)
THEOREM InsertKeepsDistinct ==
    ASSUME NEW Addresses, NEW maxListSize \in Nat \ {0}, NEW address \in Addresses,
           NEW list \in Seq(Addresses), Distinct(list), Len(list) <= maxListSize
    PROVE  LET inserted == InsertAddress(list, address, maxListSize)
           IN  /\ inserted \in Seq(Addresses)
               /\ Len(inserted) <= maxListSize
               /\ Distinct(inserted)
               /\ \E i \in DOMAIN inserted : inserted[i] = address
<1>. DEFINE inserted == InsertAddress(list, address, maxListSize)
<1>1. CASE \E i \in DOMAIN list : list[i] = address
  BY <1>1 DEF InsertAddress
<1>2. CASE \A i \in DOMAIN list : list[i] # address
  <2>. DEFINE kept == IF Len(list) >= maxListSize
                      THEN SubSeq(list, 1, Len(list) - 1) ELSE list
  <2>1. /\ kept \in Seq(Addresses)
        /\ Len(kept) < maxListSize /\ Len(kept) <= Len(list)
        /\ \A i \in 1..Len(kept) : kept[i] = list[i]
    OBVIOUS
  <2>2. inserted = <<address>> \o kept
    BY <1>2 DEF InsertAddress
  <2>. HIDE DEF kept, inserted
  <2>3. /\ inserted \in Seq(Addresses)
        /\ Len(inserted) = Len(kept) + 1
        /\ inserted[1] = address
        /\ \A i \in 2..Len(inserted) : inserted[i] = list[i - 1]
    BY <2>1, <2>2
  <2>4. Distinct(inserted)
    <3>1. \A i \in 2..Len(inserted) : i - 1 \in DOMAIN list /\ inserted[i] # address
      BY <1>2, <2>1, <2>3
    <3>2. DOMAIN inserted = 1..Len(inserted)
      BY <2>3
    <3>. QED
      BY <2>3, <3>1, <3>2 DEF Distinct
  <2>. QED
    BY <2>1, <2>3, <2>4 DEF inserted
<1>. QED
  BY <1>1, <1>2
=============================================================================
