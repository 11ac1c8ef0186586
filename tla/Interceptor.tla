------------------------------ MODULE Interceptor ------------------------------
(***************************************************************************)
(* The interceptor's handler objects, which live as long as the process,   *)
(* while the sessions that call them come and go                           *)
(* (MessageInStreamInterceptor.cpp, handlers/*.cpp).                       *)
(*                                                                         *)
(* Three kinds of threads meet in them: the frame readers of the sessions  *)
(* run handle(), of an old session also after its successor was made; the  *)
(* App's strand gives every object the sender of a new session, one after  *)
(* the other; and the thread of the local transport reports touches,       *)
(* sensor values and microphone audio.  Nothing locks, so a handler is as  *)
(* many steps as it has effects.                                           *)
(***************************************************************************)
EXTENDS HandlerTables, Integers, FiniteSets

CONSTANTS
    Loads,       \* [ids: by channel, encryptions, messages, sessions, attached]
                 \* that a run may have
    MaxReports   \* bound: reports of the local transport

VARIABLES
    load,        \* the load of this behaviour
    created,     \* sessions made so far, the last perhaps not yet entirely
    setting,     \* objects that setMessageSender has still to come to
    sender,      \* sender_ of each object: the session it sends to, or 0
    object,      \* the other members of each object
    running,     \* per session: the handler its reader runs, or Idle
    handled,     \* per session: messages handled
    report,      \* the report the local transport's thread is at, or Idle
    reports,     \* reports begun
    busy,        \* sessions whose MessageSender is splitting a message
    queue,       \* declined messages, for the service channel
    sent,        \* history: what a sender was given last
    started,     \* history: per object and session, the id of its last START
    requested,   \* history: per object, the encryptions that requests came with
    opened,      \* history: objects that answered an open request
    late,        \* history: audio sent since the phone's microphone was closed, or -1
    owed, given  \* history: requests that need an answer, and answers to them

interceptorVars ==
    <<load, created, setting, sender, object, running, handled, report, reports,
      busy, sent, started, requested, opened, late, owed, given>>

Sessions == 1..load.sessions
Live == DOMAIN load.ids
NoSession == <<0, 0>>
Nothing == [what |-> "nothing"]
Unheard == -1
Idle == [class |-> "none"]

Entry(c, id) == IF id \in DOMAIN Table[c] THEN Table[c][id] ELSE Table[c]["other"]
Has(entry, effect) == \E i \in DOMAIN entry.does : entry.does[i] = effect

NewObject ==
    [channel |-> FALSE, encryption |-> "PLAIN", session |-> NoSession,
     channelOpen |-> FALSE, microphone |-> FALSE]

-----------------------------------------------------------------------------
\* The factory makes a session's sender and hands it to the objects in turn.
\* An earlier session was told to stop, and its reader may still run.
CreateSession ==
    /\ setting = {}
    /\ created < load.sessions
    /\ created' = created + 1
    /\ setting' = {SetOrder[i] : i \in DOMAIN SetOrder} \cap Live
    /\ UNCHANGED <<load, sender, object, running, handled, report, reports, busy,
                   queue, sent, started, requested, opened, late, owed, given>>

SetMessageSender ==
    /\ \E i \in DOMAIN SetOrder :
          LET c == SetOrder[i]
          IN  /\ c \in setting
              /\ \A j \in 1..i - 1 : SetOrder[j] \notin setting
              /\ sender' = [sender EXCEPT ![c] = created]
              /\ setting' = setting \ {c}
    /\ UNCHANGED <<load, created, object, running, handled, report, reports, busy,
                   queue, sent, started, requested, opened, late, owed, given>>

\* Sessions whose reader runs: the last one is started when it is made.
Reading(s) == s < created \/ (s = created /\ setting = {})

-----------------------------------------------------------------------------
\* A sender that splits a message refuses every other; an answer is never split.
Give(t, what) == sent' = IF t \in busy THEN sent ELSE what

\* What the handlers look at of a message; session is what a START carries.
Message(c, id, payload, encryption, session) ==
    [class |-> c, id |-> id, payload |-> payload, encryption |-> encryption,
     session |-> session, answered |-> FALSE]

\* The message goes to the messenger's queue.  Where no service channel asks
\* for it, nobody looks at it again.
Decline(m) == queue' = IF load.attached THEN Append(queue, m) ELSE queue

(***************************************************************************)
(* handle(): too short a payload and one that does not parse are declined; *)
(* a channel without a handler declines everything.                        *)
(***************************************************************************)
Handle(s, m) ==
    /\ Reading(s)
    /\ running[s] = Idle
    /\ handled[s] < load.messages
    /\ handled' = [handled EXCEPT ![s] = @ + 1]
    /\ IF \/ m.class \notin DOMAIN Table
          \/ m.payload = "short"
          \/ m.payload = "bad" /\ Entry(m.class, m.id).parsed
       THEN Decline(m) /\ UNCHANGED <<running, started, requested>>
       ELSE /\ running' = [running EXCEPT ![s] =
                             [class |-> m.class, message |-> m,
                              todo |-> Entry(m.class, m.id).does]]
            /\ started' = IF Has(Entry(m.class, m.id), "session")
                          THEN [started EXCEPT ![m.class][s] = m.session] ELSE started
            /\ requested' = IF Has(Entry(m.class, m.id), "encryption")
                            THEN [requested EXCEPT ![m.class] = @ \cup {m.encryption}]
                            ELSE requested
            /\ UNCHANGED queue
    /\ late' = IF m.id = "microphoneOpen" THEN Unheard ELSE late
    /\ UNCHANGED <<load, created, setting, sender, object, report, reports, busy, sent,
                   opened, owed, given>>

Advance(s) == running' = [running EXCEPT ![s].todo = Tail(@)]

Store(s, members) ==
    /\ object' = [object EXCEPT ![running[s].class] = members]
    /\ Advance(s)
    /\ UNCHANGED <<queue, busy, sent, opened, given>>

\* Mutant: the first id is kept.
StoreSessionOnce(s) ==
    LET c == running[s].class
    IN  Store(s, [object[c] EXCEPT !.session =
                    IF @ = NoSession THEN <<s, running[s].message.session>> ELSE @])

StoreSession(s) ==
    LET c == running[s].class
    IN  Store(s, [object[c] EXCEPT !.session = <<s, running[s].message.session>>])

StoreMember(s, member) ==
    LET c == running[s].class
        encryption == running[s].message.encryption
    IN  Store(s, CASE member = "channel" -> [object[c] EXCEPT !.channel = TRUE]
                   [] member = "encryption" -> [object[c] EXCEPT !.encryption = encryption]
                   [] member = "channelOpen" -> [object[c] EXCEPT !.channelOpen = TRUE]
                   [] member = "microphone" -> [object[c] EXCEPT !.microphone = TRUE]
                   [] member = "noMicrophone" -> [object[c] EXCEPT !.microphone = FALSE])

\* Media without a START before is declined.
TestSession(s) ==
    /\ IF object[running[s].class].session = NoSession
       THEN /\ Decline(running[s].message)
            /\ running' = [running EXCEPT ![s] = Idle]
       ELSE Advance(s) /\ UNCHANGED queue
    /\ UNCHANGED <<object, busy, sent, opened, given>>

Answer(s, what) ==
    LET c == running[s].class
    IN  /\ Give(sender[c],
                [to |-> sender[c], from |-> s, class |-> c, what |-> what,
                 encryption |-> running[s].message.encryption, opened |-> TRUE,
                 session |-> object[c].session, started |-> started[c][s]])
        /\ opened' = IF what = "OPEN_RESPONSE" THEN opened \cup {c} ELSE opened
        /\ given' = IF what \in {"OPEN_RESPONSE", "ACK"} THEN given + 1 ELSE given
        /\ running' = [running EXCEPT ![s].todo = Tail(@), ![s].message.answered = TRUE]
        /\ UNCHANGED <<object, queue, busy>>

\* The local transport's process is another program.
Forward(s) == Advance(s) /\ UNCHANGED <<object, queue, busy, sent, opened, given>>

Step(s) ==
    /\ running[s] # Idle /\ running[s].todo # <<>>
    /\ LET e == Head(running[s].todo)
       IN  \/ e = "session" /\ StoreSession(s)
           \/ e \in {"channel", "encryption", "channelOpen", "microphone",
                     "noMicrophone"} /\ StoreMember(s, e)
           \/ e = "testSession" /\ TestSession(s)
           \/ e = "forward" /\ Forward(s)
           \/ e \notin Effects /\ Answer(s, e)
    /\ UNCHANGED <<load, created, setting, sender, handled, report, reports, started,
                   requested, late, owed>>

\* handle() returns what the reader asks: taken, or not.
Finish(s) ==
    LET m == running[s].message
        entry == Entry(m.class, m.id)
    IN  /\ running[s] # Idle /\ running[s].todo = <<>>
        /\ running' = [running EXCEPT ![s] = Idle]
        /\ IF entry.taken THEN UNCHANGED queue ELSE Decline(m)
        /\ owed' = IF entry.taken /\ m.id \in {"open", "codec", "data"} THEN owed + 1 ELSE owed
        /\ late' = IF m.id = "microphoneClose" THEN 0 ELSE late
        /\ UNCHANGED <<load, created, setting, sender, object, handled, report, reports,
                       busy, sent, started, requested, opened, given>>

-----------------------------------------------------------------------------
(***************************************************************************)
(* Reports run on the one thread of the local transport.  What is tested   *)
(* (sender and channel, and for audio the two flags) is read again when    *)
(* the message is built.  A sensor report has up to three parts.           *)
(***************************************************************************)
Parts(c) == CASE c = "SENSOR" -> 1..3
              [] c \in {"INPUT_SOURCE", "MEDIA_SOURCE_MICROPHONE"} -> {1}
              [] OTHER -> {}

MaySend(c) ==
    /\ sender[c] # 0
    /\ IF c = "MEDIA_SOURCE_MICROPHONE"
       THEN object[c].channelOpen /\ object[c].microphone
       ELSE object[c].channel

BeginReport(c, n) ==
    /\ report = Idle
    /\ reports < MaxReports
    /\ MaySend(c)
    /\ reports' = reports + 1
    /\ report' = [class |-> c, parts |-> n]
    /\ UNCHANGED <<load, created, setting, sender, object, running, handled, busy, queue,
                   sent, started, requested, opened, late, owed, given>>

\* Audio may be long enough to be split; the sender is busy until it is sent.
SendReport ==
    LET c == report.class
        t == sender[c]
        audio == c = "MEDIA_SOURCE_MICROPHONE"
    IN  /\ report # Idle
        /\ Give(t, [to |-> t, from |-> 0, class |-> c, what |-> "REPORT",
                    encryption |-> object[c].encryption, opened |-> c \in opened,
                    session |-> NoSession, started |-> 0])
        /\ \E split \in IF audio THEN BOOLEAN ELSE {FALSE} :
               busy' = IF split THEN busy \cup {t} ELSE busy
        /\ late' = IF audio /\ late # Unheard /\ t \notin busy THEN late + 1 ELSE late
        /\ report' = IF report.parts = 1 THEN Idle ELSE [report EXCEPT !.parts = @ - 1]
        /\ UNCHANGED <<load, created, setting, sender, object, running, handled, reports,
                       queue, started, requested, opened, owed, given>>

\* The last frame of a split message is with the transport.
SplitDone(t) ==
    /\ t \in busy
    /\ busy' = busy \ {t}
    /\ UNCHANGED <<load, created, setting, sender, object, running, handled, report,
                   reports, queue, sent, started, requested, opened, late, owed, given>>

-----------------------------------------------------------------------------
InterceptorInit ==
    /\ load \in Loads
    /\ created = 0 /\ setting = {}
    /\ sender = [c \in Live |-> 0]
    /\ object = [c \in Live |-> NewObject]
    /\ running = [s \in Sessions |-> Idle]
    /\ handled = [s \in Sessions |-> 0]
    /\ report = Idle /\ reports = 0
    /\ busy = {}
    /\ queue = <<>>
    /\ sent = Nothing
    /\ started = [c \in Live |-> [s \in Sessions |-> 0]]
    /\ requested = [c \in Live |-> {}]
    /\ opened = {}
    /\ late = Unheard
    /\ owed = 0 /\ given = 0

Payloads == {"good", "bad", "short"}
Encryptions == {"PLAIN", "ENCRYPTED"}

\* A START carries an id of its phone's choice.
Carried(id) == IF id = "start" THEN 1..2 ELSE {0}

InterceptorNext ==
    \/ CreateSession \/ SetMessageSender
    \/ \E s \in Sessions :
          \/ \E c \in Live : \E id \in load.ids[c], p \in Payloads, e \in load.encryptions :
                \E n \in Carried(id) : Handle(s, Message(c, id, p, e, n))
          \/ Step(s) \/ Finish(s)
    \/ \E c \in Live : \E n \in Parts(c) : BeginReport(c, n)
    \/ SendReport
    \/ \E t \in Sessions : SplitDone(t)

-----------------------------------------------------------------------------
\* The answer to a phone is never sent to the phone before it: every object has
\* the new sender before the reader of the new session starts
\* (AndroidAutoEntityFactory.cpp:66).  It may go to a phone after it.
NoAnswerToEarlierPhone == sent # Nothing /\ sent.from # 0 => sent.to >= sent.from

\* A phone's media is never acknowledged under no session, nor under a START of
\* its own that it has sent another after, whatever the readers of other phones
\* store in between.  It may be under a START of another phone: the member is one
\* for the process (MediaSinkVideoMessageHandlers.cpp:268).
AckNamesLastStart ==
    sent # Nothing /\ sent.what = "ACK" /\ sent.from # 0
        => /\ sent.session # NoSession
           /\ sent.session[1] = sent.from => sent.session[2] = sent.started

\* What a handler takes of the phone's open requests and media frames it answers
\* once, and what it answered is not left to the service channel as well.
OneAnswerPerRequest ==
    /\ (\A s \in Sessions : running[s] = Idle) => owed = given
    /\ \A i \in DOMAIN queue : ~queue[i].answered

\* Microphone audio always, and a report on a channel whose open request was
\* answered, is as a phone wanted it: with an encryption that a request to the
\* object came with.  The report's thread reads channel, flags and encryption
\* without a lock while a reader stores them.  Touches and sensor values that are
\* reported between the stores of channel and encryption go out as they did
\* before, the first time in plain (SensorMessageHandlers.cpp:92).
ReportsAsRequested ==
    sent # Nothing /\ sent.what = "REPORT"
        /\ (sent.opened \/ sent.class = "MEDIA_SOURCE_MICROPHONE")
        => sent.encryption \in requested[sent.class]

\* After the phone closed its microphone at most the audio that was already
\* past the test is sent.
MicStopsWhenClosed == late <= 1
=============================================================================
