-------------------------------- MODULE AppProofs --------------------------------
(***************************************************************************)
(* AlwaysListening and NoOrphanSession for any number of sessions, devices *)
(* and clients.  Both rest on the types; the first needs that the hub is   *)
(* cancelled only when the App has stopped, the second that a session is   *)
(* told to start once, before anything else.                               *)
(***************************************************************************)
EXTENDS App, TLAPS

EntityCalls == {"start", "stop"}

\* TypeOK in three parts.
QueueTypes == calls \in Seq(AppCalls) /\ hubCalls \in Seq(HubCalls)

CountTypes ==
    /\ androidAutoEntity \in 0..created
    /\ created \in 0..MaxSessions
    /\ isStopped \in BOOLEAN
    /\ accepts \in Nat
    /\ clients \in 0..MaxClients
    /\ hotplugPromise \in {"null", "set"}
    /\ registered \in BOOLEAN
    /\ devices \in 0..MaxDevices

SessionTypes ==
    /\ entityCalls \in [Sessions -> Seq(EntityCalls)]
    /\ eventHandler \in [Sessions -> {"unset", "set", "null"}]
    /\ failed \in [Sessions -> BOOLEAN]
    /\ quits \in [Sessions -> 0..MaxQuits]

Types == QueueTypes /\ CountTypes /\ SessionTypes

\* The hub is cancelled by Stop only, and a promise it holds is one of a start
\* that registered it.
HubOrder ==
    /\ Has(hubCalls, "cancel") => isStopped
    /\ hotplugPromise = "set" => registered

ListenInv == HubOrder /\ AlwaysListening

\* Nothing was dispatched to a session that is not created, and start is the
\* first call of one that is.
StartsFirst ==
    \A s \in Sessions :
        /\ s > created => entityCalls[s] = <<>> /\ eventHandler[s] = "unset"
        /\ \A i \in DOMAIN entityCalls[s] :
              entityCalls[s][i] = "start" => i = 1 /\ eventHandler[s] = "unset"

SessionInv == StartsFirst /\ NoOrphanSession

IInv == Types /\ ListenInv /\ SessionInv

-----------------------------------------------------------------------------
\* What a queue has after a call is appended.
LEMMA HasAppend ==
    ASSUME NEW S, NEW queue \in Seq(S), NEW a \in S, NEW b
    PROVE  Has(Append(queue, a), b) <=> Has(queue, b) \/ a = b
<1>1. /\ Len(Append(queue, a)) = Len(queue) + 1
      /\ \A i \in 1..Len(queue) : Append(queue, a)[i] = queue[i]
      /\ Append(queue, a)[Len(queue) + 1] = a
      /\ DOMAIN Append(queue, a) = 1..Len(queue) + 1
      /\ DOMAIN queue = 1..Len(queue) /\ Len(queue) \in Nat
  OBVIOUS
<1>2. \A i \in 1..Len(queue) + 1 : i \in 1..Len(queue) \/ i = Len(queue) + 1
  BY <1>1
<1>3. \A i \in 1..Len(queue) : i \in 1..Len(queue) + 1
  BY <1>1
<1>4. Len(queue) + 1 \in 1..Len(queue) + 1
  BY <1>1
<1>. QED
  BY <1>1, <1>2, <1>3, <1>4 DEF Has

\* What a queue has after its first call was run.
LEMMA HasTail ==
    ASSUME NEW S, NEW queue \in Seq(S), queue # <<>>, NEW b
    PROVE  Has(queue, b) <=> Has(Tail(queue), b) \/ Head(queue) = b
<1>1. /\ Len(queue) \in Nat \ {0}
      /\ DOMAIN queue = 1..Len(queue)
      /\ DOMAIN Tail(queue) = 1..Len(queue) - 1
      /\ \A i \in 1..Len(queue) - 1 : Tail(queue)[i] = queue[i + 1]
      /\ Head(queue) = queue[1]
  OBVIOUS
<1>2. \A i \in 1..Len(queue) : i = 1 \/ (i - 1 \in 1..Len(queue) - 1 /\ Tail(queue)[i - 1] = queue[i])
  BY <1>1
<1>3. \A i \in 1..Len(queue) - 1 : i + 1 \in 1..Len(queue)
  BY <1>1
<1>4. 1 \in 1..Len(queue)
  BY <1>1
<1>. QED
  BY <1>1, <1>2, <1>3, <1>4 DEF Has

\* The start of a queue whose first call was run is gone.
LEMMA TailHasNoStart ==
    ASSUME NEW queue \in Seq(EntityCalls), queue # <<>>,
           \A i \in DOMAIN queue : queue[i] = "start" => i = 1
    PROVE  \A i \in DOMAIN Tail(queue) : Tail(queue)[i] # "start"
<1>1. /\ DOMAIN queue = 1..Len(queue) /\ Len(queue) \in Nat
      /\ DOMAIN Tail(queue) = 1..Len(queue) - 1
      /\ \A i \in 1..Len(queue) - 1 : Tail(queue)[i] = queue[i + 1]
  OBVIOUS
<1>2. \A i \in 1..Len(queue) - 1 : i + 1 \in 1..Len(queue) /\ i + 1 # 1
  BY <1>1
<1>. QED
  BY <1>1, <1>2

\* What Stopped makes of the calls of a session.
LEMMA StoppedCalls ==
    ASSUME SessionTypes, NEW which
    PROVE  /\ Stopped(which) \in [Sessions -> Seq(EntityCalls)]
           /\ \A s \in Sessions : s \notin which => Stopped(which)[s] = entityCalls[s]
           /\ \A s \in Sessions : s \in which => Has(Stopped(which)[s], "stop")
           /\ \A s \in Sessions : Has(entityCalls[s], "stop") => Has(Stopped(which)[s], "stop")
           /\ \A s \in Sessions : \A i \in DOMAIN Stopped(which)[s] :
                  Stopped(which)[s][i] = "start"
                  => i \in DOMAIN entityCalls[s] /\ entityCalls[s][i] = "start"
<1>1. SUFFICES ASSUME NEW s \in Sessions
               PROVE  /\ Stopped(which)[s] \in Seq(EntityCalls)
                      /\ s \notin which => Stopped(which)[s] = entityCalls[s]
                      /\ s \in which => Has(Stopped(which)[s], "stop")
                      /\ Has(entityCalls[s], "stop") => Has(Stopped(which)[s], "stop")
                      /\ \A i \in DOMAIN Stopped(which)[s] :
                            Stopped(which)[s][i] = "start"
                            => i \in DOMAIN entityCalls[s] /\ entityCalls[s][i] = "start"
  BY DEF Stopped
<1>2. CASE s \notin which
  BY <1>2 DEF Stopped, SessionTypes
<1>3. CASE s \in which
  <2>. DEFINE queue == entityCalls[s]
  <2>1. queue \in Seq(EntityCalls) /\ "stop" \in EntityCalls
    BY DEF SessionTypes, EntityCalls
  <2>2. Stopped(which)[s] = Append(queue, "stop")
    BY <1>3 DEF Stopped
  <2>. HIDE DEF queue
  <2>3. Has(Append(queue, "stop"), "stop")
    BY <2>1, HasAppend
  <2>4. \A i \in DOMAIN Append(queue, "stop") :
           Append(queue, "stop")[i] = "start" => i \in DOMAIN queue /\ queue[i] = "start"
    BY <2>1
  <2>5. Append(queue, "stop") \in Seq(EntityCalls)
    BY <2>1
  <2>. QED
    BY <1>3, <2>2, <2>3, <2>4, <2>5 DEF queue
<1>. QED
  BY <1>2, <1>3

-----------------------------------------------------------------------------
\* At the start the App is about to ask for a device, and there is no session.
LEMMA InitInv == Init => IInv
<1>. SUFFICES ASSUME Init PROVE IInv
  OBVIOUS
<1>. USE AppAssumption
<1>1. /\ <<"waitForUSBDevice">> \in Seq(AppCalls)
      /\ <<>> \in Seq(HubCalls) /\ <<>> \in Seq(EntityCalls)
  BY DEF AppCalls
<1>2. Types
  <2>1. QueueTypes
    BY <1>1 DEF Init, Hub!Init, QueueTypes
  <2>2. CountTypes
    <3>1. \A n \in Nat : 0 \in 0..n
      OBVIOUS
    <3>2. /\ androidAutoEntity \in 0..created /\ created \in 0..MaxSessions
          /\ accepts \in Nat /\ clients \in 0..MaxClients /\ devices \in 0..MaxDevices
      BY <3>1 DEF Init, Hub!Init
    <3>3. /\ isStopped \in BOOLEAN /\ registered \in BOOLEAN
          /\ hotplugPromise \in {"null", "set"}
      BY DEF Init, Hub!Init
    <3>. QED
      BY <3>2, <3>3 DEF CountTypes
  <2>3. SessionTypes
    BY <1>1 DEF Init, SessionTypes
  <2>. QED
    BY <2>1, <2>2, <2>3 DEF Types
<1>3. ~ Has(hubCalls, "cancel") /\ Has(calls, "waitForUSBDevice")
  BY DEF Init, Hub!Init, Has
<1>4. ListenInv
  BY <1>3 DEF ListenInv, HubOrder, AlwaysListening, Init, Hub!Init
<1>5. SessionInv
  BY DEF SessionInv, StartsFirst, NoOrphanSession, Init
<1>. QED
  BY <1>2, <1>4, <1>5 DEF IInv

-----------------------------------------------------------------------------
\* The current session, if there is one, is told to stop and forgotten.
LEMMA ForgetsNone ==
    ASSUME Types, SessionInv, NEW which,
           which = Current \/ (which = {} /\ androidAutoEntity = 0),
           androidAutoEntity' = 0, entityCalls' = Stopped(which),
           created' = created, UNCHANGED sessionVars
    PROVE  SessionTypes' /\ SessionInv'
<1>1. SessionTypes'
  BY StoppedCalls DEF Types, SessionTypes, sessionVars
<1>2. \A s \in which : s = androidAutoEntity
  BY DEF Current
<1>3. \A s \in which : s \in 0..created
  BY <1>2 DEF Types, CountTypes
<1>4. StartsFirst'
  <2>. SUFFICES ASSUME NEW s \in Sessions
                PROVE  /\ s > created => entityCalls'[s] = <<>> /\ eventHandler[s] = "unset"
                       /\ \A i \in DOMAIN entityCalls'[s] :
                             entityCalls'[s][i] = "start" => i = 1 /\ eventHandler[s] = "unset"
    BY DEF StartsFirst, sessionVars
  <2>1. ASSUME s > created PROVE s \notin which
    BY <1>3, <2>1 DEF Sessions, Types, CountTypes
  <2>. QED
    BY <2>1, StoppedCalls DEF SessionInv, StartsFirst, Types
<1>5. NoOrphanSession'
  <2>. SUFFICES ASSUME NEW s \in 1..created
                PROVE  Has(entityCalls'[s], "stop") \/ eventHandler[s] = "null"
    BY DEF NoOrphanSession, sessionVars
  <2>1. s \in Sessions
    BY AppAssumption DEF Sessions, Types, CountTypes
  <2>2. s = androidAutoEntity => s \in which
    BY <2>1 DEF Current, Sessions
  <2>. QED
    BY <2>1, <2>2, StoppedCalls DEF SessionInv, NoOrphanSession, Types
<1>. QED
  BY <1>1, <1>4, <1>5 DEF SessionInv

\* A new session takes the place of the current one, which is told to stop.
LEMMA CreatesOne ==
    ASSUME Types, SessionInv, NEW which,
           which = Current \/ (which = {} /\ androidAutoEntity = 0),
           Created(which), UNCHANGED sessionVars
    PROVE  /\ SessionTypes' /\ SessionInv'
           /\ androidAutoEntity' \in 1..created' /\ created' \in 0..MaxSessions
<1>. DEFINE new == created + 1
<1>1. /\ created' = new /\ androidAutoEntity' = new
      /\ new \in Sessions /\ new \in 1..MaxSessions
      /\ entityCalls' = [Stopped(which) EXCEPT ![new] = <<"start">>]
      /\ created \in Nat /\ created < new
      /\ \A s \in Sessions : s > new => s > created
      /\ \A s \in 1..new : s \in Sessions /\ (s = new \/ s \in 1..created)
  BY AppAssumption DEF Created, Sessions, Types, CountTypes
<1>2. \A s \in which : s = androidAutoEntity /\ s # new /\ ~ s > created
  BY AppAssumption DEF Current, Types, CountTypes
<1>3. <<"start">> \in Seq(EntityCalls)
  BY DEF EntityCalls
<1>4. /\ entityCalls' \in [Sessions -> Seq(EntityCalls)]
      /\ entityCalls'[new] = <<"start">>
      /\ \A s \in Sessions : s # new => entityCalls'[s] = Stopped(which)[s]
  BY <1>1, <1>3, StoppedCalls DEF Types
<1>5. SessionTypes'
  BY <1>4 DEF Types, SessionTypes, sessionVars
<1>. HIDE DEF new
<1>6. StartsFirst'
  <2>. SUFFICES ASSUME NEW s \in Sessions
                PROVE  /\ s > new => entityCalls'[s] = <<>> /\ eventHandler[s] = "unset"
                       /\ \A i \in DOMAIN entityCalls'[s] :
                             entityCalls'[s][i] = "start" => i = 1 /\ eventHandler[s] = "unset"
    BY <1>1 DEF StartsFirst, sessionVars
  <2>1. CASE s = new
    <3>1. eventHandler[s] = "unset" /\ ~ s > new
      BY <1>1, <2>1 DEF SessionInv, StartsFirst, new
    <3>2. \A i \in DOMAIN <<"start">> : i = 1
      OBVIOUS
    <3>. QED
      BY <1>4, <2>1, <3>1, <3>2
  <2>2. CASE s # new
    <3>1. s > new => s > created /\ s \notin which
      BY <1>1, <1>2
    <3>. QED
      BY <1>4, <2>2, <3>1, StoppedCalls DEF SessionInv, StartsFirst, Types
  <2>. QED
    BY <2>1, <2>2
<1>7. NoOrphanSession'
  <2>. SUFFICES ASSUME NEW s \in 1..new, s # new
                PROVE  Has(entityCalls'[s], "stop") \/ eventHandler[s] = "null"
    BY <1>1 DEF NoOrphanSession, sessionVars
  <2>1. s \in Sessions /\ s \in 1..created
    BY <1>1
  <2>2. s = androidAutoEntity => s \in which
    BY <2>1 DEF Current
  <2>. QED
    BY <1>4, <2>1, <2>2, StoppedCalls DEF SessionInv, NoOrphanSession, Types
<1>. QED
  BY <1>1, <1>5, <1>6, <1>7 DEF SessionInv, new

-----------------------------------------------------------------------------
\* A call that is run leaves the queue of the App.
LEMMA RunsOne ==
    ASSUME Types, NEW call, Runs(call)
    PROVE  /\ calls' \in Seq(AppCalls)
           /\ \A b : Has(calls, b) <=> Has(calls', b) \/ b = call
           /\ UNCHANGED <<clients, hotplugPromise, registered, devices, sessionVars>>
<1>1. calls \in Seq(AppCalls) /\ calls # <<>> /\ calls' = Tail(calls) /\ Head(calls) = call
  BY DEF Types, QueueTypes, Runs
<1>2. Tail(calls) \in Seq(AppCalls)
  BY <1>1
<1>. QED
  BY <1>1, <1>2, HasTail DEF Runs

\* A call that is posted is the last in the queue of the App.
LEMMA PostsOne ==
    ASSUME Types, NEW call \in AppCalls, calls' = Append(calls, call)
    PROVE  /\ calls' \in Seq(AppCalls)
           /\ \A b : Has(calls', b) <=> Has(calls, b) \/ b = call
<1>1. calls \in Seq(AppCalls)
  BY DEF Types, QueueTypes
<1>. QED
  BY <1>1, HasAppend

\* The same of the hub.
LEMMA CallsHub ==
    ASSUME Types, NEW call \in HubCalls, hubCalls' = Append(hubCalls, call)
    PROVE  /\ hubCalls' \in Seq(HubCalls)
           /\ \A b : Has(hubCalls', b) <=> Has(hubCalls, b) \/ b = call
<1>1. hubCalls \in Seq(HubCalls)
  BY DEF Types, QueueTypes
<1>. QED
  BY <1>1, HasAppend

\* The hub is asked for a device: so the program listens.
LEMMA WaitListens ==
    ASSUME IInv, WaitForDevice, isStopped' = isStopped,
           UNCHANGED <<hotplugPromise, registered>>
    PROVE  hubCalls' \in Seq(HubCalls) /\ accepts' \in Nat /\ ListenInv'
<1>1. /\ hubCalls' \in Seq(HubCalls)
      /\ \A b : Has(hubCalls', b) <=> Has(hubCalls, b) \/ b = "start"
  BY CallsHub DEF IInv, WaitForDevice, Call, HubCalls
<1>2. accepts' \in Nat
  BY DEF IInv, Types, CountTypes, WaitForDevice
<1>3. ListenInv'
  BY <1>1 DEF IInv, ListenInv, HubOrder, AlwaysListening
<1>. QED
  BY <1>1, <1>2, <1>3

\* A session is created in the place of the current one, or none and the program
\* listens again.
LEMMA ReplacesInv ==
    ASSUME IInv, NEW call, Runs(call), isStopped' = isStopped, NEW which,
           which = Current \/ (which = {} /\ androidAutoEntity = 0),
           Created(which) \/ NotCreated(which)
    PROVE  IInv'
<1>1. /\ Types /\ SessionInv /\ UNCHANGED sessionVars
      /\ UNCHANGED <<clients, hotplugPromise, registered, devices>>
      /\ calls' \in Seq(AppCalls)
  BY RunsOne DEF IInv
<1>2. CASE Created(which)
  <2>1. hubCalls' = hubCalls /\ accepts' = accepts
    BY <1>2 DEF Created, Keep
  <2>2. /\ SessionTypes' /\ SessionInv'
        /\ androidAutoEntity' \in 1..created' /\ created' \in 0..MaxSessions
    BY <1>1, <1>2, CreatesOne
  <2>3. androidAutoEntity' \in 0..created' /\ androidAutoEntity' # 0
    BY <2>2
  <2>4. Types'
    BY <1>1, <2>1, <2>2, <2>3 DEF Types, QueueTypes, CountTypes
  <2>5. ListenInv'
    BY <1>1, <2>1, <2>3 DEF IInv, ListenInv, HubOrder, AlwaysListening
  <2>. QED
    BY <2>2, <2>4, <2>5 DEF IInv
<1>3. CASE NotCreated(which)
  <2>1. /\ androidAutoEntity' = 0 /\ created' = created
        /\ entityCalls' = Stopped(which) /\ WaitForDevice
    BY <1>3 DEF NotCreated
  <2>2. SessionTypes' /\ SessionInv'
    BY <1>1, <2>1, ForgetsNone
  <2>3. hubCalls' \in Seq(HubCalls) /\ accepts' \in Nat /\ ListenInv'
    BY <1>1, <2>1, WaitListens
  <2>4. 0 \in 0..created
    BY <1>1 DEF Types, CountTypes
  <2>5. Types'
    BY <1>1, <2>1, <2>2, <2>3, <2>4 DEF Types, QueueTypes, CountTypes
  <2>. QED
    BY <2>2, <2>3, <2>5 DEF IInv
<1>. QED
  BY <1>2, <1>3

-----------------------------------------------------------------------------
\* What leaves the sessions alone keeps what is known of them.
LEMMA SessionsKept ==
    ASSUME Types, SessionInv, UNCHANGED <<androidAutoEntity, created, entityCalls, sessionVars>>
    PROVE  SessionTypes' /\ SessionInv'
BY DEF Types, SessionTypes, SessionInv, StartsFirst, NoOrphanSession, sessionVars

LEMMA WaitForUSBDeviceInv ==
    ASSUME IInv, WaitForUSBDevice
    PROVE  IInv'
<1>1. /\ Types /\ SessionInv /\ WaitForDevice
      /\ UNCHANGED <<androidAutoEntity, isStopped, created, entityCalls>>
      /\ UNCHANGED <<clients, hotplugPromise, registered, devices, sessionVars>>
      /\ calls' \in Seq(AppCalls)
  BY RunsOne DEF IInv, WaitForUSBDevice
<1>2. hubCalls' \in Seq(HubCalls) /\ accepts' \in Nat /\ ListenInv'
  BY <1>1, WaitListens
<1>3. SessionTypes' /\ SessionInv'
  BY <1>1, SessionsKept
<1>4. Types'
  BY <1>1, <1>2, <1>3 DEF Types, QueueTypes, CountTypes
<1>. QED
  BY <1>2, <1>3, <1>4 DEF IInv

LEMMA StartInv ==
    ASSUME IInv, Start
    PROVE  IInv'
BY ReplacesInv DEF Start

LEMMA AoapDeviceHandlerInv ==
    ASSUME IInv, AoapDeviceHandler
    PROVE  IInv'
<1>1. CASE androidAutoEntity = 0 /\ (Created({}) \/ NotCreated({}))
  BY <1>1, ReplacesInv DEF AoapDeviceHandler
<1>2. CASE androidAutoEntity # 0 /\ Keep /\ UNCHANGED <<androidAutoEntity, created, entityCalls>>
  <2>1. /\ Types /\ SessionInv
        /\ UNCHANGED <<androidAutoEntity, isStopped, created, entityCalls, hubCalls, accepts>>
        /\ UNCHANGED <<clients, hotplugPromise, registered, devices, sessionVars>>
        /\ calls' \in Seq(AppCalls)
    BY <1>2, RunsOne DEF IInv, AoapDeviceHandler, Keep
  <2>2. SessionTypes' /\ SessionInv'
    BY <2>1, SessionsKept
  <2>3. Types'
    BY <2>1, <2>2 DEF Types, QueueTypes, CountTypes
  <2>4. ListenInv'
    BY <1>2, <2>1 DEF IInv, ListenInv, HubOrder, AlwaysListening
  <2>. QED
    BY <2>2, <2>3, <2>4 DEF IInv
<1>. QED
  BY <1>1, <1>2 DEF AoapDeviceHandler

LEMMA OnUSBHubErrorInv ==
    ASSUME IInv, OnUSBHubError
    PROVE  IInv'
<1>1. /\ Types /\ SessionInv
      /\ UNCHANGED <<androidAutoEntity, isStopped, created, entityCalls, hubCalls, accepts>>
      /\ UNCHANGED <<clients, hotplugPromise, registered, devices, sessionVars>>
      /\ calls' \in Seq(AppCalls)
      /\ \A b : Has(calls, b) <=> Has(calls', b) \/ b = "hubError"
  BY RunsOne DEF IInv, OnUSBHubError, appVars
<1>2. SessionTypes' /\ SessionInv'
  BY <1>1, SessionsKept
<1>3. Types'
  BY <1>1, <1>2 DEF Types, QueueTypes, CountTypes
<1>4. ListenInv'
  BY <1>1 DEF IInv, ListenInv, HubOrder, AlwaysListening
<1>. QED
  BY <1>2, <1>3, <1>4 DEF IInv

LEMMA OnAndroidAutoQuitInv ==
    ASSUME IInv, OnAndroidAutoQuit
    PROVE  IInv'
<1>1. /\ Types /\ SessionInv
      /\ androidAutoEntity' = 0 /\ entityCalls' = Stopped(Current)
      /\ UNCHANGED <<isStopped, created>>
      /\ UNCHANGED <<clients, hotplugPromise, registered, devices, sessionVars>>
      /\ calls' \in Seq(AppCalls)
      /\ isStopped \in BOOLEAN /\ (isStopped => Keep) /\ (~isStopped => WaitForDevice)
  BY RunsOne DEF IInv, OnAndroidAutoQuit, Types, CountTypes
<1>2. SessionTypes' /\ SessionInv'
  BY <1>1, ForgetsNone
<1>3. hubCalls' \in Seq(HubCalls) /\ accepts' \in Nat /\ ListenInv'
  <2>1. CASE ~isStopped
    BY <1>1, <2>1, WaitListens
  <2>2. CASE isStopped
    BY <1>1, <2>2 DEF Keep, IInv, ListenInv, HubOrder, AlwaysListening, Types, QueueTypes, CountTypes
  <2>. QED
    BY <2>1, <2>2
<1>4. 0 \in 0..created
  BY <1>1 DEF Types, CountTypes
<1>5. Types'
  BY <1>1, <1>2, <1>3, <1>4 DEF Types, QueueTypes, CountTypes
<1>. QED
  BY <1>2, <1>3, <1>5 DEF IInv

LEMMA StopInv ==
    ASSUME IInv, Stop
    PROVE  IInv'
<1>1. /\ Types /\ SessionInv
      /\ androidAutoEntity' = 0 /\ entityCalls' = Stopped(Current)
      /\ isStopped' = TRUE /\ UNCHANGED <<accepts, created>>
      /\ UNCHANGED <<clients, hotplugPromise, registered, devices, sessionVars>>
      /\ calls' \in Seq(AppCalls)
  BY RunsOne DEF IInv, Stop
<1>2. SessionTypes' /\ SessionInv'
  BY <1>1, ForgetsNone
<1>3. hubCalls' \in Seq(HubCalls)
  BY <1>1, CallsHub DEF Stop, Call, HubCalls
<1>4. 0 \in 0..created
  BY <1>1 DEF Types, CountTypes
<1>5. Types'
  BY <1>1, <1>2, <1>3, <1>4 DEF Types, QueueTypes, CountTypes
<1>6. ListenInv'
  BY <1>1 DEF IInv, ListenInv, HubOrder, AlwaysListening
<1>. QED
  BY <1>2, <1>5, <1>6 DEF IInv

-----------------------------------------------------------------------------
\* A client, or an error of the acceptor.
LEMMA HandleNewClientInv ==
    ASSUME IInv, HandleNewClient
    PROVE  IInv'
<1>1. /\ Types /\ SessionInv
      /\ UNCHANGED <<androidAutoEntity, isStopped, created, entityCalls, sessionVars>>
      /\ UNCHANGED <<hubCalls, hotplugPromise, registered, devices>>
  BY DEF IInv, HandleNewClient, hubVars
<1>2. accepts' \in Nat /\ clients' \in 0..MaxClients
  BY <1>1, AppAssumption DEF HandleNewClient, Types, CountTypes
<1>3. calls' \in Seq(AppCalls) /\ \A b : Has(calls, b) => Has(calls', b)
  <2>1. "start" \in AppCalls
    BY DEF AppCalls
  <2>. QED
    BY <1>1, <2>1, PostsOne DEF HandleNewClient, Types, QueueTypes
<1>4. SessionTypes' /\ SessionInv'
  BY <1>1, SessionsKept
<1>5. Types'
  BY <1>1, <1>2, <1>3, <1>4 DEF Types, QueueTypes, CountTypes
<1>6. ListenInv'
  BY <1>1, <1>3 DEF IInv, ListenInv, HubOrder, AlwaysListening
<1>. QED
  BY <1>4, <1>5, <1>6 DEF IInv

\* A step that only posts a call to the App.
LEMMA PostInv ==
    ASSUME IInv, NEW call \in AppCalls, calls' = Append(calls, call), SessionTypes', SessionInv',
           UNCHANGED <<androidAutoEntity, isStopped, created, accepts, clients, hubVars>>
    PROVE  IInv'
<1>1. calls' \in Seq(AppCalls) /\ \A b : Has(calls, b) => Has(calls', b)
  BY PostsOne DEF IInv
<1>2. Types'
  BY <1>1 DEF IInv, Types, QueueTypes, CountTypes, hubVars
<1>3. ListenInv'
  BY <1>1 DEF IInv, ListenInv, HubOrder, AlwaysListening, hubVars
<1>. QED
  BY <1>2, <1>3 DEF IInv

LEMMA SignalInv ==
    ASSUME IInv, Signal
    PROVE  IInv'
<1>1. SessionTypes' /\ SessionInv'
  BY SessionsKept DEF IInv, Signal, appVars
<1>2. "stop" \in AppCalls
  BY DEF AppCalls
<1>. QED
  BY <1>1, <1>2, PostInv DEF Signal, appVars

-----------------------------------------------------------------------------
\* A call of the hub is run: what the hub does then keeps its order, and if it
\* drops the promise of the App then the device is on its way.
LEMMA HubRuns ==
    ASSUME IInv, NEW call, Hub!Runs(call), call \in HubCalls
    PROVE  /\ hubCalls' \in Seq(HubCalls)
           /\ \A b : Has(hubCalls, b) <=> Has(hubCalls', b) \/ b = call
<1>1. hubCalls \in Seq(HubCalls) /\ hubCalls # <<>> /\ hubCalls' = Tail(hubCalls) /\ Head(hubCalls) = call
  BY DEF IInv, Types, QueueTypes, Hub!Runs
<1>2. Tail(hubCalls) \in Seq(HubCalls)
  BY <1>1
<1>. QED
  BY <1>1, <1>2, HasTail

\* Rejecting the promise only posts onUSBHubError.
LEMMA HubRejects ==
    ASSUME Types, Hub!RejectPromise
    PROVE  calls' \in Seq(AppCalls) /\ \A b : Has(calls, b) => Has(calls', b)
<1>1. "hubError" \in AppCalls
  BY DEF AppCalls
<1>. QED
  BY <1>1, PostsOne DEF Hub!RejectPromise, Types, QueueTypes

LEMMA HubStepInv ==
    ASSUME IInv, HubStep
    PROVE  IInv'
<1>1. /\ Types /\ SessionInv
      /\ UNCHANGED <<androidAutoEntity, isStopped, accepts, created, entityCalls>>
      /\ UNCHANGED <<clients, sessionVars>>
  BY DEF IInv, HubStep, appVars
<1>2. SessionTypes' /\ SessionInv'
  BY <1>1, SessionsKept
<1>3. ASSUME calls' \in Seq(AppCalls), hubCalls' \in Seq(HubCalls),
             hotplugPromise' \in {"null", "set"}, registered' \in BOOLEAN,
             devices' \in 0..MaxDevices, ListenInv'
      PROVE  IInv'
  BY <1>1, <1>2, <1>3 DEF IInv, Types, QueueTypes, CountTypes
<1>4. /\ calls \in Seq(AppCalls) /\ hubCalls \in Seq(HubCalls)
      /\ hotplugPromise \in {"null", "set"} /\ registered \in BOOLEAN
      /\ devices \in 0..MaxDevices
  BY <1>1 DEF Types, QueueTypes, CountTypes
<1>5. CASE Hub!Start
  <2>1. calls' \in Seq(AppCalls)
    BY <1>1, <1>5, HubRejects DEF Hub!Start
  <2>2. /\ hubCalls' \in Seq(HubCalls)
        /\ \A b : Has(hubCalls, b) <=> Has(hubCalls', b) \/ b = "start"
    BY <1>5, HubRuns DEF Hub!Start, HubCalls
  <2>3. hotplugPromise' = "set" /\ registered' = TRUE /\ devices' = devices
    BY <1>5 DEF Hub!Start
  <2>4. ListenInv'
    BY <1>1, <2>2, <2>3 DEF IInv, ListenInv, HubOrder, AlwaysListening
  <2>. QED
    BY <1>3, <1>4, <2>1, <2>2, <2>3, <2>4
<1>6. CASE Hub!Cancel
  <2>1. calls' \in Seq(AppCalls)
    BY <1>1, <1>6, HubRejects DEF Hub!Cancel
  <2>2. /\ hubCalls' \in Seq(HubCalls)
        /\ \A b : Has(hubCalls, b) <=> Has(hubCalls', b) \/ b = "cancel"
    BY <1>6, HubRuns DEF Hub!Cancel, HubCalls
  <2>3. hotplugPromise' = "null" /\ registered' = FALSE /\ devices' = devices
    BY <1>6 DEF Hub!Cancel
  <2>4. ListenInv'
    BY <1>1, <2>2, <2>3 DEF IInv, ListenInv, HubOrder, AlwaysListening
  <2>. QED
    BY <1>3, <1>4, <2>1, <2>2, <2>3, <2>4
<1>7. CASE Hub!HandleDevice
  <2>1. /\ hubCalls' \in Seq(HubCalls)
        /\ \A b : Has(hubCalls, b) <=> Has(hubCalls', b) \/ b = "handleDevice"
    BY <1>7, HubRuns DEF Hub!HandleDevice, HubCalls
  <2>2. registered' = registered /\ devices' = devices
    BY <1>7 DEF Hub!HandleDevice
  <2>3. CASE UNCHANGED <<hotplugPromise, calls>>
    <3>1. ListenInv'
      BY <1>1, <2>1, <2>2, <2>3 DEF IInv, ListenInv, HubOrder, AlwaysListening
    <3>. QED
      BY <1>3, <1>4, <2>1, <2>2, <2>3, <3>1
  <2>4. CASE hotplugPromise' = "null" /\ calls' = Append(calls, "device")
    <3>1. "device" \in AppCalls
      BY DEF AppCalls
    <3>2. calls' \in Seq(AppCalls) /\ Has(calls', "device")
      BY <1>1, <2>4, <3>1, PostsOne
    <3>3. ListenInv'
      BY <1>1, <2>1, <2>4, <3>2 DEF IInv, ListenInv, HubOrder, AlwaysListening
    <3>. QED
      BY <1>3, <1>4, <2>1, <2>2, <2>4, <3>2, <3>3
  <2>. QED
    BY <1>7, <2>3, <2>4 DEF Hub!HandleDevice
<1>8. CASE Hub!HotplugEvent
  <2>1. /\ hubCalls' \in Seq(HubCalls)
        /\ \A b : Has(hubCalls', b) <=> Has(hubCalls, b) \/ b = "handleDevice"
    BY <1>1, <1>8, CallsHub DEF Hub!HotplugEvent, HubCalls
  <2>2. devices' \in 0..MaxDevices /\ UNCHANGED <<hotplugPromise, registered, calls>>
    BY <1>4, <1>8, AppAssumption DEF Hub!HotplugEvent
  <2>3. ListenInv'
    BY <1>1, <2>1, <2>2 DEF IInv, ListenInv, HubOrder, AlwaysListening
  <2>. QED
    BY <1>3, <1>4, <2>1, <2>2, <2>3
<1>. QED
  BY <1>5, <1>6, <1>7, <1>8 DEF HubStep, Hub!Next, Hub!HandlerStep

-----------------------------------------------------------------------------
\* A step of a session leaves App, hub and their queues alone.
LEMMA EntityStepKeeps ==
    ASSUME IInv, SessionTypes', SessionInv',
           UNCHANGED <<calls, androidAutoEntity, isStopped, accepts, created, clients, hubVars>>
    PROVE  IInv'
BY DEF IInv, Types, QueueTypes, CountTypes, ListenInv, HubOrder, AlwaysListening, hubVars

\* A session takes its first call: it had been told to start once, so that what
\* is left holds no start.
LEMMA EntityRunsInv ==
    ASSUME IInv, NEW s \in Sessions, NEW call \in EntityCalls, EntityRuns(s, call),
           NEW state \in {"set", "null"}, call = "stop" => state = "null",
           eventHandler' = [eventHandler EXCEPT ![s] = state]
    PROVE  IInv'
<1>. DEFINE queue == entityCalls[s]
<1>1. /\ queue \in Seq(EntityCalls) /\ queue # <<>> /\ Head(queue) = call
      /\ entityCalls' = [entityCalls EXCEPT ![s] = Tail(queue)]
      /\ Types /\ SessionInv
      /\ failed' = failed /\ quits' = quits
      /\ androidAutoEntity' = androidAutoEntity /\ created' = created
      /\ \A i \in DOMAIN queue : queue[i] = "start" => i = 1 /\ eventHandler[s] = "unset"
      /\ ~ s > created
  BY DEF IInv, EntityRuns, Types, SessionTypes, SessionInv, StartsFirst
<1>. HIDE DEF queue
<1>2. /\ Tail(queue) \in Seq(EntityCalls)
      /\ \A b : Has(queue, b) <=> Has(Tail(queue), b) \/ b = call
      /\ \A i \in DOMAIN Tail(queue) : Tail(queue)[i] # "start"
  <2>1. Tail(queue) \in Seq(EntityCalls)
    BY <1>1
  <2>2. \A b : Has(queue, b) <=> Has(Tail(queue), b) \/ b = call
    BY <1>1, HasTail
  <2>. QED
    BY <1>1, <2>1, <2>2, TailHasNoStart
<1>3. SessionTypes'
  BY <1>1, <1>2 DEF Types, SessionTypes
<1>4. /\ entityCalls'[s] = Tail(queue) /\ eventHandler'[s] = state
      /\ \A t \in Sessions : t # s => entityCalls'[t] = entityCalls[t] /\ eventHandler'[t] = eventHandler[t]
  BY <1>1 DEF Types, SessionTypes
<1>5. StartsFirst'
  <2>. SUFFICES ASSUME NEW t \in Sessions
                PROVE  /\ t > created => entityCalls'[t] = <<>> /\ eventHandler'[t] = "unset"
                       /\ \A i \in DOMAIN entityCalls'[t] :
                             entityCalls'[t][i] = "start" => i = 1 /\ eventHandler'[t] = "unset"
    BY <1>1 DEF StartsFirst
  <2>1. CASE t = s
    BY <1>1, <1>2, <1>4, <2>1
  <2>2. CASE t # s
    BY <1>1, <1>4, <2>2 DEF SessionInv, StartsFirst
  <2>. QED
    BY <2>1, <2>2
<1>6. NoOrphanSession'
  <2>. SUFFICES ASSUME NEW t \in 1..created
                PROVE  t = androidAutoEntity \/ Has(entityCalls'[t], "stop") \/ eventHandler'[t] = "null"
    BY <1>1 DEF NoOrphanSession
  <2>1. t \in Sessions
    BY <1>1, AppAssumption DEF Sessions, Types, CountTypes
  <2>2. CASE t # s
    BY <1>1, <1>4, <2>1, <2>2 DEF SessionInv, NoOrphanSession
  <2>3. CASE t = s /\ call = "stop"
    BY <1>4, <2>3
  <2>4. CASE t = s /\ call = "start"
    <3>1. queue[1] = "start" /\ 1 \in DOMAIN queue
      BY <1>1, <2>4
    <3>2. eventHandler[s] # "null"
      BY <1>1, <3>1
    <3>3. t = androidAutoEntity \/ Has(queue, "stop")
      BY <1>1, <2>4, <3>2 DEF SessionInv, NoOrphanSession, queue
    <3>. QED
      BY <1>2, <1>4, <2>4, <3>3
  <2>. QED
    BY <2>2, <2>3, <2>4 DEF EntityCalls
<1>. QED
  BY <1>3, <1>5, <1>6, EntityStepKeeps DEF EntityRuns, SessionInv, hubVars

LEMMA SessionFailsInv ==
    ASSUME IInv, NEW s \in Sessions, SessionFails(s)
    PROVE  IInv'
<1>1. SessionTypes'
  BY DEF IInv, Types, SessionTypes, SessionFails, appVars
<1>2. SessionInv'
  BY DEF IInv, SessionInv, StartsFirst, NoOrphanSession, SessionFails, appVars
<1>. QED
  BY <1>1, <1>2, EntityStepKeeps DEF SessionFails, appVars

LEMMA TriggerQuitInv ==
    ASSUME IInv, NEW s \in Sessions, TriggerQuit(s)
    PROVE  IInv'
<1>1. quits[s] + 1 \in 0..MaxQuits
  BY AppAssumption DEF IInv, Types, SessionTypes, TriggerQuit
<1>2. SessionTypes'
  BY <1>1 DEF IInv, Types, SessionTypes, TriggerQuit, appVars
<1>3. SessionInv'
  BY DEF IInv, SessionInv, StartsFirst, NoOrphanSession, TriggerQuit, appVars
<1>4. "quit" \in AppCalls
  BY DEF AppCalls
<1>. QED
  BY <1>2, <1>3, <1>4, PostInv DEF TriggerQuit, appVars

LEMMA NextInv == IInv /\ [Next]_vars => IInv'
<1>. SUFFICES ASSUME IInv, [Next]_vars PROVE IInv'
  OBVIOUS
<1>1. CASE AppStep
  BY <1>1, WaitForUSBDeviceInv, StartInv, AoapDeviceHandlerInv, OnUSBHubErrorInv,
     OnAndroidAutoQuitInv, StopInv DEF AppStep
<1>2. CASE HandleNewClient \/ Signal \/ HubStep
  BY <1>2, HandleNewClientInv, SignalInv, HubStepInv
<1>3. ASSUME NEW s \in Sessions, EntityStart(s) PROVE IInv'
  BY <1>3, EntityRunsInv DEF EntityStart, EntityCalls
<1>4. ASSUME NEW s \in Sessions, EntityStop(s) PROVE IInv'
  BY <1>4, EntityRunsInv DEF EntityStop, EntityCalls
<1>5. ASSUME NEW s \in Sessions, SessionFails(s) \/ TriggerQuit(s) PROVE IInv'
  BY <1>5, SessionFailsInv, TriggerQuitInv
<1>6. CASE UNCHANGED vars
  <2>1. SessionTypes' /\ SessionInv'
    BY <1>6, SessionsKept DEF IInv, vars, appVars, sessionVars
  <2>. QED
    BY <1>6, <2>1, EntityStepKeeps DEF vars, appVars, hubVars
<1>. QED
  BY <1>1, <1>2, <1>3, <1>4, <1>5, <1>6 DEF Next

\* The invariant of the App, its hub and its sessions.
THEOREM Invariance == Spec => []IInv
BY InitInv, NextInv, PTL DEF Spec

(***************************************************************************)
(* For any number of sessions, devices, clients and quits: a session that  *)
(* is not the current one has been told to stop (App.cpp:56-90, 92-120,    *)
(* 122-149, 210-237).                                                      *)
(***************************************************************************)
THEOREM SessionsAreEnded == Spec => []NoOrphanSession
<1>1. IInv => NoOrphanSession
  BY DEF IInv, SessionInv
<1>. QED
  BY <1>1, Invariance, PTL

(***************************************************************************)
(* And while none runs the program listens, or is about to                 *)
(* (App.cpp:56-90, 122-171, 210-237, USBHub.cpp:33-71).                    *)
(***************************************************************************)
THEOREM ProgramListens == Spec => []AlwaysListening
<1>1. IInv => AlwaysListening
  BY DEF IInv, ListenInv
<1>. QED
  BY <1>1, Invariance, PTL

\* App, hub and sessions keep the types of their members.
THEOREM TypeCorrect == Spec => []TypeOK
<1>1. IInv => TypeOK
  BY DEF IInv, Types, QueueTypes, CountTypes, SessionTypes, TypeOK, EntityCalls
<1>. QED
  BY <1>1, Invariance, PTL
=============================================================================
