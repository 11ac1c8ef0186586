---------------------------------- MODULE App ----------------------------------
(***************************************************************************)
(* The sessions of the program: App.cpp with the USB hub, the acceptor for *)
(* phones over TCP, and the part of AndroidAutoEntity that it sees: start, *)
(* stop, and the call of onAndroidAutoQuit.                                *)
(*                                                                         *)
(* Every member of App runs on its strand_, where calls from main, the     *)
(* acceptor, the hub and the sessions queue up.  A session has a strand of *)
(* its own, and one that was told to stop may still call onAndroidAutoQuit *)
(* until its stop has run.                                                 *)
(***************************************************************************)
EXTENDS Naturals, Sequences

CONSTANTS
    MaxSessions,  \* bound: sessions created
    MaxDevices,   \* bound: hotplug events
    MaxClients,   \* bound: clients and errors of the acceptor
    MaxQuits      \* bound: calls of onAndroidAutoQuit by one session

ASSUME AppAssumption ==
    /\ MaxSessions \in Nat
    /\ MaxDevices \in Nat
    /\ MaxClients \in Nat
    /\ MaxQuits \in Nat \ {0}

VARIABLES
    calls,            \* calls on strand_, oldest first
    androidAutoEntity,\* androidAutoEntity_: the number of a session, or 0
    isStopped,        \* isStopped_
    accepts,          \* accepts outstanding on acceptor_
    clients,          \* accepts that ended so far
    hubCalls, hotplugPromise, registered, devices,
    created,          \* sessions created so far
    entityCalls,      \* start and stop, dispatched on the strand of a session
    eventHandler,     \* eventHandler_ of a session: "unset", "set", "null"
    failed,           \* the session is over: a failure, or the phone's ByeBye
    quits             \* its calls of onAndroidAutoQuit

Hub == INSTANCE USBHub

appVars == <<androidAutoEntity, isStopped, accepts, created, entityCalls>>
hubVars == <<hubCalls, hotplugPromise, registered, devices>>
sessionVars == <<eventHandler, failed, quits>>
vars == <<calls, appVars, clients, hubVars, sessionVars>>

Sessions == 1..MaxSessions

-----------------------------------------------------------------------------
Runs(call) ==
    /\ calls # <<>>
    /\ Head(calls) = call
    /\ calls' = Tail(calls)
    /\ UNCHANGED <<clients, hotplugPromise, registered, devices, sessionVars>>

Call(call) == hubCalls' = Append(hubCalls, call)
Keep == UNCHANGED <<hubCalls, accepts>>

\* waitForDevice: the hub is asked for a device, and another accept started.
WaitForDevice == Call("start") /\ accepts' = accepts + 1

\* androidAutoEntity_->stop(), for those of which it is called.
Stopped(which) == [s \in Sessions |-> IF s \in which THEN Append(entityCalls[s], "stop")
                                      ELSE entityCalls[s]]
Current == Sessions \cap {androidAutoEntity}

Created(stopped) ==
    /\ created < MaxSessions
    /\ created' = created + 1
    /\ androidAutoEntity' = created'
    /\ entityCalls' = [Stopped(stopped) EXCEPT ![created'] = <<"start">>]
    /\ Keep

NotCreated(stopped) ==
    /\ androidAutoEntity' = 0
    /\ entityCalls' = Stopped(stopped)
    /\ WaitForDevice
    /\ UNCHANGED created

WaitForUSBDevice ==
    /\ Runs("waitForUSBDevice")
    /\ WaitForDevice
    /\ UNCHANGED <<androidAutoEntity, isStopped, created, entityCalls>>

\* Mutant: the session that runs is forgotten, not stopped.
StartForgets ==
    /\ Runs("start")
    /\ Created({}) \/ NotCreated({})
    /\ UNCHANGED isStopped

\* Mutant: androidAutoEntity_ is stopped after it was assigned.
StartStopsNew ==
    /\ Runs("start")
    /\ \/ /\ created < MaxSessions
          /\ created' = created + 1
          /\ androidAutoEntity' = created'
          /\ entityCalls' = [entityCalls EXCEPT ![created'] = <<"start", "stop">>]
          /\ Keep
       \/ NotCreated(Current)
    /\ UNCHANGED isStopped

\* A client over TCP: it replaces the session that runs.
Start ==
    /\ Runs("start")
    /\ Created(Current) \/ NotCreated(Current)
    /\ UNCHANGED isStopped

\* Mutant: after a failure nobody listens.
DeviceHandlerGivesUp ==
    /\ Runs("device")
    /\ \/ androidAutoEntity # 0 /\ Keep /\ UNCHANGED <<androidAutoEntity, created, entityCalls>>
       \/ androidAutoEntity = 0 /\ Created({})
       \/ androidAutoEntity = 0 /\ Keep /\ UNCHANGED <<androidAutoEntity, created, entityCalls>>
    /\ UNCHANGED isStopped

\* A device: it is left alone while a session runs.
AoapDeviceHandler ==
    /\ Runs("device")
    /\ \/ androidAutoEntity # 0 /\ Keep /\ UNCHANGED <<androidAutoEntity, created, entityCalls>>
       \/ androidAutoEntity = 0 /\ (Created({}) \/ NotCreated({}))
    /\ UNCHANGED isStopped

OnUSBHubError ==
    /\ Runs("hubError")
    /\ UNCHANGED <<appVars, hubCalls>>

OnAndroidAutoQuit ==
    /\ Runs("quit")
    /\ androidAutoEntity' = 0
    /\ entityCalls' = Stopped(Current)
    /\ IF isStopped THEN Keep ELSE WaitForDevice
    /\ UNCHANGED <<isStopped, created>>

Stop ==
    /\ Runs("stop")
    /\ isStopped' = TRUE
    /\ Call("cancel")
    /\ androidAutoEntity' = 0
    /\ entityCalls' = Stopped(Current)
    /\ UNCHANGED <<accepts, created>>

AppStep == \/ WaitForUSBDevice \/ Start \/ AoapDeviceHandler
           \/ OnUSBHubError \/ OnAndroidAutoQuit \/ Stop

-----------------------------------------------------------------------------
\* The acceptor: handleNewClient takes a client, or ignores an error.
HandleNewClient ==
    /\ accepts > 0
    /\ clients < MaxClients
    /\ accepts' = accepts - 1
    /\ clients' = clients + 1
    /\ calls' = Append(calls, "start") \/ calls' = calls
    /\ UNCHANGED <<androidAutoEntity, isStopped, created, entityCalls, hubVars,
                   sessionVars>>

\* The signal handler of main calls stop, once.  It stops the io_service next,
\* which may let the threads run some of what is posted, or nothing.
Signal ==
    /\ ~isStopped
    /\ \A i \in DOMAIN calls : calls[i] # "stop"
    /\ calls' = Append(calls, "stop")
    /\ UNCHANGED <<appVars, clients, hubVars, sessionVars>>

HubStep == Hub!Next /\ UNCHANGED <<appVars, clients, sessionVars>>

\* A session, on its strand.
EntityRuns(s, call) ==
    /\ entityCalls[s] # <<>>
    /\ Head(entityCalls[s]) = call
    /\ entityCalls' = [entityCalls EXCEPT ![s] = Tail(@)]
    /\ UNCHANGED <<calls, androidAutoEntity, isStopped, accepts, created, clients,
                   hubVars, failed, quits>>

EntityStart(s) ==
    EntityRuns(s, "start") /\ eventHandler' = [eventHandler EXCEPT ![s] = "set"]

EntityStop(s) ==
    EntityRuns(s, "stop") /\ eventHandler' = [eventHandler EXCEPT ![s] = "null"]

SessionFails(s) ==
    /\ eventHandler[s] = "set"
    /\ failed' = [failed EXCEPT ![s] = TRUE]
    /\ UNCHANGED <<calls, appVars, clients, hubVars, eventHandler, quits>>

\* A handler of the session finds it over: AndroidAutoEntity!OnQuit.
TriggerQuit(s) ==
    /\ eventHandler[s] = "set"
    /\ failed[s]
    /\ quits[s] < MaxQuits
    /\ quits' = [quits EXCEPT ![s] = @ + 1]
    /\ calls' = Append(calls, "quit")
    /\ UNCHANGED <<appVars, clients, hubVars, eventHandler, failed>>

-----------------------------------------------------------------------------
Init ==
    /\ Hub!Init
    /\ calls = <<"waitForUSBDevice">>
    /\ androidAutoEntity = 0
    /\ isStopped = FALSE
    /\ accepts = 0 /\ clients = 0
    /\ created = 0
    /\ entityCalls = [s \in Sessions |-> <<>>]
    /\ eventHandler = [s \in Sessions |-> "unset"]
    /\ failed = [s \in Sessions |-> FALSE]
    /\ quits = [s \in Sessions |-> 0]

Next ==
    \/ AppStep \/ HandleNewClient \/ Signal \/ HubStep
    \/ \E s \in Sessions : \/ EntityStart(s) \/ EntityStop(s)
                           \/ SessionFails(s) \/ TriggerQuit(s)

Spec == Init /\ [][Next]_vars

\* Until the signal the threads run what is posted, and a session that is over says so
\* (AndroidAutoEntity!EventuallyQuits).
Fairness ==
    /\ WF_vars(AppStep)
    /\ WF_vars(Hub!HandlerStep /\ UNCHANGED <<appVars, clients, sessionVars>>)
    /\ \A s \in Sessions : /\ WF_vars(EntityStart(s) \/ EntityStop(s))
                           /\ WF_vars(quits[s] = 0 /\ TriggerQuit(s))

FairSpec == Spec /\ Fairness

-----------------------------------------------------------------------------
HubCalls == {"start", "cancel", "handleDevice"}
AppCalls == {"waitForUSBDevice", "start", "device", "hubError", "quit", "stop"}

\* Type invariant of the members of App and USBHub.
TypeOK ==
    /\ calls \in Seq(AppCalls)
    /\ androidAutoEntity \in 0..created
    /\ isStopped \in BOOLEAN
    /\ accepts \in Nat
    /\ clients \in 0..MaxClients
    /\ hubCalls \in Seq(HubCalls)
    /\ hotplugPromise \in {"null", "set"}
    /\ registered \in BOOLEAN
    /\ devices \in 0..MaxDevices
    /\ created \in 0..MaxSessions
    /\ entityCalls \in [Sessions -> Seq({"start", "stop"})]
    /\ eventHandler \in [Sessions -> {"unset", "set", "null"}]
    /\ failed \in [Sessions -> BOOLEAN]
    /\ quits \in [Sessions -> 0..MaxQuits]

Has(queue, call) == \E i \in DOMAIN queue : queue[i] = call

(***************************************************************************)
(* A session that is not the current one has been told to stop: clients    *)
(* that replace it, quits of other sessions and failures to create one     *)
(* leave no session running that nobody would ever end, with its transport *)
(* and its handlers (App.cpp:56-90, 92-120, 122-149, 210-237).             *)
(***************************************************************************)
NoOrphanSession ==
    \A s \in 1..created :
        s = androidAutoEntity \/ Has(entityCalls[s], "stop") \/ eventHandler[s] = "null"

(***************************************************************************)
(* While no session runs the program listens: the hub holds a promise and  *)
(* is registered for hotplug events, or the call that brings this about,   *)
(* or starts a session, is under way (App.cpp:56-90, 122-171, 210-237,     *)
(* USBHub.cpp:33-71).                                                      *)
(***************************************************************************)
AlwaysListening ==
    androidAutoEntity = 0 /\ ~isStopped =>
        \/ hotplugPromise = "set" /\ registered
        \/ Has(hubCalls, "start")
        \/ \E call \in {"waitForUSBDevice", "device"} : Has(calls, call)

Ending == isStopped \/ Has(calls, "stop")

\* Liveness: a session that is over does not stay the current one: the quit is
\* not lost between its handler, the queue of the App and a stop that races it
\* (AndroidAutoEntity.cpp:293-303, App.cpp:210-237).
EventuallyEnded ==
    \A s \in Sessions : failed[s] ~> androidAutoEntity # s \/ Ending

\* Liveness: without a session the hub is given a promise, whatever was rejected
\* on the way (App.cpp:163-171, USBHub.cpp:33-54).
EventuallyListens ==
    androidAutoEntity = 0 ~> hotplugPromise = "set" \/ androidAutoEntity # 0 \/ Ending
=============================================================================
