--------------------------- MODULE AccessoryDiscovery ---------------------------
(***************************************************************************)
(* How connected phones are switched to accessory mode: the hub starts a   *)
(* query chain for every device that is plugged in (USB/USBHub.cpp), the   *)
(* enumerator runs one for each device that was there already, until one   *)
(* succeeds (USB/ConnectedAccessoriesEnumerator.cpp).  App cancels both.   *)
(* Each has a strand; the outcome of a chain is posted to its owner.       *)
(*                                                                         *)
(* The two share the cancels of the App and nothing else.  The bound Apart *)
(* explores the chains of one without those of the other.                  *)
(***************************************************************************)
EXTENDS AccessoryModeQueryChain, FiniteSets

CONSTANTS
    MaxEnumerates,   \* bound: calls of enumerate
    MaxListed,       \* bound: devices in the list of libusb
    MaxPlugged,      \* bound: devices plugged in
    MaxCancels,      \* bound: cancels of the App
    Apart            \* bound: hub and enumerator not in one behaviour

ASSUME SlotsAssumption == "enumerator" \in Slots
ASSUME BoundsAssumption ==
    /\ MaxEnumerates \in Nat
    /\ MaxListed \in Nat
    /\ MaxPlugged \in Nat
    /\ MaxCancels \in Nat

VARIABLES
    calls,          \* calls dispatched on the enumerator's strand
    promise,        \* promise_: "null", "set", or "settled" and not reset
    devices,        \* devices from actualDeviceIter_ to the end of the list
    results,        \* outcomes of enumerate, oldest first
    asked,          \* calls of enumerate so far
    plugged,        \* hotplug events so far
    queued,         \* queryChainQueue_ of the hub: its chains
    cancels

HubSlots == Slots \ {"enumerator"}

enumeratorVars == <<calls, promise, devices, results>>
vars == <<chain, enumeratorVars, asked, plugged, queued, cancels>>

\* cancel of the chains in S, dispatched on their strands.
CancelChains(S) ==
    chain' = [s \in Slots |->
        IF s \in S THEN [chain[s] EXCEPT !.calls = Append(@, "cancel")] ELSE chain[s]]

-----------------------------------------------------------------------------
\* The promise is settled and reset() forgets the list and the chain.
Finish(result) ==
    /\ promise' = "null"
    /\ devices' = 0
    /\ results' = Append(results, result)

\* Mutant: a failed open ends the search.
QueryNextDeviceGivesUp(n) ==
    \/ /\ n > 0
       /\ chain' = [chain EXCEPT !["enumerator"] = Started]
       /\ promise' = "set"
       /\ devices' = n - 1
       /\ UNCHANGED results
    \/ /\ promise' = "set"
       /\ devices' = n
       /\ UNCHANGED <<chain, results>>

\* queryNextDevice with n devices left: devices that do not open are skipped,
\* the first that does gets a chain; without one the answer is false.
QueryNextDevice(n) ==
    \/ \E left \in 0..n :
         /\ left < n
         /\ chain' = [chain EXCEPT !["enumerator"] = Started]
         /\ promise' = "set"
         /\ devices' = left
         /\ UNCHANGED results
    \/ Finish("false") /\ UNCHANGED chain

\* The list cannot be had, or is empty: the promise is settled and not reset.
Enumerate ==
    \/ /\ promise # "null"
       /\ results' = Append(results, "inProgress")
       /\ UNCHANGED <<chain, promise, devices>>
    \/ /\ promise = "null"
       /\ \/ \E n \in 1..MaxListed : QueryNextDevice(n)
          \/ /\ promise' = "settled"
             /\ \E result \in {"error", "false"} : results' = Append(results, result)
             /\ UNCHANGED <<chain, devices>>

\* The outcome of the chain: success ends the enumeration, and so does an
\* abort; after any other failure the next device is tried.
ChainOutcome(outcome) ==
    CASE outcome = "ok" -> Finish("true") /\ UNCHANGED chain
      [] outcome = "aborted" -> Finish("aborted") /\ UNCHANGED chain
      [] OTHER -> QueryNextDevice(devices)

\* queryChain_ is set from the first chain to the reset.
CancelEnumerator ==
    /\ CancelChains(IF promise = "set" THEN {"enumerator"} ELSE {})
    /\ UNCHANGED <<promise, devices, results>>

EnumeratorCall ==
    /\ calls # <<>>
    /\ calls' = Tail(calls)
    /\ CASE Head(calls) = "enumerate" -> Enumerate
         [] Head(calls) = "cancel" -> CancelEnumerator
         [] OTHER -> ChainOutcome(Head(calls))
    /\ UNCHANGED <<asked, plugged, queued, cancels>>

\* The enumerator's chain posts its outcome on the enumerator's strand.
EnumeratorChainReports ==
    LET outcome == chain["enumerator"].outcome
    IN  /\ outcome \in Outcomes
        /\ calls' = Append(calls, outcome)
        /\ chain' = [chain EXCEPT !["enumerator"] = NoChain]
        /\ UNCHANGED <<promise, devices, results, asked, plugged, queued, cancels>>

-----------------------------------------------------------------------------
\* hotplugEventsHandler and handleDevice for a device that is not in accessory
\* mode: it gets a chain at the end of the queue.
HandleDevice(s) ==
    /\ plugged < MaxPlugged
    /\ Apart => asked = 0
    /\ s \in HubSlots \ queued
    /\ plugged' = plugged + 1
    /\ queued' = queued \cup {s}
    /\ chain' = [chain EXCEPT ![s] = Started]
    /\ UNCHANGED <<enumeratorVars, asked, cancels>>

\* Whatever the outcome of a chain of the hub, it is erased from the queue.
HubChainReports(s) ==
    /\ s \in HubSlots
    /\ chain[s].outcome \in Outcomes
    /\ chain' = [chain EXCEPT ![s] = [NoChain EXCEPT !.fault = s \notin queued]]
    /\ queued' = queued \ {s}
    /\ UNCHANGED <<enumeratorVars, asked, plugged, cancels>>

-----------------------------------------------------------------------------
\* The App asks for the connected devices, and cancels (App::stop cancels the
\* enumerator and the hub, aoapDeviceHandler the enumerator alone).
AppEnumerates ==
    /\ asked < MaxEnumerates
    /\ Apart => plugged = 0
    /\ asked' = asked + 1
    /\ calls' = Append(calls, "enumerate")
    /\ UNCHANGED <<chain, promise, devices, results, plugged, queued, cancels>>

AppCancels ==
    /\ cancels < MaxCancels
    /\ cancels' = cancels + 1
    /\ calls' = Append(calls, "cancel")
    /\ CancelChains({}) \/ CancelChains(queued)
    /\ UNCHANGED <<promise, devices, results, asked, plugged, queued>>

Init ==
    /\ chain = [s \in Slots |-> NoChain]
    /\ calls = <<>>
    /\ promise = "null"
    /\ devices = 0
    /\ results = <<>>
    /\ asked = 0
    /\ plugged = 0
    /\ queued = {}
    /\ cancels = 0

ChainWorks ==
    /\ \E s \in Slots : ChainStep(s)
    /\ UNCHANGED <<enumeratorVars, asked, plugged, queued, cancels>>

OwnerWorks ==
    \/ EnumeratorCall
    \/ EnumeratorChainReports
    \/ \E s \in HubSlots : HubChainReports(s)

NoFault == \A s \in Slots : ~chain[s].fault

Next ==
    /\ NoFault    \* a process that faulted does not go on
    /\ \/ ChainWorks
       \/ OwnerWorks
       \/ \E s \in HubSlots : HandleDevice(s)
       \/ AppEnumerates
       \/ AppCancels

Spec == Init /\ [][Next]_vars

(***************************************************************************)
(* The io_service threads run what is posted, and libusb ends every        *)
(* transfer (libusb_handle_events in a thread of its own, and a timeout on *)
(* every control transfer).  Nothing is assumed about which strand is      *)
(* served first; plugging in and the App owe nothing.                      *)
(***************************************************************************)
FairSpec == Spec /\ WF_vars(NoFault /\ (ChainWorks \/ OwnerWorks))

-----------------------------------------------------------------------------
\* Every variable has its type.
TypeOK ==
    /\ chain \in [Slots -> Chains]
    /\ calls \in Seq({"enumerate", "cancel"} \cup Outcomes)
    /\ promise \in {"null", "set", "settled"}
    /\ devices \in 0..MaxListed
    /\ results \in Seq({"inProgress", "error", "false", "true", "aborted"})
    /\ asked \in 0..MaxEnumerates
    /\ plugged \in 0..MaxPlugged
    /\ queued \subseteq HubSlots
    /\ cancels \in 0..MaxCancels

\* The calls and transfers that drive a chain on, wherever they wait.
Drivers(t) == Cardinality({i \in DOMAIN t : t[i] # "cancel"})
Driving(c) ==
    Drivers(c.calls) + Drivers(c.queryCalls) + Drivers(c.endpointCalls)
      + (IF c.transfer \in {"submitted", "cancelled"} THEN 1 ELSE 0)

(***************************************************************************)
(* Until a chain has an outcome it keeps its promise and exactly one call  *)
(* or transfer drives it: whenever a cancel arrives, and whichever step    *)
(* fails, it neither stands still nor goes on twice, and no handler meets  *)
(* a null promise_ (AccessoryModeQueryChain.cpp:33-187,                    *)
(* USBEndpoint.cpp:81-147).                                                *)
(***************************************************************************)
OneStepAtATime ==
    \A s \in Slots :
        LET c == chain[s]
        IN  /\ Driving(c) = IF c.outcome = "none" THEN 1 ELSE 0
            /\ c.outcome = "none" /\ c.promise = "null"
                 => c.calls # <<>> /\ Head(c.calls) = "start"
            /\ ~c.fault

(***************************************************************************)
(* A phone is told to start accessory mode only by a chain whose every     *)
(* earlier query it carried out, each once and in order, however transfers *)
(* fail or are cancelled (AccessoryModeQueryChain.cpp:78-187).             *)
(***************************************************************************)
SwitchedInOrder ==
    \A s \in Slots :
        LET took == chain[s].took
        IN  Len(Queries) \in {took[i] : i \in 1..Len(took)}
              => took = [i \in 1..Len(Queries) |-> i]

(***************************************************************************)
(* Every enumerate is answered, and the hub loses every chain it queued,   *)
(* however chains fail, are cancelled or lose a cancel                     *)
(* (ConnectedAccessoriesEnumerator.cpp:31-107, USBHub.cpp:108-124).        *)
(***************************************************************************)
EventuallySettled == <>[](Len(results) = asked /\ queued = {})
=============================================================================
