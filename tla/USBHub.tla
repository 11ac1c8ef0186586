-------------------------------- MODULE USBHub --------------------------------
(***************************************************************************)
(* USB/USBHub.cpp: gives one waiting promise the next Android device.      *)
(* start, cancel and handleDevice run on the hub's strand; hotplug events  *)
(* come on libusb's threads while the callback is registered, and for the  *)
(* devices connected already when it is.  The promise is deferred on the   *)
(* strand of the App, where its outcome is posted.                         *)
(*                                                                         *)
(* A device that is not yet in accessory mode is switched to it by a query *)
(* chain, which is outside: it comes back as another device.               *)
(***************************************************************************)
EXTENDS Naturals, Sequences

CONSTANT MaxDevices   \* bound: hotplug events

VARIABLES
    hubCalls,         \* calls dispatched on the hub's strand, oldest first
    hotplugPromise,   \* hotplugPromise_: "null" or "set"
    registered,       \* self_ and hotplugHandle_ are set
    devices,          \* hotplug events so far
    calls             \* calls posted on the strand of the App

Runs(call) ==
    /\ hubCalls # <<>>
    /\ Head(hubCalls) = call
    /\ hubCalls' = Tail(hubCalls)

\* hotplugPromise_->reject, if there is one: onUSBHubError is posted.
RejectPromise ==
    calls' = IF hotplugPromise = "set" THEN Append(calls, "hubError") ELSE calls

\* Mutant: the old promise is rejected and the new one dropped with it.
StartResetsLast ==
    /\ Runs("start")
    /\ RejectPromise
    /\ hotplugPromise' = IF hotplugPromise = "set" THEN "null" ELSE "set"
    /\ registered' = TRUE
    /\ UNCHANGED devices

Start ==
    /\ Runs("start")
    /\ RejectPromise
    /\ hotplugPromise' = "set"
    /\ registered' = TRUE
    /\ UNCHANGED devices

Cancel ==
    /\ Runs("cancel")
    /\ RejectPromise
    /\ hotplugPromise' = "null"
    /\ registered' = FALSE
    /\ UNCHANGED devices

HotplugEvent ==
    /\ registered
    /\ devices < MaxDevices
    /\ devices' = devices + 1
    /\ hubCalls' = Append(hubCalls, "handleDevice")
    /\ UNCHANGED <<hotplugPromise, registered, calls>>

\* The device is in accessory mode and resolves the promise, unless nobody
\* waits or it cannot be opened.
HandleDevice ==
    /\ Runs("handleDevice")
    /\ \/ /\ hotplugPromise = "set"
          /\ hotplugPromise' = "null"
          /\ calls' = Append(calls, "device")
       \/ UNCHANGED <<hotplugPromise, calls>>
    /\ UNCHANGED <<registered, devices>>

Init ==
    /\ hubCalls = <<>>
    /\ hotplugPromise = "null"
    /\ registered = FALSE
    /\ devices = 0

HandlerStep == Start \/ Cancel \/ HandleDevice
Next == HandlerStep \/ HotplugEvent
=============================================================================
