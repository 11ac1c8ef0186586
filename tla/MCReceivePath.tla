---------------------------- MODULE MCReceivePath ----------------------------
(***************************************************************************)
(* Instances of ReceivePath for TLC.  control and service receive, so that *)
(* they share the reader; the messages of media go to the interceptor.     *)
(***************************************************************************)
EXTENDS ReceivePath

CONSTANTS control, service, media

\* Split messages beside whole ones: media is split into up to three frames,
\* and control into up to two; service sends whole ones.
SharedMessages == [c \in Channels |-> IF c = media THEN 1 ELSE 2]
SharedFrames == [c \in Channels |-> IF c = media THEN 3 ELSE IF c = control THEN 2 ELSE 1]

\* Every channel sends two messages of up to n frames.
TwoMessages == [c \in Channels |-> 2]
TwoFrames == [c \in Channels |-> 2]
ThreeFrames == [c \in Channels |-> 3]
=============================================================================
