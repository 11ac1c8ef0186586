------------------------------- MODULE MCChannels ------------------------------
(* One load per handler with two sessions, the microphone beside the video    *)
(* sink, and one load per service channel with the interceptor before it.     *)
EXTENDS ServiceChannel, TLC

\* Plain and encrypted requests where the object keeps which, to report with it.
Keep(c) == IF Parts(c) = {} THEN {"ENCRYPTED"} ELSE Encryptions

One(c, ids, messages, sessions, attached) ==
    [ids |-> c :> ids, encryptions |-> IF sessions = 2 THEN Keep(c) ELSE {"ENCRYPTED"},
     messages |-> messages, sessions |-> sessions, attached |-> attached]

\* With two sessions the microphone is never closed: see MicStopsWhenClosed.
MCLoads ==
    {One(c, DOMAIN Table[c] \ {"microphoneClose"}, 2, 2, FALSE) : c \in DOMAIN Table} \cup
    {One("MEDIA_SOURCE_MICROPHONE", DOMAIN MediaSource, 4, 1, FALSE)} \cup
    {[ids |-> [MEDIA_SINK_VIDEO |-> {"open", "start", "data"},
               MEDIA_SOURCE_MICROPHONE |-> {"open", "microphoneOpen"}],
      encryptions |-> {"ENCRYPTED"}, messages |-> 4, sessions |-> 1,
      attached |-> FALSE]} \cup
    {One(c, Named(c), 2, 1, TRUE) : c \in DOMAIN Services}
=============================================================================
