------------------------ MODULE AccessoryModeQueryChain ------------------------
(***************************************************************************)
(* USB/AccessoryModeQueryChain.cpp with the queries it starts and the      *)
(* endpoint they share: eight control transfers, one after the other, that *)
(* switch a phone to accessory mode.  The chain, its active query and the  *)
(* endpoint have a strand each; a call is dispatched on the strand of its  *)
(* receiver, and a promise posts its outcome on the strand it was deferred *)
(* on.  libusb completes a transfer on a thread of its own.                *)
(*                                                                         *)
(* chain[s] is the chain object in slot s.  A slot is used again when its  *)
(* chain has reported its outcome; what is then left on its strands finds  *)
(* no transfer and changes nothing.                                        *)
(***************************************************************************)
EXTENDS Naturals, Sequences

CONSTANT Slots

VARIABLE chain

Queries == <<"protocol", "manufacturer", "model", "description", "version",
             "uri", "serial", "start">>

Outcomes == {"ok", "error", "aborted"}

Chains == [promise : {"null", "set"},        \* promise_
           query : 0..Len(Queries),          \* the query last started
           active : BOOLEAN,                 \* activeQuery_ is set
           calls : Seq({"start", "cancel"} \cup Outcomes),
           queryPromise : {"null", "set"},   \* promise_ of that query
           queryCalls : Seq(Outcomes),
           endpointCalls : Seq({"transfer", "cancel"} \cup Outcomes),
           transfer : {"none", "submitted", "cancelled", "completed"},
           took : Seq(1..Len(Queries)),      \* queries the phone carried out
           outcome : {"none", "unused"} \cup Outcomes,
           fault : BOOLEAN]                  \* a null promise_ was used

NoChain == [promise |-> "null", query |-> 0, active |-> FALSE, calls |-> <<>>,
            queryPromise |-> "null", queryCalls |-> <<>>, endpointCalls |-> <<>>,
            transfer |-> "none", took |-> <<>>, outcome |-> "unused", fault |-> FALSE]

Started == [NoChain EXCEPT !.calls = <<"start">>, !.outcome = "none"]

\* startQuery: a query object of its own takes over as the active one.  It has
\* a new strand, where its start runs at once and asks the endpoint for a
\* control transfer; there may be no memory for one.
StartQuery(c, q) ==
    LET next == [c EXCEPT !.query = q, !.active = TRUE, !.queryPromise = "set"]
    IN  {[next EXCEPT !.endpointCalls = Append(@, "transfer")],
         [next EXCEPT !.queryCalls = Append(@, "error")]}

\* promise_ is settled and reset: its outcome is posted to the chain's owner.
Report(c, outcome) ==
    {[c EXCEPT !.outcome = outcome, !.promise = "null", !.fault = (c.promise = "null")]}

\* The start of the chain; nobody starts one twice, so promise_ is null.
Start(c) == StartQuery([c EXCEPT !.promise = "set"], 1)

\* Mutant: cancel gives up the promise with the query.
CancelResetsPromise(c) ==
    IF c.active
    THEN {[c EXCEPT !.active = FALSE, !.promise = "null",
                    !.endpointCalls = Append(@, "cancel")]}
    ELSE {c}

\* The query is cancelled by way of the endpoint and forgotten; its promise is
\* not touched, and the outcome of the cancelled transfer reports the abort.
Cancel(c) ==
    IF c.active
    THEN {[c EXCEPT !.active = FALSE, !.endpointCalls = Append(@, "cancel")]}
    ELSE {c}

\* Mutant: the handler of a failed string goes on like that of a sent one.
QueryHandlerIgnoresError(c, outcome) ==
    IF c.query < Len(Queries) /\ outcome # "aborted" THEN StartQuery(c, c.query + 1)
    ELSE Report([c EXCEPT !.active = @ /\ outcome # "ok"], outcome)

\* The handlers of the promise of the query last started: the next query, or
\* the end of the chain.  A failure leaves activeQuery_ as it is.
QueryHandler(c, outcome) ==
    IF outcome = "ok" /\ c.query < Len(Queries) THEN StartQuery(c, c.query + 1)
    ELSE Report([c EXCEPT !.active = @ /\ outcome # "ok"], outcome)

ChainCall(s) ==
    LET call == Head(chain[s].calls)
        c == [chain[s] EXCEPT !.calls = Tail(@)]
    IN  /\ chain[s].calls # <<>>
        /\ \E next \in CASE call = "start" -> Start(c)
                        [] call = "cancel" -> Cancel(c)
                        [] OTHER -> QueryHandler(c, call) :
             chain' = [chain EXCEPT ![s] = next]

-----------------------------------------------------------------------------
\* What a query makes of the outcome of its transfer.  A phone that answers
\* another version than 1 or 2 has failed.
AccessoryModeProtocolVersionQuery(outcome) ==
    {outcome} \cup IF outcome = "ok" THEN {"error"} ELSE {}
AccessoryModeSendStringQuery(outcome) == {outcome}
AccessoryModeStartQuery(outcome) == {outcome}

CreateQuery(q, outcome) ==
    CASE Queries[q] = "protocol" -> AccessoryModeProtocolVersionQuery(outcome)
      [] Queries[q] = "start" -> AccessoryModeStartQuery(outcome)
      [] OTHER -> AccessoryModeSendStringQuery(outcome)

\* The handlers of the active query settle its promise and reset it.
QueryEnds(s) ==
    LET c == chain[s]
    IN  /\ c.queryCalls # <<>>
        /\ \E result \in CreateQuery(c.query, Head(c.queryCalls)) :
             chain' = [chain EXCEPT ![s] =
                 [c EXCEPT !.queryCalls = Tail(@), !.queryPromise = "null",
                           !.fault = @ \/ c.queryPromise = "null",
                           !.calls = Append(@, result)]]

-----------------------------------------------------------------------------
\* The endpoint: transfer submits, cancelTransfers asks libusb to cancel what is
\* in the table, and transferHandler settles the promise of the transfer.
Transfer(s) ==
    LET c == [chain[s] EXCEPT !.endpointCalls = Tail(@)]
    IN  /\ chain[s].endpointCalls # <<>>
        /\ Head(chain[s].endpointCalls) = "transfer"
        /\ chain' \in
             {[chain EXCEPT ![s] = [c EXCEPT !.transfer = "submitted"]],
              [chain EXCEPT ![s] = [c EXCEPT !.queryCalls = Append(@, "error")]]}

CancelTransfers(s) ==
    /\ chain[s].endpointCalls # <<>>
    /\ Head(chain[s].endpointCalls) = "cancel"
    /\ chain' = [chain EXCEPT
         ![s].endpointCalls = Tail(@),
         ![s].transfer = IF @ = "submitted" THEN "cancelled" ELSE @]

TransferHandler(s) ==
    LET status == Head(chain[s].endpointCalls)
    IN  /\ chain[s].endpointCalls # <<>>
        /\ status \in Outcomes
        /\ chain' = [chain EXCEPT
             ![s].endpointCalls = Tail(@),
             ![s].transfer = "none",
             ![s].queryCalls =
                 IF chain[s].transfer = "none" THEN @ ELSE Append(@, status)]

\* libusb ends the transfer, at the latest after cTransferTimeoutMs.  The phone
\* has carried out a query that completed, and may have one that did not.
LibusbCompletes(s) ==
    LET c == chain[s]
    IN  /\ c.transfer \in {"submitted", "cancelled"}
        /\ \E status \in Outcomes :
             /\ status = "aborted" => c.transfer = "cancelled"
             /\ \E took \in {Append(c.took, c.query)}
                             \cup IF status = "ok" THEN {} ELSE {c.took} :
                  chain' = [chain EXCEPT ![s] =
                      [c EXCEPT !.transfer = "completed", !.took = took,
                                !.endpointCalls = Append(@, status)]]

ChainStep(s) ==
    ChainCall(s) \/ QueryEnds(s)
    \/ Transfer(s) \/ CancelTransfers(s) \/ TransferHandler(s) \/ LibusbCompletes(s)
=============================================================================
