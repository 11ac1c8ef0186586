--------------------------------- MODULE Promise ---------------------------------
(***************************************************************************)
(* IO/Promise.hpp, IO/PromiseLink.hpp and IO/IOContextWrapper: a promise   *)
(* has one handler for each outcome and posts the one that is called for   *)
(* on the strand (or io_service) it was deferred on.  Its members run      *)
(* under mutex_, on any thread, and are one step each.                     *)
(*                                                                         *)
(* Promises are chained by PromiseLink::forward, as those of a message     *)
(* are: the transport settles the first, whose handler settles the second, *)
(* and so on; the last has the handlers of the caller.                     *)
(***************************************************************************)
EXTENDS Naturals, Sequences

CONSTANT Length   \* promises of the chain

ASSUME LengthAssumption == Length \in Nat \ {0}

Chain == 1..Length
Results == {"resolved", "rejected"}

VARIABLES
    resolveHandler,  \* resolveHandler_ is set
    rejectHandler,   \* rejectHandler_ is set
    isActive,        \* ioContextWrapper_.isActive()
    posted,          \* handlers posted and not run yet, by their outcome
    called,          \* history: the first call on the first promise, or "none"
    told             \* history: what the caller's handlers were told

promiseVars == <<resolveHandler, rejectHandler, isActive, posted>>
chainVars == <<promiseVars, called, told>>

-----------------------------------------------------------------------------
\* then: a caller sets the handlers, the second only if it likes, before it
\* hands the promise on; nothing here relies on that.
Then(p, rejects) ==
    /\ resolveHandler' = [resolveHandler EXCEPT ![p] = TRUE]
    /\ rejectHandler' = [rejectHandler EXCEPT ![p] = rejects]
    /\ UNCHANGED <<isActive, posted, called, told>>

\* Mutant: the wrapper is kept.
PostKeepsWrapper(p, posts, result, queue) ==
    /\ posted' = IF posts THEN [queue EXCEPT ![p] = Append(@, result)] ELSE queue
    /\ UNCHANGED isActive

\* The wrapper is reset whether or not there was a handler to post.
Post(p, posts, result, queue) ==
    /\ posted' = IF posts THEN [queue EXCEPT ![p] = Append(@, result)] ELSE queue
    /\ isActive' = [isActive EXCEPT ![p] = FALSE]

\* A handler that is posted is moved from its member; the other one is reset.
Resolve(p, queue) ==
    LET posts == resolveHandler[p] /\ isActive[p]
    IN  /\ Post(p, posts, "resolved", queue)
        /\ resolveHandler' = [resolveHandler EXCEPT ![p] = @ /\ ~posts]
        /\ rejectHandler' = [rejectHandler EXCEPT ![p] = FALSE]

Reject(p, queue) ==
    LET posts == rejectHandler[p] /\ isActive[p]
    IN  /\ Post(p, posts, "rejected", queue)
        /\ rejectHandler' = [rejectHandler EXCEPT ![p] = @ /\ ~posts]
        /\ resolveHandler' = [resolveHandler EXCEPT ![p] = FALSE]

Settle(p, result, queue) ==
    \/ result = "resolved" /\ Resolve(p, queue)
    \/ result = "rejected" /\ Reject(p, queue)

\* The first promise is settled, perhaps again: a transfer that fails late.
Call(result) ==
    /\ Settle(1, result, posted)
    /\ called' = IF called = "none" THEN result ELSE called
    /\ UNCHANGED told

\* A posted handler runs: that of a link settles the next promise.
Run(p) ==
    /\ posted[p] # <<>>
    /\ LET queue == [posted EXCEPT ![p] = Tail(@)]
       IN  \/ /\ p < Length
              /\ Settle(p + 1, Head(posted[p]), queue)
              /\ UNCHANGED <<called, told>>
           \/ /\ p = Length
              /\ posted' = queue
              /\ told' = Append(told, Head(posted[p]))
              /\ UNCHANGED <<resolveHandler, rejectHandler, isActive, called>>

-----------------------------------------------------------------------------
ChainInit ==
    /\ resolveHandler = [p \in Chain |-> FALSE]
    /\ rejectHandler = [p \in Chain |-> FALSE]
    /\ isActive = [p \in Chain |-> TRUE]
    /\ posted = [p \in Chain |-> <<>>]
    /\ called = "none"
    /\ told = <<>>

ChainNext ==
    \/ \E p \in Chain, rejects \in BOOLEAN : Then(p, rejects)
    \/ \E result \in Results : Call(result)
    \/ \E p \in Chain : Run(p)

ChainSpec == ChainInit /\ [][ChainNext]_chainVars

-----------------------------------------------------------------------------
\* Type invariant of the members of Promise.
ChainTypeOK ==
    /\ resolveHandler \in [Chain -> BOOLEAN]
    /\ rejectHandler \in [Chain -> BOOLEAN]
    /\ isActive \in [Chain -> BOOLEAN]
    /\ posted \in [Chain -> Seq(Results)]
    /\ called \in Results \cup {"none"}
    /\ told \in Seq(Results)

(***************************************************************************)
(* However often and from whichever threads the first promise is settled,  *)
(* the caller at the end of the chain is told at most once, and told what  *)
(* the first call said (Promise.hpp:128-159, PromiseLink.hpp:97-103).      *)
(***************************************************************************)
FirstCallWins == told \in {<<>>, <<called>>}
=============================================================================
