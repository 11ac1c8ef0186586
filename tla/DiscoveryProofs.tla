---------------------------- MODULE DiscoveryProofs ----------------------------
(***************************************************************************)
(* Proofs about AccessoryDiscovery, for any slots and bounds.  A chain is  *)
(* a record; ChainOK says where the one thing that drives it on may wait,  *)
(* and what the phone has carried out by then.  Each step of a chain is    *)
(* shown on the record alone; the rest of the state only replaces chains   *)
(* and cancels them.                                                       *)
(***************************************************************************)
EXTENDS AccessoryDiscovery, FiniteSetTheorems, SequenceTheorems, TLAPS

-----------------------------------------------------------------------------
\* The calls that wait on a strand: cancels only, or one other among them.
Quiet(t) == \A i \in DOMAIN t : t[i] = "cancel"
Driven(t, d) ==
    \E k \in DOMAIN t : t[k] = d /\ \A i \in DOMAIN t : i # k => t[i] = "cancel"

LEMMA QuietEmpty == Quiet(<<>>)
  BY DEF Quiet

\* A cancel that arrives changes nothing.
LEMMA CancelArrives ==
  ASSUME NEW S, NEW t \in Seq(S), "cancel" \in S
  PROVE  /\ Append(t, "cancel") \in Seq(S)
         /\ Quiet(t) => Quiet(Append(t, "cancel"))
         /\ \A d : Driven(t, d) => Driven(Append(t, "cancel"), d)
  <1> DEFINE u == Append(t, "cancel")
  <1>1. /\ u \in Seq(S)
        /\ DOMAIN t = 1..Len(t) /\ DOMAIN u = 1..Len(t) + 1
        /\ Len(t) \in Nat
        /\ \A i \in 1..Len(t) : u[i] = t[i]
        /\ u[Len(t) + 1] = "cancel"
    OBVIOUS
  <1> HIDE DEF u
  <1>2. Quiet(t) => Quiet(u)
    BY <1>1 DEF Quiet
  <1>3. ASSUME NEW d, Driven(t, d)
        PROVE  Driven(u, d)
    <2>1. PICK k \in DOMAIN t :
             t[k] = d /\ \A i \in DOMAIN t : i # k => t[i] = "cancel"
      BY <1>3, Zenon DEF Driven
    <2>2. k \in DOMAIN u /\ u[k] = d /\ \A i \in DOMAIN u : i # k => u[i] = "cancel"
      BY <1>1, <2>1
    <2> QED
      BY <2>2, Zenon DEF Driven
  <1> QED
    BY <1>1, <1>2, <1>3, Zenon DEF u

\* Another call arrives where only cancels wait.
LEMMA DriverArrives ==
  ASSUME NEW S, NEW t \in Seq(S), NEW d \in S, Quiet(t)
  PROVE  Append(t, d) \in Seq(S) /\ Driven(Append(t, d), d)
  <1> DEFINE u == Append(t, d)
  <1>1. /\ u \in Seq(S)
        /\ DOMAIN t = 1..Len(t) /\ DOMAIN u = 1..Len(t) + 1
        /\ Len(t) \in Nat
        /\ \A i \in 1..Len(t) : u[i] = t[i]
        /\ u[Len(t) + 1] = d
    OBVIOUS
  <1> HIDE DEF u
  <1>2. Len(t) + 1 \in DOMAIN u /\ \A i \in DOMAIN u : i # Len(t) + 1 => u[i] = "cancel"
    BY <1>1 DEF Quiet
  <1>3. Driven(u, d)
    BY <1>1, <1>2, Zenon DEF Driven
  <1> QED
    BY <1>1, <1>3 DEF u

\* The first call is taken.
LEMMA FirstIsTaken ==
  ASSUME NEW S, NEW t \in Seq(S), t # <<>>
  PROVE  /\ Tail(t) \in Seq(S) /\ Head(t) \in S
         /\ Quiet(t) => Quiet(Tail(t)) /\ Head(t) = "cancel"
         /\ \A d : Driven(t, d) =>
              \/ Head(t) = "cancel" /\ Driven(Tail(t), d)
              \/ Head(t) = d /\ Quiet(Tail(t))
  <1> DEFINE u == Tail(t)
  <1>1. /\ u \in Seq(S) /\ Head(t) \in S
        /\ Head(t) = t[1]
        /\ Len(t) \in Nat \ {0}
        /\ DOMAIN t = 1..Len(t) /\ DOMAIN u = 1..Len(t) - 1
        /\ \A i \in 1..Len(t) - 1 : u[i] = t[i + 1]
    OBVIOUS
  <1> HIDE DEF u
  <1>2. Quiet(t) => Quiet(u) /\ Head(t) = "cancel"
    BY <1>1 DEF Quiet
  <1>3. ASSUME NEW d, Driven(t, d)
        PROVE  \/ Head(t) = "cancel" /\ Driven(u, d)
               \/ Head(t) = d /\ Quiet(u)
    <2>1. PICK k \in DOMAIN t :
             t[k] = d /\ \A i \in DOMAIN t : i # k => t[i] = "cancel"
      BY <1>3, Zenon DEF Driven
    <2>2. CASE k = 1
      <3>1. Head(t) = d /\ \A i \in DOMAIN u : u[i] = "cancel"
        BY <1>1, <2>1, <2>2
      <3> QED
        BY <3>1 DEF Quiet
    <2>3. CASE k # 1
      <3> DEFINE j == k - 1
      <3>1. k \in 2..Len(t) /\ j \in 1..Len(t) - 1 /\ k = j + 1
        BY <1>1, <2>3
      <3>2. j \in DOMAIN u /\ u[j] = d
        BY <1>1, <2>1, <3>1
      <3>3. 1 \in DOMAIN t /\ Head(t) = "cancel"
        BY <1>1, <2>1, <2>3
      <3>4. ASSUME NEW i \in DOMAIN u, i # j
            PROVE  u[i] = "cancel"
        <4>1. i + 1 \in DOMAIN t /\ i + 1 # k
          BY <1>1, <3>1, <3>4
        <4> QED
          BY <1>1, <2>1, <4>1
      <3> HIDE DEF j
      <3> QED
        BY <3>2, <3>3, <3>4, Zenon DEF Driven
    <2> QED
      BY <2>2, <2>3
  <1> QED
    BY <1>1, <1>2, <1>3, Zenon DEF u

\* What is counted.
LEMMA Counted ==
  ASSUME NEW S, NEW t \in Seq(S)
  PROVE  /\ Quiet(t) => Drivers(t) = 0
         /\ \A d : d # "cancel" /\ Driven(t, d) => Drivers(t) = 1
  <1>1. ASSUME Quiet(t)
        PROVE  Drivers(t) = 0
    <2>1. {i \in DOMAIN t : t[i] # "cancel"} = {}
      BY <1>1 DEF Quiet
    <2> QED
      BY <2>1, FS_EmptySet DEF Drivers
  <1>2. ASSUME NEW d, d # "cancel", Driven(t, d)
        PROVE  Drivers(t) = 1
    <2>1. PICK k \in DOMAIN t :
             t[k] = d /\ \A i \in DOMAIN t : i # k => t[i] = "cancel"
      BY <1>2, Zenon DEF Driven
    <2>2. {i \in DOMAIN t : t[i] # "cancel"} = {k}
      BY <1>2, <2>1
    <2> QED
      BY <2>2, FS_Singleton DEF Drivers
  <1> QED
    BY <1>1, <1>2


-----------------------------------------------------------------------------
\* The queries the phone has carried out are the first k.
TookFirst(c, k) == c.took = [i \in 1..k |-> i]

\* The query last started is not carried out yet; or its outcome is known.
TookBefore(c) ==
    c.query \in 1..Len(Queries) /\ TookFirst(c, c.query - 1)

TookAfter(c, outcome) ==
    /\ c.query \in 1..Len(Queries)
    /\ TookFirst(c, c.query) \/ (outcome # "ok" /\ TookFirst(c, c.query - 1))

(***************************************************************************)
(* What drives a chain on: the call of start, a transfer to ask for, one   *)
(* with libusb, its status, the outcome of a query on its own strand, or   *)
(* on that of the chain; or nothing, when it is over.                      *)
(***************************************************************************)
ToStart(c) ==
    /\ c.outcome = "none"
    /\ c.calls # <<>> /\ Head(c.calls) = "start" /\ Driven(c.calls, "start")
    /\ c.queryCalls = <<>> /\ Quiet(c.endpointCalls) /\ c.transfer = "none"
    /\ c.took = <<>>

ToTransfer(c) ==
    /\ Quiet(c.calls) /\ c.queryCalls = <<>> /\ Driven(c.endpointCalls, "transfer")
    /\ c.queryPromise = "set" /\ c.transfer = "none" /\ TookBefore(c)

InTransfer(c) ==
    /\ Quiet(c.calls) /\ c.queryCalls = <<>> /\ Quiet(c.endpointCalls)
    /\ c.queryPromise = "set" /\ c.transfer \in {"submitted", "cancelled"} /\ TookBefore(c)

Transferred(c) ==
    /\ Quiet(c.calls) /\ c.queryCalls = <<>>
    /\ \E status \in Outcomes : Driven(c.endpointCalls, status) /\ TookAfter(c, status)
    /\ c.queryPromise = "set" /\ c.transfer = "completed"

ToEndQuery(c) ==
    /\ Quiet(c.calls) /\ Quiet(c.endpointCalls)
    /\ \E status \in Outcomes : c.queryCalls = <<status>> /\ TookAfter(c, status)
    /\ c.queryPromise = "set" /\ c.transfer = "none"

QueryEnded(c) ==
    /\ c.queryCalls = <<>> /\ Quiet(c.endpointCalls) /\ c.transfer = "none"
    /\ \E status \in Outcomes : Driven(c.calls, status) /\ TookAfter(c, status)

Over(c) ==
    /\ c.outcome # "none"
    /\ Quiet(c.calls) /\ c.queryCalls = <<>> /\ Quiet(c.endpointCalls)
    /\ c.transfer = "none"
    /\ \E k \in 0..Len(Queries) : TookFirst(c, k)

UnderWay(c) ==
    /\ c.outcome = "none" /\ c.promise = "set"
    /\ \/ ToTransfer(c) \/ InTransfer(c) \/ Transferred(c)
       \/ ToEndQuery(c) \/ QueryEnded(c)

ChainOK(c) == ~c.fault /\ (ToStart(c) \/ UnderWay(c) \/ Over(c))

\* The hub's queue holds the chains that are not erased yet.
QueueOK == \A s \in HubSlots : s \in queued <=> chain[s].outcome # "unused"

-----------------------------------------------------------------------------
(* One step on the record of a chain.                                      *)

LEMMA EightQueries == Len(Queries) = 8
  BY DEF Queries

\* A step keeps the chain well, and at most gives it its outcome.
Moves(c, d) ==
    /\ d \in Chains /\ ChainOK(d)
    /\ d.outcome # c.outcome => c.outcome = "none" /\ d.outcome \in Outcomes

\* A cancel arrives on the strand of the chain.
LEMMA CancelIsCalled ==
  ASSUME NEW c \in Chains, ChainOK(c)
  PROVE  Moves(c, [c EXCEPT !.calls = Append(@, "cancel")])
  <1> DEFINE d == [c EXCEPT !.calls = Append(@, "cancel")]
  <1>1. c.calls \in Seq({"start", "cancel"} \cup Outcomes)
    BY DEF Chains
  <1>2. /\ Append(c.calls, "cancel") \in Seq({"start", "cancel"} \cup Outcomes)
        /\ Quiet(c.calls) => Quiet(Append(c.calls, "cancel"))
        /\ \A x : Driven(c.calls, x) => Driven(Append(c.calls, "cancel"), x)
    BY <1>1, CancelArrives
  <1>3. c.calls # <<>> => /\ Append(c.calls, "cancel") # <<>>
                          /\ Head(Append(c.calls, "cancel")) = Head(c.calls)
    BY <1>1
  <1>4. d \in Chains
    BY <1>2 DEF Chains
  <1>5. /\ d.calls = Append(c.calls, "cancel")
        /\ d.promise = c.promise /\ d.query = c.query
        /\ d.queryPromise = c.queryPromise /\ d.queryCalls = c.queryCalls
        /\ d.endpointCalls = c.endpointCalls /\ d.transfer = c.transfer
        /\ d.took = c.took /\ d.outcome = c.outcome /\ d.fault = c.fault
    BY DEF Chains
  <1> HIDE DEF d
  <1>6. ToStart(c) => ToStart(d)
    BY <1>2, <1>3, <1>5, Zenon DEF ToStart
  <1>7. UnderWay(c) => UnderWay(d)
    BY <1>2, <1>5, Zenon DEF UnderWay, ToTransfer, InTransfer, Transferred, ToEndQuery,
       QueryEnded, TookBefore, TookAfter, TookFirst
  <1>8. Over(c) => Over(d)
    BY <1>2, <1>5, Zenon DEF Over, TookFirst
  <1>9. ChainOK(d)
    BY <1>5, <1>6, <1>7, <1>8, Zenon DEF ChainOK
  <1> QED
    BY <1>4, <1>5, <1>9, Zenon DEF Moves, d

\* cancel, called on a chain at any time.
LEMMA CancelKeeps ==
  ASSUME NEW c \in Chains, ChainOK(c), NEW d \in Cancel(c)
  PROVE  Moves(c, d)
  <1>1. c.endpointCalls \in Seq({"transfer", "cancel"} \cup Outcomes)
    BY DEF Chains
  <1>2. /\ Append(c.endpointCalls, "cancel") \in Seq({"transfer", "cancel"} \cup Outcomes)
        /\ Quiet(c.endpointCalls) => Quiet(Append(c.endpointCalls, "cancel"))
        /\ \A x : Driven(c.endpointCalls, x) => Driven(Append(c.endpointCalls, "cancel"), x)
    BY <1>1, CancelArrives
  <1>3. CASE c.active
    <2>1. d = [c EXCEPT !.active = FALSE, !.endpointCalls = Append(@, "cancel")]
      BY <1>3, Zenon DEF Cancel
    <2>2. d \in Chains
      BY <1>2, <2>1 DEF Chains
    <2>3. /\ d.endpointCalls = Append(c.endpointCalls, "cancel")
          /\ d.promise = c.promise /\ d.query = c.query /\ d.calls = c.calls
          /\ d.queryPromise = c.queryPromise /\ d.queryCalls = c.queryCalls
          /\ d.transfer = c.transfer
          /\ d.took = c.took /\ d.outcome = c.outcome /\ d.fault = c.fault
      BY <2>1 DEF Chains
    <2>4. ToStart(c) => ToStart(d)
      BY <1>2, <2>3, Zenon DEF ToStart
    <2>5. UnderWay(c) => UnderWay(d)
      BY <1>2, <2>3, Zenon DEF UnderWay, ToTransfer, InTransfer, Transferred, ToEndQuery,
         QueryEnded, TookBefore, TookAfter, TookFirst
    <2>6. Over(c) => Over(d)
      BY <1>2, <2>3, Zenon DEF Over, TookFirst
    <2> QED
      BY <2>2, <2>3, <2>4, <2>5, <2>6, Zenon DEF Moves, ChainOK
  <1>4. CASE ~c.active
    BY <1>4, Zenon DEF Cancel, Moves
  <1> QED
    BY <1>3, <1>4, Zenon

\* A cancel is the next call of the chain: it leaves the strand.
LEMMA CancelIsTaken ==
  ASSUME NEW c \in Chains, ChainOK(c), c.calls # <<>>, Head(c.calls) = "cancel"
  PROVE  Moves(c, [c EXCEPT !.calls = Tail(@)])
  <1> DEFINE d == [c EXCEPT !.calls = Tail(@)]
  <1>1. c.calls \in Seq({"start", "cancel"} \cup Outcomes)
    BY DEF Chains
  <1>2. /\ Tail(c.calls) \in Seq({"start", "cancel"} \cup Outcomes)
        /\ Quiet(c.calls) => Quiet(Tail(c.calls))
        /\ \A x : Driven(c.calls, x) => \/ Driven(Tail(c.calls), x)
                                        \/ x = "cancel"
    BY <1>1, FirstIsTaken
  <1>3. d \in Chains
    BY <1>2 DEF Chains
  <1>4. /\ d.calls = Tail(c.calls)
        /\ d.promise = c.promise /\ d.query = c.query
        /\ d.queryPromise = c.queryPromise /\ d.queryCalls = c.queryCalls
        /\ d.endpointCalls = c.endpointCalls /\ d.transfer = c.transfer
        /\ d.took = c.took /\ d.outcome = c.outcome /\ d.fault = c.fault
    BY DEF Chains
  <1> HIDE DEF d
  <1>5. ~ToStart(c)
    BY DEF ToStart
  <1>6. "cancel" \notin Outcomes
    BY DEF Outcomes
  <1>7. UnderWay(c) => UnderWay(d)
    BY <1>2, <1>4, <1>6, Zenon DEF UnderWay, ToTransfer, InTransfer, Transferred, ToEndQuery,
       QueryEnded, TookBefore, TookAfter, TookFirst
  <1>8. Over(c) => Over(d)
    BY <1>2, <1>4, Zenon DEF Over, TookFirst
  <1>9. ChainOK(d)
    BY <1>4, <1>5, <1>7, <1>8, Zenon DEF ChainOK
  <1> QED
    BY <1>3, <1>4, <1>9, Zenon DEF Moves, d

\* Nothing waits but cancels.
Free(c) ==
    /\ Quiet(c.calls) /\ c.queryCalls = <<>> /\ Quiet(c.endpointCalls)
    /\ c.transfer = "none"

\* Fields that are replaced, two at a time.
LEMMA QueryReplaced ==
  ASSUME NEW c \in Chains, NEW q \in 1..Len(Queries)
  PROVE  LET d == [c EXCEPT !.query = q, !.active = TRUE]
         IN  /\ d \in Chains
             /\ d.calls = c.calls /\ d.promise = c.promise /\ d.query = q
             /\ d.queryCalls = c.queryCalls
             /\ d.endpointCalls = c.endpointCalls /\ d.transfer = c.transfer
             /\ d.took = c.took /\ d.outcome = c.outcome /\ d.fault = c.fault
  <1> DEFINE e == [c EXCEPT !.query = q]
             d == [e EXCEPT !.active = TRUE]
  <1>0. q \in 0..Len(Queries)
    BY EightQueries
  <1>1. /\ e \in Chains
        /\ e.calls = c.calls /\ e.promise = c.promise /\ e.query = q
        /\ e.queryCalls = c.queryCalls
        /\ e.endpointCalls = c.endpointCalls /\ e.transfer = c.transfer
        /\ e.took = c.took /\ e.outcome = c.outcome /\ e.fault = c.fault
    BY <1>0 DEF Chains
  <1> HIDE DEF e
  <1>2. /\ d \in Chains
        /\ d.calls = e.calls /\ d.promise = e.promise /\ d.query = e.query
        /\ d.queryCalls = e.queryCalls
        /\ d.endpointCalls = e.endpointCalls /\ d.transfer = e.transfer
        /\ d.took = e.took /\ d.outcome = e.outcome /\ d.fault = e.fault
    BY <1>1 DEF Chains
  <1> HIDE DEF d
  <1>3. d = [c EXCEPT !.query = q, !.active = TRUE]
    BY Zenon DEF d, e
  <1> QED
    BY <1>1, <1>2, <1>3, Zenon

LEMMA QueryCleared ==
  ASSUME NEW c \in Chains
  PROVE  LET d == [c EXCEPT !.queryCalls = <<>>, !.queryPromise = "null"]
         IN  /\ d \in Chains
             /\ d.calls = c.calls /\ d.promise = c.promise /\ d.query = c.query
             /\ d.queryCalls = <<>>
             /\ d.endpointCalls = c.endpointCalls /\ d.transfer = c.transfer
             /\ d.took = c.took /\ d.outcome = c.outcome
  <1> DEFINE e == [c EXCEPT !.queryCalls = <<>>]
             d == [e EXCEPT !.queryPromise = "null"]
  <1>0. <<>> \in Seq(Outcomes)
    OBVIOUS
  <1>1. /\ e \in Chains
        /\ e.calls = c.calls /\ e.promise = c.promise /\ e.query = c.query
        /\ e.queryCalls = <<>>
        /\ e.endpointCalls = c.endpointCalls /\ e.transfer = c.transfer
        /\ e.took = c.took /\ e.outcome = c.outcome
    BY <1>0 DEF Chains
  <1> HIDE DEF e
  <1>2. /\ d \in Chains
        /\ d.calls = e.calls /\ d.promise = e.promise /\ d.query = e.query
        /\ d.queryCalls = e.queryCalls
        /\ d.endpointCalls = e.endpointCalls /\ d.transfer = e.transfer
        /\ d.took = e.took /\ d.outcome = e.outcome
    BY <1>1 DEF Chains
  <1> HIDE DEF d
  <1>3. d = [c EXCEPT !.queryCalls = <<>>, !.queryPromise = "null"]
    BY Zenon DEF d, e
  <1> QED
    BY <1>1, <1>2, <1>3, Zenon

\* A query is started when those before it were carried out.
LEMMA StartQueryKeeps ==
  ASSUME NEW c \in Chains, ~c.fault, c.promise = "set", c.outcome = "none", Free(c),
         NEW q \in 1..Len(Queries), TookFirst(c, q - 1),
         NEW d \in StartQuery(c, q)
  PROVE  d \in Chains /\ ChainOK(d) /\ d.outcome = "none"
  <1> DEFINE next == [c EXCEPT !.query = q, !.active = TRUE, !.queryPromise = "set"]
  <1> DEFINE half == [c EXCEPT !.query = q, !.active = TRUE]
  <1>0. /\ half \in Chains
        /\ half.calls = c.calls /\ half.promise = c.promise /\ half.query = q
        /\ half.queryCalls = c.queryCalls
        /\ half.endpointCalls = c.endpointCalls /\ half.transfer = c.transfer
        /\ half.took = c.took /\ half.outcome = c.outcome /\ half.fault = c.fault
    BY QueryReplaced
  <1>1. next = [half EXCEPT !.queryPromise = "set"]
    BY Zenon
  <1> HIDE DEF half, next
  <1>2. /\ next \in Chains
        /\ next.calls = c.calls /\ next.promise = c.promise /\ next.query = q
        /\ next.queryPromise = "set" /\ next.queryCalls = c.queryCalls
        /\ next.endpointCalls = c.endpointCalls /\ next.transfer = c.transfer
        /\ next.took = c.took /\ next.outcome = c.outcome /\ next.fault = c.fault
    BY <1>0, <1>1 DEF Chains
  <1>3. c.queryCalls = <<>> /\ c.transfer = "none"
    BY DEF Free
  <1>4. \/ d = [next EXCEPT !.endpointCalls = Append(@, "transfer")]
        \/ d = [next EXCEPT !.queryCalls = Append(@, "error")]
    BY Zenon DEF StartQuery, next
  <1>5. CASE d = [next EXCEPT !.endpointCalls = Append(@, "transfer")]
    <2>1. next.endpointCalls \in Seq({"transfer", "cancel"} \cup Outcomes)
      BY <1>2 DEF Chains
    <2>2. /\ Append(next.endpointCalls, "transfer") \in Seq({"transfer", "cancel"} \cup Outcomes)
          /\ Driven(Append(next.endpointCalls, "transfer"), "transfer")
      BY <1>2, <2>1, DriverArrives DEF Free
    <2>3. d \in Chains
      BY <1>2, <1>5, <2>2 DEF Chains
    <2>4. /\ d.endpointCalls = Append(next.endpointCalls, "transfer")
          /\ d.calls = c.calls /\ d.promise = "set" /\ d.query = q
          /\ d.queryPromise = "set" /\ d.queryCalls = <<>>
          /\ d.transfer = "none" /\ d.took = c.took /\ d.outcome = "none" /\ d.fault = c.fault
      BY <1>2, <1>3, <1>5 DEF Chains
    <2>5. ToTransfer(d)
      BY <2>2, <2>4, Zenon DEF ToTransfer, TookBefore, TookFirst, Free
    <2> QED
      BY <2>3, <2>4, <2>5, Zenon DEF ChainOK, UnderWay
  <1>6. CASE d = [next EXCEPT !.queryCalls = Append(@, "error")]
    <2>1. Append(next.queryCalls, "error") = <<"error">>
      BY <1>2, <1>3
    <2>2. "error" \in Outcomes /\ "error" # "ok" /\ <<"error">> \in Seq(Outcomes)
      BY DEF Outcomes
    <2>3. d \in Chains
      BY <1>2, <1>6, <2>1, <2>2 DEF Chains
    <2>4. /\ d.endpointCalls = c.endpointCalls
          /\ d.calls = c.calls /\ d.promise = "set" /\ d.query = q
          /\ d.queryPromise = "set" /\ d.queryCalls = <<"error">>
          /\ d.transfer = "none" /\ d.took = c.took /\ d.outcome = "none" /\ d.fault = c.fault
      BY <1>2, <1>3, <1>6, <2>1 DEF Chains
    <2>5. TookAfter(d, "error")
      BY <2>2, <2>4, Zenon DEF TookAfter, TookFirst
    <2>6. ToEndQuery(d)
      BY <2>2, <2>4, <2>5, Zenon DEF ToEndQuery, Free
    <2> QED
      BY <2>3, <2>4, <2>6, Zenon DEF ChainOK, UnderWay
  <1> QED
    BY <1>4, <1>5, <1>6, Zenon

\* The chain is over: its promise is there to be settled.
LEMMA ReportKeeps ==
  ASSUME NEW c \in Chains, c.promise = "set", Free(c),
         NEW k \in 0..Len(Queries), TookFirst(c, k),
         NEW outcome \in Outcomes, NEW d \in Report(c, outcome)
  PROVE  d \in Chains /\ ChainOK(d) /\ d.outcome = outcome
  <1>1. d = [c EXCEPT !.outcome = outcome, !.promise = "null", !.fault = (c.promise = "null")]
    BY Zenon DEF Report
  <1>2. d = [c EXCEPT !.outcome = outcome, !.promise = "null", !.fault = FALSE]
    BY <1>1, Zenon
  <1>3. d \in Chains
    BY <1>2 DEF Chains
  <1>4. /\ d.endpointCalls = c.endpointCalls /\ d.calls = c.calls
        /\ d.queryCalls = c.queryCalls /\ d.transfer = c.transfer
        /\ d.took = c.took /\ d.outcome = outcome /\ d.fault = FALSE
    BY <1>2 DEF Chains
  <1>5. outcome # "none"
    BY DEF Outcomes
  <1>6. Over(d)
    BY <1>4, <1>5, Zenon DEF Over, Free, TookFirst
  <1> QED
    BY <1>3, <1>4, <1>6, Zenon DEF ChainOK

\* The first call on the chain's strand.
LEMMA ChainCallKeeps ==
  ASSUME chain \in [Slots -> Chains], NEW s \in Slots, ChainOK(chain[s]), ChainCall(s)
  PROVE  \E d : chain' = [chain EXCEPT ![s] = d] /\ Moves(chain[s], d)
  <1> DEFINE b == chain[s]
             call == Head(b.calls)
             c == [b EXCEPT !.calls = Tail(@)]
  <1>1. /\ b.calls # <<>>
        /\ \E next \in CASE call = "start" -> Start(c)
                         [] call = "cancel" -> Cancel(c)
                         [] OTHER -> QueryHandler(c, call) :
             chain' = [chain EXCEPT ![s] = next]
    BY Zenon DEF ChainCall
  <1>2. b \in Chains /\ ChainOK(b)
    OBVIOUS
  <1>3. PICK d \in CASE call = "start" -> Start(c)
                     [] call = "cancel" -> Cancel(c)
                     [] OTHER -> QueryHandler(c, call) :
             chain' = [chain EXCEPT ![s] = d]
    BY <1>1, Zenon
  <1> HIDE DEF b
  <1>4. b.calls \in Seq({"start", "cancel"} \cup Outcomes)
    BY <1>2 DEF Chains
  <1>5. /\ Tail(b.calls) \in Seq({"start", "cancel"} \cup Outcomes)
        /\ Quiet(b.calls) => Quiet(Tail(b.calls)) /\ call = "cancel"
        /\ \A x : Driven(b.calls, x) =>
             \/ call = "cancel" /\ Driven(Tail(b.calls), x)
             \/ call = x /\ Quiet(Tail(b.calls))
    BY <1>1, <1>4, FirstIsTaken
  <1>6. /\ c \in Chains
        /\ c.calls = Tail(b.calls)
        /\ c.promise = b.promise /\ c.query = b.query
        /\ c.queryPromise = b.queryPromise /\ c.queryCalls = b.queryCalls
        /\ c.endpointCalls = b.endpointCalls /\ c.transfer = b.transfer
        /\ c.took = b.took /\ c.outcome = b.outcome /\ c.fault = b.fault
    BY <1>2, <1>5 DEF Chains
  <1>7. CASE call = "cancel"
    <2>1. d \in Cancel(c)
      BY <1>3, <1>7
    <2>2. Moves(b, c)
      BY <1>1, <1>2, <1>7, CancelIsTaken, Zenon
    <2> HIDE DEF c
    <2>3. Moves(c, d)
      BY <1>6, <2>1, <2>2, CancelKeeps, Zenon DEF Moves
    <2>4. Moves(b, d)
      BY <1>6, <2>3, Zenon DEF Moves
    <2> QED
      BY <1>3, <2>4, Zenon DEF b
  <1> HIDE DEF c
  <1>8. CASE call # "cancel"
    <2>1. ~Quiet(b.calls)
      BY <1>5, <1>8, Zenon
    <2>2. CASE ToStart(b)
      <3>1. call = "start" /\ Driven(b.calls, "start")
        BY <2>2, Zenon DEF ToStart
      <3>2. d \in Start(c)
        BY <1>3, <3>1
      <3>3. Quiet(c.calls)
        BY <1>5, <1>6, <1>8, <3>1, Zenon
      <3> DEFINE e == [c EXCEPT !.promise = "set"]
      <3>4. /\ e \in Chains
            /\ e.promise = "set" /\ e.calls = c.calls
            /\ e.queryCalls = c.queryCalls
            /\ e.endpointCalls = c.endpointCalls /\ e.transfer = c.transfer
            /\ e.took = c.took /\ e.outcome = c.outcome /\ e.fault = c.fault
        BY <1>6 DEF Chains
      <3> HIDE DEF e
      <3>5. Free(e) /\ ~e.fault /\ e.outcome = "none" /\ e.took = <<>>
        BY <1>2, <1>6, <2>2, <3>3, <3>4, Zenon DEF Free, ToStart, ChainOK
      <3>6. 1 \in 1..Len(Queries) /\ TookFirst(e, 1 - 1)
        BY <3>5, EightQueries DEF TookFirst
      <3>7. d \in StartQuery(e, 1)
        BY <3>2, Zenon DEF Start, e
      <3>8. d \in Chains /\ ChainOK(d) /\ d.outcome = "none"
        BY <3>4, <3>5, <3>6, <3>7, StartQueryKeeps, Zenon
      <3>9. Moves(b, d)
        BY <2>2, <3>8, Zenon DEF Moves, ToStart
      <3> QED
        BY <1>3, <3>9, Zenon DEF b
    <2>3. CASE QueryEnded(b) /\ b.outcome = "none" /\ b.promise = "set"
      <3>1. PICK status \in Outcomes : Driven(b.calls, status) /\ TookAfter(b, status)
        BY <2>3, Zenon DEF QueryEnded
      <3>2. call = status /\ Quiet(c.calls)
        BY <1>5, <1>6, <1>8, <3>1, Zenon
      <3>3. status # "start" /\ status # "cancel"
        BY DEF Outcomes
      <3>4. d \in QueryHandler(c, status)
        BY <1>3, <3>2, <3>3
      <3>5. Free(c) /\ ~c.fault /\ c.outcome = "none" /\ c.promise = "set"
        BY <1>2, <1>6, <2>3, <3>2, Zenon DEF Free, QueryEnded, ChainOK
      <3>6. TookAfter(c, status)
        BY <1>6, <3>1, Zenon DEF TookAfter, TookFirst
      <3>7. CASE status = "ok" /\ c.query < Len(Queries)
        <4>1. d \in StartQuery(c, c.query + 1)
          BY <3>4, <3>7, Zenon DEF QueryHandler
        <4>2. c.query + 1 \in 1..Len(Queries) /\ (c.query + 1) - 1 = c.query
          BY <3>6, <3>7, EightQueries DEF TookAfter
        <4>3. TookFirst(c, (c.query + 1) - 1)
          BY <3>6, <3>7, <4>2, Zenon DEF TookAfter
        <4>4. d \in Chains /\ ChainOK(d) /\ d.outcome = "none"
          BY <1>6, <3>5, <4>1, <4>2, <4>3, StartQueryKeeps, Zenon
        <4> QED
          BY <1>3, <2>3, <4>4, Zenon DEF Moves, b
      <3>8. CASE ~(status = "ok" /\ c.query < Len(Queries))
        <4> DEFINE e == [c EXCEPT !.active = @ /\ status # "ok"]
        <4>1. d \in Report(e, status)
          BY <3>4, <3>8, Zenon DEF QueryHandler
        <4>2. /\ e \in Chains
              /\ e.promise = c.promise /\ e.calls = c.calls
              /\ e.queryCalls = c.queryCalls
              /\ e.endpointCalls = c.endpointCalls /\ e.transfer = c.transfer
              /\ e.took = c.took
          BY <1>6 DEF Chains
        <4> HIDE DEF e
        <4>3. e.promise = "set" /\ Free(e)
          BY <3>5, <4>2, Zenon DEF Free
        <4>4. PICK k \in 0..Len(Queries) : TookFirst(c, k)
          <5>1. c.query \in 0..Len(Queries) /\ c.query - 1 \in 0..Len(Queries)
            BY <3>6, EightQueries DEF TookAfter
          <5> QED
            BY <3>6, <5>1, Zenon DEF TookAfter
        <4>5. TookFirst(e, k)
          BY <4>2, <4>4, Zenon DEF TookFirst
        <4>6. d \in Chains /\ ChainOK(d) /\ d.outcome = status
          BY <4>1, <4>2, <4>3, <4>5, ReportKeeps, Zenon
        <4> QED
          BY <1>3, <2>3, <4>6, Zenon DEF Moves, b
      <3> QED
        BY <1>3, <3>7, <3>8, Zenon DEF b
    <2> QED
      BY <1>2, <2>1, <2>2, <2>3, Zenon DEF ChainOK, UnderWay, Over, ToTransfer, InTransfer,
         Transferred, ToEndQuery
  <1> QED
    BY <1>7, <1>8, Zenon

\* The outcome of a query goes to the chain.
LEMMA QueryEndsKeeps ==
  ASSUME chain \in [Slots -> Chains], NEW s \in Slots, ChainOK(chain[s]), QueryEnds(s)
  PROVE  \E d : chain' = [chain EXCEPT ![s] = d] /\ Moves(chain[s], d)
  <1> DEFINE c == chain[s]
  <1>1. /\ c \in Chains /\ ChainOK(c) /\ c.queryCalls # <<>>
        /\ \E result \in CreateQuery(c.query, Head(c.queryCalls)) :
             chain' = [chain EXCEPT ![s] =
                 [c EXCEPT !.queryCalls = Tail(@), !.queryPromise = "null",
                           !.fault = @ \/ c.queryPromise = "null",
                           !.calls = Append(@, result)]]
    BY Zenon DEF QueryEnds
  <1>2. PICK result \in CreateQuery(c.query, Head(c.queryCalls)) :
             chain' = [chain EXCEPT ![s] =
                 [c EXCEPT !.queryCalls = Tail(@), !.queryPromise = "null",
                           !.fault = @ \/ c.queryPromise = "null",
                           !.calls = Append(@, result)]]
    BY <1>1, Zenon
  <1> DEFINE d == [c EXCEPT !.queryCalls = Tail(@), !.queryPromise = "null",
                            !.fault = @ \/ c.queryPromise = "null",
                            !.calls = Append(@, result)]
  <1> HIDE DEF c
  <1>3. /\ ToEndQuery(c) /\ ~c.fault
        /\ c.outcome = "none" /\ c.promise = "set"
    BY <1>1, Zenon DEF ChainOK, ToStart, UnderWay, ToTransfer, InTransfer, Transferred,
       QueryEnded, Over
  <1>4. PICK status \in Outcomes : c.queryCalls = <<status>> /\ TookAfter(c, status)
    BY <1>3, Zenon DEF ToEndQuery
  <1>5. Head(c.queryCalls) = status /\ Tail(c.queryCalls) = <<>>
    BY <1>4
  <1>6. result \in Outcomes /\ (result = "ok" => status = "ok")
    <2>1. result \in CreateQuery(c.query, status)
      BY <1>2, <1>5
    <2>2. result = status \/ (result = "error" /\ status = "ok")
      BY <2>1 DEF CreateQuery, AccessoryModeProtocolVersionQuery,
         AccessoryModeSendStringQuery, AccessoryModeStartQuery
    <2> QED
      BY <2>2 DEF Outcomes
  <1>7. c.calls \in Seq({"start", "cancel"} \cup Outcomes)
    BY <1>1 DEF Chains
  <1>8. /\ Append(c.calls, result) \in Seq({"start", "cancel"} \cup Outcomes)
        /\ Driven(Append(c.calls, result), result)
    BY <1>3, <1>6, <1>7, DriverArrives DEF ToEndQuery
  <1>9. d = [c EXCEPT !.queryCalls = <<>>, !.queryPromise = "null",
                      !.fault = FALSE, !.calls = Append(c.calls, result)]
    <2>1. (c.fault \/ c.queryPromise = "null") = FALSE
      BY <1>3, Zenon DEF ToEndQuery
    <2> QED
      BY <1>5, <2>1, Zenon
  <1> DEFINE half == [c EXCEPT !.queryCalls = <<>>, !.queryPromise = "null"]
  <1>10. /\ half \in Chains
         /\ half.calls = c.calls /\ half.promise = c.promise /\ half.query = c.query
         /\ half.queryCalls = <<>>
         /\ half.endpointCalls = c.endpointCalls /\ half.transfer = c.transfer
         /\ half.took = c.took /\ half.outcome = c.outcome
    BY <1>1, QueryCleared
  <1>11. d = [half EXCEPT !.fault = FALSE, !.calls = Append(c.calls, result)]
    BY <1>9, Zenon
  <1> HIDE DEF half, d
  <1>12. /\ d \in Chains
         /\ d.calls = Append(c.calls, result)
         /\ d.promise = c.promise /\ d.query = c.query
         /\ d.queryCalls = <<>>
         /\ d.endpointCalls = c.endpointCalls /\ d.transfer = c.transfer
         /\ d.took = c.took /\ d.outcome = c.outcome /\ d.fault = FALSE
    BY <1>8, <1>10, <1>11 DEF Chains
  <1>13. TookAfter(d, result)
    BY <1>4, <1>6, <1>12, Zenon DEF TookAfter, TookFirst
  <1>14. QueryEnded(d)
    BY <1>3, <1>6, <1>8, <1>12, <1>13, Zenon DEF QueryEnded, ToEndQuery
  <1>15. Moves(c, d)
    BY <1>3, <1>12, <1>14, Zenon DEF Moves, ChainOK, UnderWay
  <1> QED
    BY <1>2, <1>15, Zenon DEF c, d

\* The first call on the endpoint's strand leaves it.
LEMMA EndpointCall ==
  ASSUME NEW c \in Chains, c.endpointCalls # <<>>
  PROVE  /\ Tail(c.endpointCalls) \in Seq({"transfer", "cancel"} \cup Outcomes)
         /\ Quiet(c.endpointCalls) =>
              Quiet(Tail(c.endpointCalls)) /\ Head(c.endpointCalls) = "cancel"
         /\ \A x : Driven(c.endpointCalls, x) =>
              \/ Head(c.endpointCalls) = "cancel" /\ Driven(Tail(c.endpointCalls), x)
              \/ Head(c.endpointCalls) = x /\ Quiet(Tail(c.endpointCalls))
  <1>1. c.endpointCalls \in Seq({"transfer", "cancel"} \cup Outcomes)
    BY DEF Chains
  <1> QED
    BY <1>1, FirstIsTaken

LEMMA TransferKeeps ==
  ASSUME chain \in [Slots -> Chains], NEW s \in Slots, ChainOK(chain[s]), Transfer(s)
  PROVE  \E d : chain' = [chain EXCEPT ![s] = d] /\ Moves(chain[s], d)
  <1> DEFINE b == chain[s]
             c == [b EXCEPT !.endpointCalls = Tail(@)]
             started == [c EXCEPT !.transfer = "submitted"]
             failed == [c EXCEPT !.queryCalls = Append(@, "error")]
  <1>1. /\ b \in Chains /\ ChainOK(b) /\ b.endpointCalls # <<>>
        /\ Head(b.endpointCalls) = "transfer"
        /\ \/ chain' = [chain EXCEPT ![s] = started]
           \/ chain' = [chain EXCEPT ![s] = failed]
    BY Zenon DEF Transfer
  <1> HIDE DEF b
  <1>2. "transfer" \notin Outcomes /\ "error" \in Outcomes /\ "error" # "ok"
    BY DEF Outcomes
  <1>3. /\ Tail(b.endpointCalls) \in Seq({"transfer", "cancel"} \cup Outcomes)
        /\ ~Quiet(b.endpointCalls)
        /\ \A x : Driven(b.endpointCalls, x) => x = "transfer" /\ Quiet(Tail(b.endpointCalls))
    BY <1>1, EndpointCall
  <1>4. /\ ToTransfer(b) /\ ~b.fault
        /\ b.outcome = "none" /\ b.promise = "set"
    BY <1>1, <1>2, <1>3, Zenon DEF ChainOK, ToStart, UnderWay, InTransfer, Transferred,
       ToEndQuery, QueryEnded, Over
  <1>5. Quiet(Tail(b.endpointCalls))
    BY <1>3, <1>4, Zenon DEF ToTransfer
  <1>6. /\ c \in Chains
        /\ c.endpointCalls = Tail(b.endpointCalls)
        /\ c.calls = b.calls /\ c.promise = b.promise /\ c.query = b.query
        /\ c.queryPromise = b.queryPromise /\ c.queryCalls = b.queryCalls
        /\ c.transfer = b.transfer
        /\ c.took = b.took /\ c.outcome = b.outcome /\ c.fault = b.fault
    BY <1>1, <1>3 DEF Chains
  <1> HIDE DEF c
  <1>7. Moves(b, started)
    <2>1. /\ started \in Chains
          /\ started.endpointCalls = c.endpointCalls
          /\ started.calls = c.calls /\ started.promise = c.promise
          /\ started.query = c.query
          /\ started.queryPromise = c.queryPromise /\ started.queryCalls = c.queryCalls
          /\ started.transfer = "submitted"
          /\ started.took = c.took /\ started.outcome = c.outcome /\ started.fault = c.fault
      BY <1>6 DEF Chains
    <2> HIDE DEF started
    <2>2. TookBefore(started)
      <3>1. TookBefore(b) /\ started.query = b.query /\ started.took = b.took
        BY <1>4, <1>6, <2>1, Zenon DEF ToTransfer
      <3> QED
        BY <3>1, Zenon DEF TookBefore, TookFirst
    <2>3. InTransfer(started)
      BY <1>4, <1>5, <1>6, <2>1, <2>2 DEF ToTransfer, InTransfer
    <2> QED
      BY <1>4, <1>6, <2>1, <2>3, Zenon DEF Moves, ChainOK, UnderWay
  <1>8. Moves(b, failed)
    <2>1. Append(c.queryCalls, "error") = <<"error">>
      BY <1>4, <1>6 DEF ToTransfer
    <2>2. <<"error">> \in Seq(Outcomes)
      BY <1>2
    <2>3. failed = [c EXCEPT !.queryCalls = <<"error">>]
      BY <2>1, Zenon
    <2>4. /\ failed \in Chains
          /\ failed.endpointCalls = c.endpointCalls
          /\ failed.calls = c.calls /\ failed.promise = c.promise
          /\ failed.query = c.query
          /\ failed.queryPromise = c.queryPromise /\ failed.queryCalls = <<"error">>
          /\ failed.transfer = c.transfer
          /\ failed.took = c.took /\ failed.outcome = c.outcome /\ failed.fault = c.fault
      BY <1>6, <2>2, <2>3 DEF Chains
    <2> HIDE DEF failed
    <2>5. TookAfter(failed, "error")
      <3>1. TookBefore(b) /\ failed.query = b.query /\ failed.took = b.took
        BY <1>4, <1>6, <2>4, Zenon DEF ToTransfer
      <3> QED
        BY <1>2, <3>1, Zenon DEF TookBefore, TookAfter, TookFirst
    <2>6. ToEndQuery(failed)
      BY <1>2, <1>4, <1>5, <1>6, <2>4, <2>5, Zenon DEF ToTransfer, ToEndQuery
    <2> QED
      BY <1>4, <1>6, <2>4, <2>6, Zenon DEF Moves, ChainOK, UnderWay
  <1> QED
    BY <1>1, <1>7, <1>8, Zenon DEF b

LEMMA CancelTransfersKeeps ==
  ASSUME chain \in [Slots -> Chains], NEW s \in Slots, ChainOK(chain[s]), CancelTransfers(s)
  PROVE  \E d : chain' = [chain EXCEPT ![s] = d] /\ Moves(chain[s], d)
  <1> DEFINE c == chain[s]
             d == [c EXCEPT
               !.endpointCalls = Tail(@),
               !.transfer = IF @ = "submitted" THEN "cancelled" ELSE @]
  <1>1. /\ c \in Chains /\ ChainOK(c) /\ c.endpointCalls # <<>>
        /\ Head(c.endpointCalls) = "cancel"
        /\ chain' = [chain EXCEPT ![s] = d]
    BY DEF CancelTransfers
  <1> HIDE DEF c
  <1>2. "cancel" \notin Outcomes
    BY DEF Outcomes
  <1>3. /\ Tail(c.endpointCalls) \in Seq({"transfer", "cancel"} \cup Outcomes)
        /\ Quiet(c.endpointCalls) => Quiet(Tail(c.endpointCalls))
        /\ \A x : Driven(c.endpointCalls, x) =>
              Driven(Tail(c.endpointCalls), x) \/ x = "cancel"
    BY <1>1, EndpointCall
  <1>4. d \in Chains
    BY <1>1, <1>3 DEF Chains
  <1>5. /\ d.endpointCalls = Tail(c.endpointCalls)
        /\ d.calls = c.calls /\ d.promise = c.promise /\ d.query = c.query
        /\ d.queryPromise = c.queryPromise /\ d.queryCalls = c.queryCalls
        /\ d.transfer = IF c.transfer = "submitted" THEN "cancelled" ELSE c.transfer
        /\ d.took = c.took /\ d.outcome = c.outcome /\ d.fault = c.fault
    BY <1>1 DEF Chains
  <1> HIDE DEF d
  <1>6. /\ c.transfer = "none" => d.transfer = "none"
        /\ c.transfer = "completed" => d.transfer = "completed"
        /\ c.transfer \in {"submitted", "cancelled"} => d.transfer \in {"submitted", "cancelled"}
    BY <1>5
  <1>7. ToStart(c) => ToStart(d)
    BY <1>3, <1>5, <1>6, Zenon DEF ToStart
  <1>8. /\ ToTransfer(c) => ToTransfer(d)
        /\ InTransfer(c) => InTransfer(d)
    BY <1>3, <1>5, <1>6, Zenon DEF ToTransfer, InTransfer, TookBefore, TookFirst
  <1>9. /\ Transferred(c) => Transferred(d)
        /\ ToEndQuery(c) => ToEndQuery(d)
        /\ QueryEnded(c) => QueryEnded(d)
    BY <1>2, <1>3, <1>5, <1>6, Zenon DEF Transferred, ToEndQuery, QueryEnded,
       TookAfter, TookFirst
  <1>10. Over(c) => Over(d)
    BY <1>3, <1>5, <1>6, Zenon DEF Over, TookFirst
  <1>11. Moves(c, d)
    BY <1>1, <1>4, <1>5, <1>7, <1>8, <1>9, <1>10, Zenon DEF Moves, ChainOK, UnderWay
  <1> QED
    BY <1>1, <1>11, Zenon DEF c

LEMMA TransferHandlerKeeps ==
  ASSUME chain \in [Slots -> Chains], NEW s \in Slots, ChainOK(chain[s]), TransferHandler(s)
  PROVE  \E d : chain' = [chain EXCEPT ![s] = d] /\ Moves(chain[s], d)
  <1> DEFINE c == chain[s]
             status == Head(c.endpointCalls)
             d == [c EXCEPT
               !.endpointCalls = Tail(@),
               !.transfer = "none",
               !.queryCalls = IF c.transfer = "none" THEN @ ELSE Append(@, status)]
  <1>1. /\ c \in Chains /\ ChainOK(c) /\ c.endpointCalls # <<>>
        /\ status \in Outcomes
        /\ chain' = [chain EXCEPT ![s] = d]
    BY DEF TransferHandler
  <1> HIDE DEF c
  <1>2. "cancel" \notin Outcomes /\ "transfer" \notin Outcomes
    BY DEF Outcomes
  <1>3. status # "cancel" /\ status # "transfer"
    BY <1>1, <1>2, Zenon
  <1>4. /\ Tail(c.endpointCalls) \in Seq({"transfer", "cancel"} \cup Outcomes)
        /\ ~Quiet(c.endpointCalls)
        /\ \A x : Driven(c.endpointCalls, x) => status = x /\ Quiet(Tail(c.endpointCalls))
    BY <1>1, <1>3, EndpointCall
  <1>5. /\ Transferred(c) /\ ~c.fault
        /\ c.outcome = "none" /\ c.promise = "set"
    BY <1>1, <1>3, <1>4, Zenon DEF ChainOK, ToStart, UnderWay, ToTransfer, InTransfer,
       ToEndQuery, QueryEnded, Over
  <1>6. Quiet(Tail(c.endpointCalls)) /\ TookAfter(c, status)
    BY <1>4, <1>5, Zenon DEF Transferred
  <1> HIDE DEF status
  <1>7. /\ (IF c.transfer = "none" THEN c.queryCalls ELSE Append(c.queryCalls, status))
             = <<status>>
        /\ <<status>> \in Seq(Outcomes)
    <2>1. c.transfer # "none" /\ c.queryCalls = <<>>
      BY <1>5 DEF Transferred
    <2>2. Append(<<>>, status) = <<status>> /\ <<status>> \in Seq(Outcomes)
      BY <1>1
    <2> QED
      BY <2>1, <2>2, Zenon
  <1>8. d = [c EXCEPT !.endpointCalls = Tail(c.endpointCalls), !.transfer = "none",
                      !.queryCalls = <<status>>]
    BY <1>7, Zenon DEF status
  <1>9. d \in Chains
    BY <1>1, <1>4, <1>7, <1>8 DEF Chains
  <1>10. /\ d.endpointCalls = Tail(c.endpointCalls)
         /\ d.calls = c.calls /\ d.promise = c.promise /\ d.query = c.query
         /\ d.queryPromise = c.queryPromise /\ d.queryCalls = <<status>>
         /\ d.transfer = "none"
         /\ d.took = c.took /\ d.outcome = c.outcome /\ d.fault = c.fault
    BY <1>1, <1>8 DEF Chains
  <1> HIDE DEF d
  <1>11. TookAfter(d, status)
    BY <1>6, <1>10, Zenon DEF TookAfter, TookFirst
  <1>12. ToEndQuery(d)
    BY <1>1, <1>5, <1>6, <1>10, <1>11, Zenon DEF ToEndQuery, Transferred
  <1>13. Moves(c, d)
    BY <1>5, <1>9, <1>10, <1>12, Zenon DEF Moves, ChainOK, UnderWay
  <1> QED
    BY <1>1, <1>13, Zenon DEF c

\* One more query is carried out.
LEMMA OneMore ==
  ASSUME NEW q \in 1..8
  PROVE  /\ Append([i \in 1..q - 1 |-> i], q) = [i \in 1..q |-> i]
         /\ [i \in 1..q |-> i] \in Seq(1..8)
         /\ [i \in 1..q - 1 |-> i] \in Seq(1..8)
  <1> DEFINE t == [i \in 1..q - 1 |-> i]
             u == Append(t, q)
  <1>1. q - 1 \in Nat /\ q \in Nat
    OBVIOUS
  <1>2. t \in Seq(1..8) /\ Len(t) = q - 1
    BY <1>1
  <1>3. [i \in 1..q |-> i] \in Seq(1..8)
    BY <1>1
  <1>4. DOMAIN u = 1..q /\ u \in Seq(1..8)
    BY <1>1, <1>2
  <1>5. \A i \in 1..q : u[i] = i
    BY <1>1, <1>2
  <1>6. u = [i \in 1..q |-> u[i]]
    BY <1>4
  <1> QED
    BY <1>2, <1>3, <1>5, <1>6

\* The phone carries out the query that is being transferred, or does not.
LEMMA LibusbCompletesKeeps ==
  ASSUME chain \in [Slots -> Chains], NEW s \in Slots, ChainOK(chain[s]), LibusbCompletes(s)
  PROVE  \E d : chain' = [chain EXCEPT ![s] = d] /\ Moves(chain[s], d)
  <1> DEFINE c == chain[s]
  <1>1. /\ c \in Chains /\ ChainOK(c) /\ c.transfer \in {"submitted", "cancelled"}
        /\ \E status \in Outcomes :
             /\ status = "aborted" => c.transfer = "cancelled"
             /\ \E took \in {Append(c.took, c.query)}
                             \cup IF status = "ok" THEN {} ELSE {c.took} :
                  chain' = [chain EXCEPT ![s] =
                      [c EXCEPT !.transfer = "completed", !.took = took,
                                !.endpointCalls = Append(@, status)]]
    BY Zenon DEF LibusbCompletes
  <1>2. PICK status \in Outcomes :
             \E took \in {Append(c.took, c.query)}
                             \cup IF status = "ok" THEN {} ELSE {c.took} :
                  chain' = [chain EXCEPT ![s] =
                      [c EXCEPT !.transfer = "completed", !.took = took,
                                !.endpointCalls = Append(@, status)]]
    BY <1>1, Zenon
  <1>3. PICK took \in {Append(c.took, c.query)}
                             \cup IF status = "ok" THEN {} ELSE {c.took} :
                  chain' = [chain EXCEPT ![s] =
                      [c EXCEPT !.transfer = "completed", !.took = took,
                                !.endpointCalls = Append(@, status)]]
    BY <1>2, Zenon
  <1> DEFINE d == [c EXCEPT !.transfer = "completed", !.took = took,
                            !.endpointCalls = Append(@, status)]
  <1> HIDE DEF c
  <1>4. /\ InTransfer(c) /\ ~c.fault
        /\ c.outcome = "none" /\ c.promise = "set"
    <2>1. c.transfer # "none" /\ c.transfer # "completed"
      BY <1>1
    <2> QED
      BY <1>1, <2>1, Zenon DEF ChainOK, ToStart, UnderWay, ToTransfer, Transferred,
         ToEndQuery, QueryEnded, Over
  <1>5. c.query \in 1..8 /\ c.took = [i \in 1..c.query - 1 |-> i]
    BY <1>4, EightQueries DEF InTransfer, TookBefore, TookFirst
  <1>6. /\ Append(c.took, c.query) = [i \in 1..c.query |-> i]
        /\ Append(c.took, c.query) \in Seq(1..8) /\ c.took \in Seq(1..8)
    <2>1. PICK q \in 1..8 : q = c.query
      BY <1>5
    <2>2. c.took = [i \in 1..q - 1 |-> i]
      BY <1>5, <2>1, Zenon
    <2>3. /\ Append([i \in 1..q - 1 |-> i], q) = [i \in 1..q |-> i]
          /\ [i \in 1..q |-> i] \in Seq(1..8)
          /\ [i \in 1..q - 1 |-> i] \in Seq(1..8)
      BY OneMore
    <2>4. Append(c.took, q) = [i \in 1..q |-> i]
      BY <2>2, <2>3, Zenon
    <2>5. Append(c.took, q) \in Seq(1..8) /\ c.took \in Seq(1..8)
      BY <2>2, <2>3, <2>4, Zenon
    <2> QED
      BY <2>1, <2>4, <2>5, Zenon
  <1>7. /\ took \in Seq(1..8)
        /\ \/ took = [i \in 1..c.query |-> i]
           \/ status # "ok" /\ took = [i \in 1..c.query - 1 |-> i]
    BY <1>3, <1>5, <1>6
  <1>8. c.endpointCalls \in Seq({"transfer", "cancel"} \cup Outcomes)
    BY <1>1 DEF Chains
  <1>9. /\ Append(c.endpointCalls, status) \in Seq({"transfer", "cancel"} \cup Outcomes)
        /\ Driven(Append(c.endpointCalls, status), status)
    BY <1>4, <1>8, DriverArrives DEF InTransfer
  <1>10. d \in Chains
    BY <1>1, <1>7, <1>9, EightQueries DEF Chains
  <1>11. /\ d.endpointCalls = Append(c.endpointCalls, status)
         /\ d.calls = c.calls /\ d.promise = c.promise /\ d.query = c.query
         /\ d.queryPromise = c.queryPromise /\ d.queryCalls = c.queryCalls
         /\ d.transfer = "completed"
         /\ d.took = took /\ d.outcome = c.outcome /\ d.fault = c.fault
    BY <1>1 DEF Chains
  <1> HIDE DEF d
  <1>12. TookAfter(d, status)
    BY <1>5, <1>7, <1>11, EightQueries DEF TookAfter, TookFirst
  <1>13. Transferred(d)
    BY <1>4, <1>9, <1>11, <1>12, Zenon DEF InTransfer, Transferred
  <1>14. Moves(c, d)
    BY <1>4, <1>10, <1>11, <1>13, Zenon DEF Moves, ChainOK, UnderWay
  <1> QED
    BY <1>3, <1>14, Zenon DEF c, d

LEMMA ChainStepKeeps ==
  ASSUME chain \in [Slots -> Chains], NEW s \in Slots, ChainOK(chain[s]), ChainStep(s)
  PROVE  \E d : chain' = [chain EXCEPT ![s] = d] /\ Moves(chain[s], d)
  <1>1. CASE ChainCall(s)
    BY <1>1, ChainCallKeeps
  <1>2. CASE QueryEnds(s)
    BY <1>2, QueryEndsKeeps
  <1>3. CASE Transfer(s)
    BY <1>3, TransferKeeps
  <1>4. CASE CancelTransfers(s)
    BY <1>4, CancelTransfersKeeps
  <1>5. CASE TransferHandler(s)
    BY <1>5, TransferHandlerKeeps
  <1>6. CASE LibusbCompletes(s)
    BY <1>6, LibusbCompletesKeeps
  <1> QED
    BY <1>1, <1>2, <1>3, <1>4, <1>5, <1>6 DEF ChainStep

-----------------------------------------------------------------------------
(* The steps of the whole.                                                 *)

LEMMA NewChains ==
  /\ NoChain \in Chains /\ ChainOK(NoChain)
  /\ Started \in Chains /\ ChainOK(Started)
  /\ NoChain.outcome = "unused" /\ Started.outcome = "none"
  <1>1. <<"start">> \in Seq({"start", "cancel"} \cup Outcomes) /\ <<>> \in Seq(1..Len(Queries))
    BY EightQueries
  <1>2. NoChain \in Chains
    BY <1>1, EightQueries DEF NoChain, Chains
  <1>3. Started \in Chains
    BY <1>1, <1>2 DEF Started, NoChain, Chains
  <1>4. /\ NoChain.calls = <<>> /\ NoChain.queryCalls = <<>> /\ NoChain.endpointCalls = <<>>
        /\ NoChain.transfer = "none" /\ NoChain.took = <<>> /\ NoChain.outcome = "unused"
        /\ NoChain.fault = FALSE
    BY DEF NoChain
  <1>5. /\ Started.calls = <<"start">>
        /\ Started.queryCalls = <<>> /\ Started.endpointCalls = <<>>
        /\ Started.transfer = "none" /\ Started.took = <<>> /\ Started.outcome = "none"
        /\ Started.fault = FALSE
    BY DEF Started, NoChain
  <1>6. 0 \in 0..Len(Queries) /\ TookFirst(NoChain, 0)
    BY <1>4, EightQueries DEF TookFirst
  <1>7. Over(NoChain)
    BY <1>4, <1>6, QuietEmpty DEF Over
  <1>8. Driven(<<"start">>, "start") /\ <<"start">> # <<>> /\ Head(<<"start">>) = "start"
    BY DEF Driven
  <1>9. ToStart(Started)
    BY <1>5, <1>8, QuietEmpty DEF ToStart
  <1> QED
    BY <1>2, <1>3, <1>4, <1>5, <1>7, <1>9 DEF ChainOK

ChainsOK == chain \in [Slots -> Chains] /\ \A s \in Slots : ChainOK(chain[s])

\* One chain is replaced by one that is well.
LEMMA ChainReplaced ==
  ASSUME ChainsOK, NEW s \in Slots, NEW d, d \in Chains, ChainOK(d),
         chain' = [chain EXCEPT ![s] = d]
  PROVE  /\ ChainsOK'
         /\ chain'[s] = d
         /\ \A t \in Slots \ {s} : chain'[t] = chain[t]
  <1>1. /\ chain' \in [Slots -> Chains]
        /\ chain'[s] = d
        /\ \A t \in Slots \ {s} : chain'[t] = chain[t]
    BY DEF ChainsOK
  <1>2. \A t \in Slots : ChainOK(chain'[t])
    BY <1>1 DEF ChainsOK
  <1> QED
    BY <1>1, <1>2, Zenon DEF ChainsOK

LEMMA CancelChainsKeeps ==
  ASSUME ChainsOK, QueueOK, queued' = queued, NEW S, CancelChains(S)
  PROVE  ChainsOK' /\ QueueOK'
  <1>1. chain' = [s \in Slots |->
          IF s \in S THEN [chain[s] EXCEPT !.calls = Append(@, "cancel")] ELSE chain[s]]
    BY DEF CancelChains
  <1>2. ASSUME NEW s \in Slots
        PROVE  /\ chain'[s] \in Chains /\ ChainOK(chain'[s])
               /\ chain'[s].outcome = chain[s].outcome
    <2>1. chain[s] \in Chains /\ ChainOK(chain[s])
      BY DEF ChainsOK
    <2>2. Moves(chain[s], [chain[s] EXCEPT !.calls = Append(@, "cancel")])
      BY <2>1, CancelIsCalled
    <2>3. [chain[s] EXCEPT !.calls = Append(@, "cancel")].outcome = chain[s].outcome
      BY <2>1 DEF Chains
    <2> QED
      BY <1>1, <2>1, <2>2, <2>3 DEF Moves
  <1>3. ChainsOK'
    BY <1>1, <1>2 DEF ChainsOK
  <1>4. QueueOK'
    BY <1>2 DEF QueueOK, HubSlots
  <1> QED
    BY <1>3, <1>4

\* A step of one chain.
LEMMA ChainWorksKeeps ==
  ASSUME ChainsOK, QueueOK, ChainWorks
  PROVE  ChainsOK' /\ QueueOK'
  <1>1. PICK s \in Slots : ChainStep(s)
    BY DEF ChainWorks
  <1>2. PICK d : chain' = [chain EXCEPT ![s] = d] /\ Moves(chain[s], d)
    BY <1>1, ChainStepKeeps DEF ChainsOK
  <1>3. /\ ChainsOK' /\ chain'[s] = d
        /\ \A t \in Slots \ {s} : chain'[t] = chain[t]
    BY <1>2, ChainReplaced DEF Moves
  <1>4. d.outcome # "unused" <=> chain[s].outcome # "unused"
    BY <1>2 DEF Moves, Outcomes
  <1>5. queued' = queued
    BY DEF ChainWorks
  <1>6. QueueOK'
    BY <1>3, <1>4, <1>5 DEF QueueOK, HubSlots
  <1> QED
    BY <1>3, <1>6

\* The enumerator's chain is replaced; the hub's are as they were.
LEMMA EnumeratorReplaces ==
  ASSUME ChainsOK, QueueOK, queued' = queued, NEW d, d \in {NoChain, Started},
         chain' = [chain EXCEPT !["enumerator"] = d]
  PROVE  ChainsOK' /\ QueueOK'
  <1>1. "enumerator" \in Slots
    BY SlotsAssumption
  <1>2. /\ ChainsOK'
        /\ \A t \in Slots \ {"enumerator"} : chain'[t] = chain[t]
    <2>1. d \in Chains /\ ChainOK(d)
      BY NewChains
    <2> QED
      BY <1>1, <2>1, ChainReplaced
  <1>3. QueueOK'
    BY <1>2 DEF QueueOK, HubSlots
  <1> QED
    BY <1>2, <1>3

LEMMA Unchanged ==
  ASSUME ChainsOK, QueueOK, queued' = queued, chain' = chain
  PROVE  ChainsOK' /\ QueueOK'
  BY DEF ChainsOK, QueueOK, HubSlots, ChainOK

\* What the enumerator's strand does to the chains.
LEMMA EnumeratorCallKeeps ==
  ASSUME ChainsOK, QueueOK, EnumeratorCall
  PROVE  ChainsOK' /\ QueueOK'
  <1>1. queued' = queued
    BY DEF EnumeratorCall
  <1>2. ASSUME NEW n, QueryNextDevice(n)
        PROVE  ChainsOK' /\ QueueOK'
    <2>1. chain' = [chain EXCEPT !["enumerator"] = Started] \/ chain' = chain
      BY <1>2, Zenon DEF QueryNextDevice
    <2> QED
      BY <1>1, <2>1, EnumeratorReplaces, Unchanged
  <1>3. ASSUME Enumerate
        PROVE  ChainsOK' /\ QueueOK'
    <2>1. chain' = chain \/ \E n \in 1..MaxListed : QueryNextDevice(n)
      BY <1>3, Zenon DEF Enumerate
    <2> QED
      BY <1>1, <1>2, <2>1, Unchanged, Zenon
  <1>4. ASSUME CancelEnumerator
        PROVE  ChainsOK' /\ QueueOK'
    BY <1>1, <1>4, CancelChainsKeeps, Zenon DEF CancelEnumerator
  <1>5. ASSUME NEW outcome, ChainOutcome(outcome)
        PROVE  ChainsOK' /\ QueueOK'
    <2>1. chain' = chain \/ QueryNextDevice(devices)
      BY <1>5, Zenon DEF ChainOutcome
    <2> QED
      BY <1>1, <1>2, <2>1, Unchanged, Zenon
  <1>6. \/ Enumerate \/ CancelEnumerator \/ ChainOutcome(Head(calls))
    BY Zenon DEF EnumeratorCall
  <1> QED
    BY <1>3, <1>4, <1>5, <1>6, Zenon

\* The hub erases a chain that it holds.
LEMMA HubChainReportsKeeps ==
  ASSUME ChainsOK, QueueOK, NEW s \in HubSlots, HubChainReports(s)
  PROVE  ChainsOK' /\ QueueOK'
  <1>1. /\ chain[s].outcome \in Outcomes /\ s \in Slots
        /\ chain' = [chain EXCEPT ![s] = [NoChain EXCEPT !.fault = s \notin queued]]
        /\ queued' = queued \ {s}
    BY Zenon DEF HubChainReports, HubSlots
  <1>2. s \in queued
    BY <1>1 DEF QueueOK, Outcomes
  <1>3. [NoChain EXCEPT !.fault = s \notin queued] = NoChain
    <2>1. (s \notin queued) = FALSE
      BY <1>2, Zenon
    <2>2. NoChain \in Chains /\ NoChain.fault = FALSE
      BY NewChains DEF NoChain
    <2>3. [NoChain EXCEPT !.fault = FALSE] = NoChain
      BY <2>2 DEF Chains
    <2> QED
      BY <2>1, <2>3, Zenon
  <1>4. chain' = [chain EXCEPT ![s] = NoChain]
    BY <1>1, <1>3, Zenon
  <1>5. /\ ChainsOK' /\ chain'[s] = NoChain
        /\ \A t \in Slots \ {s} : chain'[t] = chain[t]
    BY <1>1, <1>4, NewChains, ChainReplaced
  <1>6. QueueOK'
    BY <1>1, <1>5, NewChains DEF QueueOK, HubSlots
  <1> QED
    BY <1>5, <1>6

LEMMA HandleDeviceKeeps ==
  ASSUME ChainsOK, QueueOK, NEW s \in HubSlots, HandleDevice(s)
  PROVE  ChainsOK' /\ QueueOK'
  <1>1. /\ s \in Slots
        /\ chain' = [chain EXCEPT ![s] = Started]
        /\ queued' = queued \cup {s}
    BY Zenon DEF HandleDevice, HubSlots
  <1>2. /\ ChainsOK' /\ chain'[s] = Started
        /\ \A t \in Slots \ {s} : chain'[t] = chain[t]
    BY <1>1, NewChains, ChainReplaced
  <1>3. QueueOK'
    BY <1>1, <1>2, NewChains DEF QueueOK, HubSlots
  <1> QED
    BY <1>2, <1>3

-----------------------------------------------------------------------------
IInv == ChainsOK /\ QueueOK

LEMMA NextInv ==
  ASSUME IInv, [Next]_vars
  PROVE  IInv'
  <1> USE DEF IInv
  <1>1. CASE ChainWorks
    BY <1>1, ChainWorksKeeps
  <1>2. CASE EnumeratorCall
    BY <1>2, EnumeratorCallKeeps
  <1>3. CASE EnumeratorChainReports
    <2>1. chain' = [chain EXCEPT !["enumerator"] = NoChain] /\ queued' = queued
      BY <1>3, Zenon DEF EnumeratorChainReports
    <2> QED
      BY <2>1, EnumeratorReplaces
  <1>4. CASE \E s \in HubSlots : HubChainReports(s)
    BY <1>4, HubChainReportsKeeps
  <1>5. CASE \E s \in HubSlots : HandleDevice(s)
    BY <1>5, HandleDeviceKeeps
  <1>6. CASE AppEnumerates
    <2>1. chain' = chain /\ queued' = queued
      BY <1>6, Zenon DEF AppEnumerates
    <2> QED
      BY <2>1, Unchanged
  <1>7. CASE AppCancels
    <2>1. queued' = queued /\ (CancelChains({}) \/ CancelChains(queued))
      BY <1>7, Zenon DEF AppCancels
    <2> QED
      BY <2>1, CancelChainsKeeps
  <1>8. CASE UNCHANGED vars
    <2>1. chain' = chain /\ queued' = queued
      BY <1>8 DEF vars
    <2> QED
      BY <2>1, Unchanged
  <1> QED
    BY <1>1, <1>2, <1>3, <1>4, <1>5, <1>6, <1>7, <1>8, Zenon DEF Next, OwnerWorks

(***************************************************************************)
(* Every chain is at one of the places of ChainOK, and the hub holds those *)
(* it has started and not erased.                                          *)
(***************************************************************************)
THEOREM Invariance == Spec => []IInv
<1>1. Init => IInv
  <2>1. ASSUME Init
        PROVE  IInv
    <3>1. chain = [s \in Slots |-> NoChain] /\ queued = {}
      BY <2>1 DEF Init
    <3> QED
      BY <3>1, NewChains DEF IInv, ChainsOK, QueueOK, HubSlots
  <2> QED
    BY <2>1
<1>2. IInv /\ [Next]_vars => IInv'
  BY NextInv
<1> QED
  BY <1>1, <1>2, PTL DEF Spec

\* Whoever waits on the strands of a chain, one drives it on until it is over.
LEMMA OneDriver ==
  ASSUME NEW c \in Chains, ChainOK(c)
  PROVE  Driving(c) = IF c.outcome = "none" THEN 1 ELSE 0
  <1>1. /\ c.calls \in Seq({"start", "cancel"} \cup Outcomes)
        /\ c.queryCalls \in Seq(Outcomes)
        /\ c.endpointCalls \in Seq({"transfer", "cancel"} \cup Outcomes)
    BY DEF Chains
  <1>2. \A x \in Outcomes : x # "cancel"
    BY DEF Outcomes
  <1> DEFINE a == Drivers(c.calls)
             b == Drivers(c.queryCalls)
             e == Drivers(c.endpointCalls)
             f == IF c.transfer \in {"submitted", "cancelled"} THEN 1 ELSE 0
  <1>3. /\ Quiet(c.calls) => a = 0
        /\ \A x : x # "cancel" /\ Driven(c.calls, x) => a = 1
    BY <1>1, Counted
  <1>4. /\ Quiet(c.endpointCalls) => e = 0
        /\ \A x : x # "cancel" /\ Driven(c.endpointCalls, x) => e = 1
    BY <1>1, Counted
  <1>5. /\ c.queryCalls = <<>> => b = 0
        /\ \A x \in Outcomes : c.queryCalls = <<x>> => b = 1
    <2>1. ASSUME c.queryCalls = <<>>
          PROVE  b = 0
      BY <1>1, <2>1, QuietEmpty, Counted
    <2>2. ASSUME NEW x \in Outcomes, c.queryCalls = <<x>>
          PROVE  b = 1
      <3>1. Driven(<<x>>, x)
        BY DEF Driven
      <3> QED
        BY <1>1, <1>2, <2>2, <3>1, Counted
    <2> QED
      BY <2>1, <2>2
  <1>6. Driving(c) = a + b + e + f
    BY DEF Driving
  <1> HIDE DEF a, b, e
  <1>7. CASE ToStart(c)
    <2>1. c.outcome = "none" /\ a = 1 /\ b = 0 /\ e = 0 /\ f = 0
      BY <1>3, <1>4, <1>5, <1>7 DEF ToStart
    <2> QED
      BY <1>6, <2>1
  <1>8. CASE UnderWay(c)
    <2>1. c.outcome = "none"
      BY <1>8 DEF UnderWay
    <2>2. CASE ToTransfer(c)
      <3>1. a = 0 /\ b = 0 /\ e = 1 /\ f = 0
        BY <1>3, <1>4, <1>5, <2>2 DEF ToTransfer
      <3> QED
        BY <1>6, <2>1, <3>1
    <2>3. CASE InTransfer(c)
      <3>1. a = 0 /\ b = 0 /\ e = 0 /\ f = 1
        BY <1>3, <1>4, <1>5, <2>3 DEF InTransfer
      <3> QED
        BY <1>6, <2>1, <3>1
    <2>4. CASE Transferred(c)
      <3>1. a = 0 /\ b = 0 /\ e = 1 /\ f = 0
        BY <1>2, <1>3, <1>4, <1>5, <2>4 DEF Transferred
      <3> QED
        BY <1>6, <2>1, <3>1
    <2>5. CASE ToEndQuery(c)
      <3>1. a = 0 /\ b = 1 /\ e = 0 /\ f = 0
        BY <1>3, <1>4, <1>5, <2>5 DEF ToEndQuery
      <3> QED
        BY <1>6, <2>1, <3>1
    <2>6. CASE QueryEnded(c)
      <3>1. a = 1 /\ b = 0 /\ e = 0 /\ f = 0
        BY <1>2, <1>3, <1>4, <1>5, <2>6 DEF QueryEnded
      <3> QED
        BY <1>6, <2>1, <3>1
    <2> QED
      BY <1>8, <2>2, <2>3, <2>4, <2>5, <2>6, Zenon DEF UnderWay
  <1>9. CASE Over(c)
    <2>1. c.outcome # "none" /\ a = 0 /\ b = 0 /\ e = 0 /\ f = 0
      BY <1>3, <1>4, <1>5, <1>9 DEF Over
    <2> QED
      BY <1>6, <2>1
  <1> QED
    BY <1>7, <1>8, <1>9, Zenon DEF ChainOK

(***************************************************************************)
(* Until a chain has an outcome it keeps its promise and exactly one call  *)
(* or transfer drives it, whenever a cancel arrives and whichever step     *)
(* fails (AccessoryModeQueryChain.cpp:33-187, USBEndpoint.cpp:81-147).     *)
(***************************************************************************)
THEOREM OneDrivesAChain == Spec => []OneStepAtATime
<1>1. ASSUME IInv
      PROVE  OneStepAtATime
  <2>1. ASSUME NEW s \in Slots
        PROVE  LET c == chain[s]
               IN  /\ Driving(c) = IF c.outcome = "none" THEN 1 ELSE 0
                   /\ c.outcome = "none" /\ c.promise = "null"
                        => c.calls # <<>> /\ Head(c.calls) = "start"
                   /\ ~c.fault
    <3> DEFINE c == chain[s]
    <3>1. c \in Chains /\ ChainOK(c)
      BY <1>1 DEF IInv, ChainsOK
    <3> HIDE DEF c
    <3>2. Driving(c) = IF c.outcome = "none" THEN 1 ELSE 0
      BY <3>1, OneDriver
    <3>3. c.outcome = "none" /\ c.promise = "null" => c.calls # <<>> /\ Head(c.calls) = "start"
      BY <3>1 DEF ChainOK, ToStart, UnderWay, Over
    <3>4. ~c.fault
      BY <3>1 DEF ChainOK
    <3> QED
      BY <3>2, <3>3, <3>4, Zenon DEF c
  <2> QED
    BY <2>1, Zenon DEF OneStepAtATime
<1> QED
  BY <1>1, Invariance, PTL

(***************************************************************************)
(* A phone is told to start accessory mode only by a chain whose every     *)
(* earlier query it carried out, each once and in order                    *)
(* (AccessoryModeQueryChain.cpp:78-187).                                   *)
(***************************************************************************)
THEOREM PhonesAreSwitchedInOrder == Spec => []SwitchedInOrder
<1>1. ASSUME IInv
      PROVE  SwitchedInOrder
  <2>1. ASSUME NEW s \in Slots
        PROVE  \E k \in 0..8 : chain[s].took = [i \in 1..k |-> i]
    <3> DEFINE c == chain[s]
    <3>1. c \in Chains /\ ChainOK(c)
      BY <1>1 DEF IInv, ChainsOK
    <3> HIDE DEF c
    <3>2. CASE ToStart(c)
      <4>1. c.took = [i \in 1..0 |-> i]
        BY <3>2 DEF ToStart
      <4>2. 0 \in 0..8
        OBVIOUS
      <4> QED
        BY <4>1, <4>2, Zenon DEF c
    <3>3. CASE UnderWay(c)
      <4>1. c.query \in 1..8 /\ (TookFirst(c, c.query) \/ TookFirst(c, c.query - 1))
        BY <3>3, EightQueries DEF UnderWay, ToTransfer, InTransfer, Transferred,
           ToEndQuery, QueryEnded, TookBefore, TookAfter
      <4>2. c.query \in 0..8 /\ c.query - 1 \in 0..8
        BY <4>1
      <4> QED
        BY <4>1, <4>2, Zenon DEF c, TookFirst
    <3>4. CASE Over(c)
      BY <3>4, EightQueries, Zenon DEF Over, TookFirst, c
    <3> QED
      BY <3>1, <3>2, <3>3, <3>4, Zenon DEF ChainOK
  <2>2. ASSUME NEW s \in Slots,
               Len(Queries) \in {chain[s].took[i] : i \in 1..Len(chain[s].took)}
        PROVE  chain[s].took = [i \in 1..Len(Queries) |-> i]
    <3> DEFINE took == chain[s].took
    <3>1. PICK k \in 0..8 : took = [i \in 1..k |-> i]
      BY <2>1, Zenon
    <3> HIDE DEF took
    <3>2. 8 \in {took[i] : i \in 1..Len(took)}
      BY <2>2, EightQueries DEF took
    <3>3. DOMAIN took = 1..k /\ took \in Seq(Nat) /\ Len(took) = k
      BY <3>1
    <3>4. k = 8
      BY <3>1, <3>2, <3>3
    <3>5. took = [i \in 1..8 |-> i]
      BY <3>1, <3>4
    <3> QED
      BY <3>5, EightQueries DEF took
  <2> QED
    BY <2>2, Zenon DEF SwitchedInOrder
<1> QED
  BY <1>1, Invariance, PTL

-----------------------------------------------------------------------------
(* The types of what is not a chain.                                       *)

Calls == {"enumerate", "cancel"} \cup Outcomes
Results == {"inProgress", "error", "false", "true", "aborted"}

EnumeratorTypes ==
    /\ promise \in {"null", "set", "settled"}
    /\ devices \in 0..MaxListed
    /\ results \in Seq(Results)

OtherTypes ==
    /\ asked \in 0..MaxEnumerates
    /\ plugged \in 0..MaxPlugged
    /\ queued \subseteq HubSlots
    /\ cancels \in 0..MaxCancels

Types == calls \in Seq(Calls) /\ EnumeratorTypes /\ OtherTypes

LEMMA QueryNextDeviceTypes ==
  ASSUME EnumeratorTypes, NEW n \in 0..MaxListed, QueryNextDevice(n)
  PROVE  EnumeratorTypes'
  <1>1. CASE Finish("false")
    <2>1. promise' = "null" /\ devices' = 0 /\ results' = Append(results, "false")
      BY <1>1 DEF Finish
    <2>2. Append(results, "false") \in Seq(Results)
      BY DEF EnumeratorTypes, Results
    <2> QED
      BY <2>1, <2>2, BoundsAssumption DEF EnumeratorTypes
  <1>2. CASE \E left \in 0..n :
               left < n /\ promise' = "set" /\ devices' = left /\ UNCHANGED results
    BY <1>2, BoundsAssumption DEF EnumeratorTypes
  <1> QED
    BY <1>1, <1>2, Zenon DEF QueryNextDevice

LEMMA EnumeratorCallTypes ==
  ASSUME Types, EnumeratorCall
  PROVE  Types'
  <1>1. calls \in Seq(Calls) /\ EnumeratorTypes /\ OtherTypes
    BY DEF Types
  <1>2. /\ calls # <<>> /\ calls' = Tail(calls)
        /\ UNCHANGED <<asked, plugged, queued, cancels>>
        /\ Enumerate \/ CancelEnumerator \/ ChainOutcome(Head(calls))
    BY Zenon DEF EnumeratorCall
  <1>3. calls' \in Seq(Calls)
    BY <1>1, <1>2
  <1>4. OtherTypes'
    BY <1>1, <1>2 DEF OtherTypes, HubSlots
  <1>5. CASE Enumerate
    <2>1. CASE promise # "null"
      <3>1. promise' = promise /\ devices' = devices /\ results' = Append(results, "inProgress")
        BY <1>5, <2>1, Zenon DEF Enumerate
      <3>2. Append(results, "inProgress") \in Seq(Results)
        BY <1>1 DEF EnumeratorTypes, Results
      <3>3. EnumeratorTypes'
        BY <1>1, <3>1, <3>2 DEF EnumeratorTypes
      <3> QED
        BY <1>3, <1>4, <3>3 DEF Types
    <2>2. CASE \E n \in 1..MaxListed : QueryNextDevice(n)
      <3>1. PICK n \in 1..MaxListed : QueryNextDevice(n)
        BY <2>2
      <3>2. n \in 0..MaxListed
        BY BoundsAssumption
      <3>3. EnumeratorTypes'
        BY <1>1, <3>1, <3>2, QueryNextDeviceTypes
      <3> QED
        BY <1>3, <1>4, <3>3 DEF Types
    <2>3. CASE /\ promise' = "settled"
               /\ \E result \in {"error", "false"} : results' = Append(results, result)
               /\ UNCHANGED <<chain, devices>>
      <3>1. EnumeratorTypes'
        BY <1>1, <2>3 DEF EnumeratorTypes, Results
      <3> QED
        BY <1>3, <1>4, <3>1 DEF Types
    <2> QED
      BY <1>5, <2>1, <2>2, <2>3, Zenon DEF Enumerate
  <1>6. CASE CancelEnumerator
    <2>1. EnumeratorTypes'
      BY <1>1, <1>6, Zenon DEF CancelEnumerator, EnumeratorTypes
    <2> QED
      BY <1>3, <1>4, <2>1 DEF Types
  <1>7. CASE ChainOutcome(Head(calls))
    <2>1. Finish("true") \/ Finish("aborted") \/ QueryNextDevice(devices)
      BY <1>7, Zenon DEF ChainOutcome
    <2>2. ASSUME NEW result \in {"true", "aborted"}, Finish(result)
          PROVE  EnumeratorTypes'
      <3>1. promise' = "null" /\ devices' = 0 /\ results' = Append(results, result)
        BY <2>2 DEF Finish
      <3>2. Append(results, result) \in Seq(Results)
        BY <1>1 DEF EnumeratorTypes, Results
      <3> QED
        BY <3>1, <3>2, BoundsAssumption DEF EnumeratorTypes
    <2>3. devices \in 0..MaxListed
      BY <1>1 DEF EnumeratorTypes
    <2>4. EnumeratorTypes'
      BY <1>1, <2>1, <2>2, <2>3, QueryNextDeviceTypes
    <2> QED
      BY <1>3, <1>4, <2>4 DEF Types
  <1> QED
    BY <1>2, <1>5, <1>6, <1>7

LEMMA TypesNext ==
  ASSUME Types, [Next]_vars
  PROVE  Types'
  <1> USE BoundsAssumption
  <1>0. calls \in Seq(Calls) /\ EnumeratorTypes /\ OtherTypes
    BY DEF Types
  <1>1. CASE ChainWorks
    BY <1>0, <1>1 DEF ChainWorks, Types, EnumeratorTypes, OtherTypes, enumeratorVars, HubSlots
  <1>2. CASE EnumeratorCall
    BY <1>2, EnumeratorCallTypes
  <1>3. CASE EnumeratorChainReports
    <2>1. PICK outcome \in Outcomes : calls' = Append(calls, outcome)
      BY <1>3, Zenon DEF EnumeratorChainReports
    <2>2. UNCHANGED <<promise, devices, results, asked, plugged, queued, cancels>>
      BY <1>3, Zenon DEF EnumeratorChainReports
    <2>3. Append(calls, outcome) \in Seq(Calls)
      BY <1>0 DEF Calls
    <2> QED
      BY <1>0, <2>1, <2>2, <2>3 DEF Types, EnumeratorTypes, OtherTypes, HubSlots
  <1>4. CASE \E s \in HubSlots : HubChainReports(s)
    <2>1. PICK s \in HubSlots : queued' = queued \ {s}
      BY <1>4, Zenon DEF HubChainReports
    <2>2. UNCHANGED <<calls, promise, devices, results, asked, plugged, cancels>>
      BY <1>4 DEF HubChainReports, enumeratorVars
    <2> QED
      BY <1>0, <2>1, <2>2 DEF Types, EnumeratorTypes, OtherTypes, HubSlots
  <1>5. CASE \E s \in HubSlots : HandleDevice(s)
    <2>1. PICK s \in HubSlots : queued' = queued \cup {s}
      BY <1>5, Zenon DEF HandleDevice
    <2>2. /\ plugged < MaxPlugged /\ plugged' = plugged + 1
          /\ UNCHANGED <<calls, promise, devices, results, asked, cancels>>
      BY <1>5 DEF HandleDevice, enumeratorVars
    <2> QED
      BY <1>0, <2>1, <2>2 DEF Types, EnumeratorTypes, OtherTypes, HubSlots
  <1>6. CASE AppEnumerates
    <2>1. /\ asked < MaxEnumerates /\ asked' = asked + 1
          /\ calls' = Append(calls, "enumerate")
          /\ UNCHANGED <<promise, devices, results, plugged, queued, cancels>>
      BY <1>6 DEF AppEnumerates
    <2>2. Append(calls, "enumerate") \in Seq(Calls)
      BY <1>0 DEF Calls
    <2> QED
      BY <1>0, <2>1, <2>2 DEF Types, EnumeratorTypes, OtherTypes, HubSlots
  <1>7. CASE AppCancels
    <2>1. /\ cancels < MaxCancels /\ cancels' = cancels + 1
          /\ calls' = Append(calls, "cancel")
          /\ UNCHANGED <<promise, devices, results, asked, plugged, queued>>
      BY <1>7 DEF AppCancels
    <2>2. Append(calls, "cancel") \in Seq(Calls)
      BY <1>0 DEF Calls
    <2> QED
      BY <1>0, <2>1, <2>2 DEF Types, EnumeratorTypes, OtherTypes, HubSlots
  <1>8. CASE UNCHANGED vars
    BY <1>0, <1>8 DEF vars, Types, EnumeratorTypes, OtherTypes, enumeratorVars, HubSlots
  <1> QED
    BY <1>1, <1>2, <1>3, <1>4, <1>5, <1>6, <1>7, <1>8, Zenon DEF Next, OwnerWorks

\* Every variable has its type.
THEOREM TypeCorrect == Spec => []TypeOK
<1>1. Init => Types
  BY BoundsAssumption DEF Init, Types, EnumeratorTypes, OtherTypes, Calls, Results, HubSlots
<1>2. Types /\ [Next]_vars => Types'
  BY TypesNext
<1>3. Spec => []Types
  BY <1>1, <1>2, PTL DEF Spec
<1>4. IInv /\ Types => TypeOK
  BY DEF IInv, ChainsOK, Types, EnumeratorTypes, OtherTypes, TypeOK, Calls, Results
<1> QED
  BY <1>3, <1>4, Invariance, PTL

=============================================================================
