------------------------------ MODULE Backend ------------------------------
(***************************************************************************)
(* A backend replica: the goroutines of net/http that run its "/" handler, *)
(* the two buffered channels that admit them, and the RIF and the latency  *)
(* buckets a probe reads.  A handler goes through                          *)
(*    idle -> arrived      serverRIF was incremented                       *)
(*         -> queued       it has a place in concQueue                     *)
(*         -> working      it has a slot in concSem                        *)
(*         -> releasing    the answer is written; deferred calls run       *)
(*         -> dequeuing    the slot was given back                         *)
(*         -> leaving      the place was given back                        *)
(*         -> recording    serverRIF was decremented                       *)
(*         -> idle         the latency was recorded                        *)
(* and leaves this path when the queue is full or the wait too long.  The  *)
(* deferred calls run in the reverse order of their registration.          *)
(* The handler of /health writes nothing: a probe sees serverRIF and       *)
(* MedianAtRIF(buckets, rif) for a RIF it loaded before its delay.         *)
(***************************************************************************)
EXTENDS LatencyBuckets

CONSTANTS Handler,  \* goroutines of net/http that run the handler of "/"
          MaxConc,  \* capacity of concSem
          Backlog   \* places per slot, 3 in the code

ASSUME HandlerAssumption == IsFiniteSet(Handler)
ASSUME MaxConcAssumption == MaxConc \in Nat \ {0}
ASSUME BacklogAssumption == Backlog \in Nat \ {0}

\* Capacity of concQueue: a request keeps its place while it works.
QueueSize == MaxConc * Backlog

VARIABLES pc,         \* pc[h]: where goroutine h is
          arrival,    \* arrival[h]: arrivalRIF, 0 when nothing will read it any more
          recordSuccessfulLatency,  \* the handlers that set their flag
          serverRIF,
          concSem, concQueue,       \* the number of tokens in the channels
          buckets

backendVars ==
    <<pc, arrival, recordSuccessfulLatency, serverRIF, concSem, concQueue, buckets>>

States == {"idle", "arrived", "queued", "working", "releasing", "dequeuing",
           "leaving", "recording"}

\* Handlers that hold a slot, a place in the queue, and that count in RIF.
At(places) == {h \in Handler : pc[h] \in places}
Slotted == At({"working", "releasing"})
Placed  == At({"queued", "working", "releasing", "dequeuing"})
Counted == At(States \ {"idle", "recording"})

BackendTypeOK ==
    /\ pc \in [Handler -> States]
    /\ arrival \in [Handler -> Nat]
    /\ recordSuccessfulLatency \subseteq
           {h \in Handler : pc[h] \in {"releasing", "dequeuing", "leaving", "recording"}}
    /\ serverRIF \in Nat
    /\ concSem \in 0 .. MaxConc
    /\ concQueue \in 0 .. QueueSize
    /\ buckets \in Contents

BackendInit ==
    /\ pc = [h \in Handler |-> "idle"]
    /\ arrival = [h \in Handler |-> 0]
    /\ recordSuccessfulLatency = {}
    /\ serverRIF = 0
    /\ concSem = 0 /\ concQueue = 0
    /\ buckets = NoSamples

-----------------------------------------------------------------------------

Go(h, from, to) == pc[h] = from /\ pc' = [pc EXCEPT ![h] = to]

\* Mutant: the handler of "/" loads serverRIF, as that of /health does.
ArriveUncounted(h) ==
    /\ Go(h, "idle", "arrived")
    /\ arrival' = [arrival EXCEPT ![h] = serverRIF]
    /\ UNCHANGED <<recordSuccessfulLatency, serverRIF, concSem, concQueue, buckets>>

Arrive(h) ==
    /\ Go(h, "idle", "arrived")
    /\ serverRIF' = serverRIF + 1
    /\ arrival' = [arrival EXCEPT ![h] = serverRIF]
    /\ UNCHANGED <<recordSuccessfulLatency, concSem, concQueue, buckets>>

Enqueue(h) ==
    /\ concQueue < QueueSize
    /\ Go(h, "arrived", "queued")
    /\ concQueue' = concQueue + 1
    /\ UNCHANGED <<arrival, recordSuccessfulLatency, serverRIF, concSem, buckets>>

\* The backlog is full: 503 at once.
Overloaded(h) ==
    /\ concQueue = QueueSize
    /\ Go(h, "arrived", "leaving")
    /\ arrival' = [arrival EXCEPT ![h] = 0]
    /\ UNCHANGED <<recordSuccessfulLatency, serverRIF, concSem, concQueue, buckets>>

\* A slot is free.  Nothing orders the waiting handlers.
Acquire(h) ==
    /\ concSem < MaxConc
    /\ Go(h, "queued", "working")
    /\ concSem' = concSem + 1
    /\ UNCHANGED <<arrival, recordSuccessfulLatency, serverRIF, concQueue, buckets>>

\* Mutant: the release of the slot is deferred before the select, so that a
\* request that waited in vain gives back a slot of another.
TimeOutReleases(h) ==
    /\ concSem > 0
    /\ Go(h, "queued", "dequeuing")
    /\ arrival' = [arrival EXCEPT ![h] = 0]
    /\ concSem' = concSem - 1
    /\ UNCHANGED <<recordSuccessfulLatency, serverRIF, concQueue, buckets>>

\* The timer fires, or both cases are ready and select takes this one: 503.
TimeOut(h) ==
    /\ Go(h, "queued", "dequeuing")
    /\ arrival' = [arrival EXCEPT ![h] = 0]
    /\ UNCHANGED <<recordSuccessfulLatency, serverRIF, concSem, concQueue, buckets>>

\* The work is done and a 200 written.
Respond(h) ==
    /\ Go(h, "working", "releasing")
    /\ recordSuccessfulLatency' = recordSuccessfulLatency \cup {h}
    /\ UNCHANGED <<arrival, serverRIF, concSem, concQueue, buckets>>

-----------------------------------------------------------------------------
(* The deferred calls.                                                     *)

ReleaseSlot(h) ==
    /\ Go(h, "releasing", "dequeuing")
    /\ concSem' = concSem - 1
    /\ UNCHANGED <<arrival, recordSuccessfulLatency, serverRIF, concQueue, buckets>>

ReleasePlace(h) ==
    /\ Go(h, "dequeuing", "leaving")
    /\ concQueue' = concQueue - 1
    /\ UNCHANGED <<arrival, recordSuccessfulLatency, serverRIF, concSem, buckets>>

\* serverRIF no longer counts the request when its latency is recorded.
Leave(h) ==
    /\ Go(h, "leaving", IF h \in recordSuccessfulLatency THEN "recording" ELSE "idle")
    /\ serverRIF' = serverRIF - 1
    /\ UNCHANGED <<arrival, recordSuccessfulLatency, concSem, concQueue, buckets>>

RecordLatency(h, lat) ==
    /\ Go(h, "recording", "idle")
    /\ buckets' = Record(buckets, arrival[h], lat)
    /\ arrival' = [arrival EXCEPT ![h] = 0]
    /\ recordSuccessfulLatency' = recordSuccessfulLatency \ {h}
    /\ UNCHANGED <<serverRIF, concSem, concQueue>>

-----------------------------------------------------------------------------

Handle(h) ==
    \/ Arrive(h) \/ Enqueue(h) \/ Overloaded(h) \/ Acquire(h) \/ TimeOut(h)
    \/ Respond(h) \/ ReleaseSlot(h) \/ ReleasePlace(h) \/ Leave(h)
    \/ \E lat \in Latency : RecordLatency(h, lat)

BackendNext == \E h \in Handler : Handle(h)

BackendSpec == BackendInit /\ [][BackendNext]_backendVars

-----------------------------------------------------------------------------

\* The channels hold one token for every handler that has a slot, or a place, and
\* RIF counts every handler that arrived and has not left: no way out, through a
\* full queue, a timeout or an answer, leaks a token or gives back another's.
SlotsExact ==
    /\ concSem = Cardinality(Slotted)
    /\ concQueue = Cardinality(Placed)
    /\ serverRIF = Cardinality(Counted)

\* "Count RIF before queueing so overload replies still expose pressure"
\* (backend/main.go:197): a request is refused only when RIF exceeds the whole
\* backlog, whatever the requests on their way out have given back by then.
RefusedUnderPressure ==
    [][\A h \in Handler :
          pc[h] = "arrived" /\ pc'[h] = "leaving" => serverRIF > QueueSize]_backendVars

\* The estimate, for any RIF a request or a probe may have met on arrival, is the
\* median of the filled bucket nearest to it, whatever was recorded in between.
EstimateAgrees ==
    \A rif \in -1 .. NumBuckets : IsEstimate(MedianAtRIF(buckets, rif), buckets, rif)
=============================================================================
