-------------------------- MODULE RoundTripWorkers --------------------------
(***************************************************************************)
(* The workers that publish, receive, track and acknowledge, each in its   *)
(* own way: publish_pull_round_trip, streaming_pull, exactly_once,         *)
(* schema_enforce and fan_out (src/burnin/worker/*.go).  Their probes are  *)
(* in module Measurement.                                                  *)
(***************************************************************************)
EXTENDS Channel

(* The fields of these workers hold no state beyond BaseWorker's. *)
Stateless == [state |-> "none"]

RoundTripKinds == {"publish_pull_round_trip", "streaming_pull", "exactly_once", "schema_enforce",
                   "fan_out"}

-----------------------------------------------------------------------------
(* publish_pull_round_trip: BatchSize sequences are taken and published as one batch. *)
publish_pull_produceLoop(p) ==
    /\ kind = "publish_pull_round_trip" /\ Producing
    /\ seq' = seq + BatchSize
    /\ Produce([i \in 1 .. BatchSize |-> Message(p, seq + i)])
    /\ UNCHANGED <<engine, own, trk>>

(* A message of the rejected probe batch is enqueued all the same. *)
publish_pull_runAtomicityProbe(p) ==
    /\ kind = "publish_pull_round_trip" /\ phase = "warmup"
    /\ Accept(<<Leak(p)>>)

(* A message of the probe is counted and not tracked. *)
publish_pull_handleMessage(s, m) ==
    /\ kind = "publish_pull_round_trip"
    /\ IF log[m].tag = "leak"
       THEN CountAndAck(s, m, "batchAtomicityViolations")
       ELSE TrackAndAck(s, m, <<log[m].by, s>>, {})

-----------------------------------------------------------------------------
streaming_pull_produceLoop(p) == kind = "streaming_pull" /\ PublishNext(p)

streaming_pull_handleMessage(s, m) ==
    /\ kind = "streaming_pull"
    /\ TrackAndAck(s, m, <<log[m].by, s>>, {})

-----------------------------------------------------------------------------
exactly_once_produceLoop(p) == kind = "exactly_once" /\ PublishNext(p)

(* ackWithReconciliation: acknowledged, on the retry at the latest; or both fail and the *)
(* message stays leased until it is delivered again.                                     *)
exactly_once_handleMessage(s, m) ==
    /\ kind = "exactly_once"
    /\ Deliver(s, m)
    /\ \/ /\ recordTracked(<<log[m].by, s>>, log[m].seq, {"exactlyOnceConfirmed", "acked"})
          /\ queue' = [queue EXCEPT ![s] = @ \ {m}]
          /\ UNCHANGED faults
       \/ /\ recordTracked(<<log[m].by, s>>, log[m].seq, {"exactlyOnceUnreconciled", "errors"})
          /\ Fault /\ UNCHANGED queue
    /\ UNCHANGED <<engine, seq, own, holes>>

-----------------------------------------------------------------------------
(* A body that cannot be encoded uses up its sequence like a publish that fails. *)
schema_enforce_produceLoop(p) == kind = "schema_enforce" /\ PublishNext(p)

(* The non-conforming body of the probe is accepted. *)
schema_enforce_runNonConformingProbe(p) ==
    /\ kind = "schema_enforce"
    /\ Accept(<<Leak(p)>>)

(* A body without the instrumentation is counted as corrupted. *)
schema_enforce_handleMessage(s, m) ==
    /\ kind = "schema_enforce"
    /\ IF log[m].tag = "leak"
       THEN CountAndAck(s, m, "corrupted")
       ELSE TrackAndAck(s, m, <<log[m].by, s>>, {})

-----------------------------------------------------------------------------
fan_out_produceLoop(p) == kind = "fan_out" /\ PublishNext(p)

(* Wrong: the subscriptions share one tracker entry. *)
fan_out_handleShared(s, m) ==
    /\ kind = "fan_out"
    /\ TrackAndAck(s, m, <<log[m].by, First>>, {"fanoutDeliveries"})

(* Tracked by producer and subscription. *)
fan_out_handleMessage(s, m) ==
    /\ kind = "fan_out"
    /\ TrackAndAck(s, m, <<log[m].by, s>>, {"fanoutDeliveries"})

-----------------------------------------------------------------------------
RoundTripNext ==
    \/ \E p \in Producers :
          \/ publish_pull_produceLoop(p) \/ publish_pull_runAtomicityProbe(p)
          \/ streaming_pull_produceLoop(p)
          \/ exactly_once_produceLoop(p)
          \/ schema_enforce_produceLoop(p) \/ schema_enforce_runNonConformingProbe(p)
          \/ fan_out_produceLoop(p)
    \/ \E s \in Subs : \E m \in queue[s] :
          \/ publish_pull_handleMessage(s, m) \/ streaming_pull_handleMessage(s, m)
          \/ exactly_once_handleMessage(s, m) \/ schema_enforce_handleMessage(s, m)
          \/ fan_out_handleMessage(s, m)
=============================================================================
