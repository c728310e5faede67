------------------------------ MODULE Workers ------------------------------
(***************************************************************************)
(* One channel of a run: a worker of any type, its sequence tracker, the   *)
(* connector, and the engine that warms it up, resets it, measures, drains *)
(* and captures it (src/burnin/engine/engine.go).  seek_snapshot drives    *)
(* its subscription in rounds and has a module of its own.                 *)
(***************************************************************************)
EXTENDS RoundTripWorkers, RedeliveryWorkers, KeyedWorkers, ReconcilingWorkers

(* The fields a constructor and StartProducers give a worker. *)
OwnFields ==
    CASE kind = "nack_redelivery" -> {NackFields}
      [] kind = "inflight_cap" -> {InflightFields}
      [] kind = "filtering" -> {FilteringFields}
      [] kind = "ordering_keys" -> {OrderingFields(u) : u \in BOOLEAN}
      [] kind \in {"dead_letter", "cross_protocol_interop"} -> {ReconcilingFields}
      [] OTHER -> {Stateless}

Init == ChannelInit /\ own \in OwnFields

(* The engine's calls on the workers that inherit them from BaseWorker. *)
BaseStopProducers ==
    /\ kind # "inflight_cap"
    /\ StopProducers
    /\ UNCHANGED <<count, own, connector>>

BaseReset == kind \in RoundTripKinds \cup {"nack_redelivery"} /\ Reset(own, seq)

BaseStopConsumers ==
    /\ kind \notin {"inflight_cap", "dead_letter", "cross_protocol_interop"}
    /\ StopConsumers("errors", 0)
    /\ UNCHANGED own

(* A message that is out on a lease has been delivered. *)
ConnectorLoses(s, m) ==
    /\ Consuming
    /\ kind = "inflight_cap" => m \notin own.leased
    /\ Lose(s, m)

Next ==
    \/ RoundTripNext \/ RedeliveryNext \/ KeyedNext \/ ReconcilingNext
    \/ BaseStopProducers \/ BaseReset \/ Capture \/ BaseStopConsumers
    \/ \E s \in Subs : \E m \in queue[s] : ConnectorLoses(s, m)

Spec == Init /\ [][Next]_vars
-----------------------------------------------------------------------------
(***************************************************************************)
(* Every message queued or delivered is one the connector has accepted,    *)
(* and the counters are natural numbers.                                   *)
(***************************************************************************)
TypeOK ==
    /\ kind \in Kinds
    /\ phase \in {"warmup", "settling", "measuring", "draining", "captured", "stopped"}
    /\ seq \in Nat /\ late \in BOOLEAN
    /\ \A c \in Counters : count[c] \in Nat
    /\ \A s \in Subs : queue[s] \cup seen[s] \subseteq 1 .. Len(log)

(* The messages of the measurement the connector has lost. *)
LostSinceReset == {x \in lost : x[2] > mark}

(***************************************************************************)
(* A worker never charges its connector with loss that did not happen      *)
(* (worker.go:576-630, tracker.go): reordering within the window,          *)
(* redeliveries, nacks, held leases and failed publishes of the warmup     *)
(* leave the tracker without a suspected loss.  Left out are the two cases *)
(* the code does not handle: a sequence that a publish failing during the  *)
(* measurement has used up, and a message of the warmup that arrives after *)
(* the reset.                                                              *)
(***************************************************************************)
NoFalseLoss ==
    LostSinceReset = {} /\ holes = {} /\ ~late =>
        /\ \A k \in TrackerKeys : pendingLost[k] = {}
        /\ snap.lost = 0 /\ snap.fanoutDropped = 0

(***************************************************************************)
(* A message the connector lost during the measurement is in the tracker's *)
(* pendingLost once the watermark of its producer has passed it, whatever  *)
(* was redelivered, reordered or delivered to the other subscriptions      *)
(* (fan_out.go:138-144 keeps one sequence per subscription).               *)
(***************************************************************************)
LossFound ==
    \A x \in LostSinceReset :
        LET k == <<log[x[2]].by, x[1]>>
            n == log[x[2]].seq
        IN  /\ ~late /\ k \in tracked /\ log[x[2]].tag = "ok"
            /\ baseline[k] < n /\ n <= highContiguous[k]
            /\ \A m \in seen[x[1]] : m > mark /\ log[m].by = k[1] => log[m].seq # n
            => n \in pendingLost[k]

(***************************************************************************)
(* The loss a worker's tracker holds is the connector's: none without, and *)
(* none missing.                                                           *)
(***************************************************************************)
LossExact == NoFalseLoss /\ LossFound

(***************************************************************************)
(* The duplicated counter the duplication gate judges (worker.go:534-543)  *)
(* is the number of redeliveries on the same subscription, plus the        *)
(* messages a subscription delivered after a later one had fixed where its *)
(* producer's sequence begins: a message a fan_out worker receives from    *)
(* two subscriptions is none, and neither is a reset seen twice.           *)
(***************************************************************************)
DuplicationExact ==
    LostSinceReset = {} /\ holes = {} /\ ~late /\ kind # "dead_letter" =>
        count["duplicated"] = again +
            MapThenSumSet(LAMBDA s : Cardinality({Id(m) : m \in {e \in seen[s] :
                    e > mark /\ log[e].tag = "ok" /\ log[e].seq < baseline[<<log[e].by, s>>]}}),
                          SubsOf(kind))

(***************************************************************************)
(* What publish_pull_round_trip.go:304-307 says of a publish that fails:   *)
(* its messages contribute zero loss.                                      *)
(***************************************************************************)
FailedPublishIsNoLoss ==
    lost = {} /\ ~late => snap.lost = 0

(***************************************************************************)
(* What inflight_cap.go:413-418 says StopConsumers finds: every published  *)
(* sequence must have been received, and one the connector did not deliver *)
(* is recorded as inflightCapLost.  Here everything else has arrived, and  *)
(* the lost message is in the middle.                                      *)
(***************************************************************************)
InflightLossRecorded ==
    /\ kind = "inflight_cap" /\ phase = "stopped" /\ snap.drained /\ ~late
    /\ \E x \in LostSinceReset : \E a, b \in seen[First] : mark < a /\ a < x[2] /\ x[2] < b
    => count["inflightCapLost"] > 0
=============================================================================
