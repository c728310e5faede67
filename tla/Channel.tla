------------------------------ MODULE Channel ------------------------------
(***************************************************************************)
(* What every burn-in worker shares (src/burnin/worker/worker.go): the     *)
(* counters, the sequence and the sequence tracker of BaseWorker, the      *)
(* phases the engine takes it through (src/burnin/engine/engine.go), and   *)
(* the connector's topic and subscriptions it publishes to and receives    *)
(* from through src/burnin/transport.                                      *)
(*                                                                         *)
(* A handler call is one step: two callbacks of a worker meet only in the  *)
(* tracker and in fields under the worker's mutex.                         *)
(***************************************************************************)
EXTENDS Integers, Sequences, FiniteSetsExt

CONSTANTS
    Kinds,       \* the worker types explored
    Producers,   \* the producer goroutines of a worker (producers_per_channel)
    Subs,        \* the subscriptions of a fan_out worker
    BatchSize,   \* gcp.batch_size
    Window,      \* message.reorder_window
    MaxPublish,  \* bound, per type: messages the connector accepts
    MaxFaults    \* bound: failed publishes, lost acks and breaches by the connector

AllKinds ==
    {"publish_pull_round_trip", "streaming_pull", "exactly_once", "schema_enforce", "fan_out",
     "nack_redelivery", "inflight_cap", "filtering", "ordering_keys", "dead_letter",
     "cross_protocol_interop"}

ASSUME ChannelAssumption ==
    /\ Kinds \subseteq AllKinds
    /\ IsFiniteSet(Producers) /\ IsFiniteSet(Subs) /\ Subs # {}
    /\ BatchSize \in Nat \ {0}
    /\ MaxPublish \in [Kinds -> Nat] /\ MaxFaults \in Nat

VARIABLES
    kind,    \* the worker's type
    phase,   \* where the engine is with this worker
    seq,     \* w.seq
    count,   \* the counters of BaseWorker
    own,     \* the fields of the concrete worker, a record per type
    log,     \* the messages the connector has accepted, oldest first
    queue,   \* per subscription: the messages (indices of log) not acknowledged yet
    faults,  \* bound: faults so far
    snap,    \* the worker's part of the WorkerSnapshot
    \* The tracker's state:
    tracked, highContiguous, window, pendingLost, confirmedLost, lastReportedLost, lastSeen,
    received, duplicates, outOfOrder, streamed, baseline, delivered, sliders, suspected, calls,
    \* History, read by no handler:
    seen,    \* per subscription: the messages delivered at least once
    holes,   \* the sequences a failed publish has used up
    lost,    \* the deliveries <<subscription, message>> the connector has lost
    again,   \* deliveries, since the reset, of an id the subscription had delivered since
    mark,    \* the length of log at the reset
    late     \* a message of the warmup was delivered after the reset

First == CHOOSE s \in Subs : TRUE

(* The subscriptions the worker receives from. *)
SubsOf(k) == IF k = "fan_out" THEN Subs ELSE {First}

(* fan_out tracks a producer per subscription; the others have one subscription. *)
TrackerKeys == Producers \X Subs

Most == Max({MaxPublish[k] : k \in Kinds})

(* The bounds of the tracker's own model are out of reach here. *)
T == INSTANCE Tracker WITH Producers <- TrackerKeys, MaxSeq <- 2 * Most, Ahead <- 2 * Most,
                           MaxCalls <- 4 * Most * (MaxFaults + 1)

trk == <<tracked, highContiguous, window, pendingLost, confirmedLost, lastReportedLost, lastSeen,
         received, duplicates, outOfOrder, streamed, baseline, delivered, sliders, suspected, calls>>
connector == <<log, queue, faults, seen, lost, again, late>>
engine == <<kind, phase, snap, mark>>
vars == <<engine, seq, count, own, connector, holes, trk>>

Counters ==
    {"sent", "errors", "acked", "corrupted", "duplicated", "fanoutDeliveries", "orderingViolations",
     "exactlyOnceConfirmed", "exactlyOnceUnreconciled", "batchAtomicityViolations",
     "filterMismatch", "filterMatchedDelivered", "nackRedelivered", "inflightCapTailRedelivered",
     "inflightCapLost", "deadLetterRepublished", "deadLetterLost", "deliveryAttemptMax",
     "interopConverged", "interopDiverged"}

(* The record* helpers: add one to each counter in cs. *)
Recorded(cs) == [c \in Counters |-> IF c \in cs THEN count[c] + 1 ELSE count[c]]

Consuming == phase \in {"warmup", "settling", "measuring", "draining", "captured"}
Producing == phase \in {"warmup", "measuring"} /\ Len(log) < MaxPublish[kind]

-----------------------------------------------------------------------------
(* The connector, as the transport wrappers use it.                        *)

(* stampAttrs, and the ordering key with its sequence (0 without a key). *)
Keyed(p, n, key, oseq) == [by |-> p, seq |-> n, tag |-> "ok", key |-> key, oseq |-> oseq]
Message(p, n) == Keyed(p, n, 0, 0)
Leak(p) == [Message(p, 1) EXCEPT !.tag = "leak"]

(* The connector accepts ms; a dead_letter worker receives from another topic. *)
Enqueue(ms) ==
    /\ log' = log \o ms
    /\ queue' = [s \in Subs |-> IF s \in SubsOf(kind) /\ kind # "dead_letter"
                                THEN queue[s] \cup ((Len(log) + 1) .. (Len(log) + Len(ms)))
                                ELSE queue[s]]

Fault == faults < MaxFaults /\ faults' = faults + 1

(* PublishSync resolves: the connector has assigned an id. *)
PublishSync(ms) == Enqueue(ms) /\ UNCHANGED <<faults, seen, lost, again, late>>

(* It returns an error: nothing is enqueued, or the answer was lost after a prefix of *)
(* the messages was.                                                                  *)
PublishFails(ms) ==
    /\ Fault
    /\ \E n \in 0 .. Len(ms) : Enqueue(SubSeq(ms, 1, n))
    /\ UNCHANGED <<seen, lost, again, late>>

(* One turn of a produceLoop with the messages ms: sent is recorded once the connector has *)
(* answered; after an error the sequences are used up and an error is recorded.            *)
Produce(ms) ==
    \/ /\ PublishSync(ms)
       /\ count' = [count EXCEPT !["sent"] = @ + Len(ms)]
       /\ UNCHANGED holes
    \/ /\ PublishFails(ms)
       /\ count' = Recorded({"errors"})
       /\ holes' = holes \cup {ms[i].seq : i \in 1 .. Len(ms)}

(* A producer's turn that publishes one message with the next sequence of the worker. *)
PublishNext(p) ==
    /\ Producing
    /\ seq' = seq + 1
    /\ Produce(<<Message(p, seq + 1)>>)
    /\ UNCHANGED <<engine, own, trk>>

SameId(e, m) == log[e].by = log[m].by /\ log[e].seq = log[m].seq /\ log[e].tag = log[m].tag

(* Receive delivers m; it overtakes fewer than Window messages not delivered yet. *)
Deliver(s, m) ==
    /\ Consuming
    /\ m \in queue[s]
    /\ \A e \in queue[s] \ seen[s] : m < e + Window
    /\ seen' = [seen EXCEPT ![s] = @ \cup {m}]
    /\ again' = again + (IF \E e \in seen[s] : e > mark /\ SameId(e, m) THEN 1 ELSE 0)
    /\ late' = (late \/ (phase \notin {"warmup", "settling"} /\ m <= mark))
    /\ UNCHANGED <<log, lost>>

(* Ack(m); an acknowledgement that is lost leaves m to be delivered again. *)
Ack(s, m) ==
    \/ queue' = [queue EXCEPT ![s] = @ \ {m}] /\ UNCHANGED faults
    \/ Fault /\ UNCHANGED queue

(* Nack(m): m is delivered again. *)
Nack(s, m) == UNCHANGED <<queue, faults>>

(* A breach: the connector accepts a message that must not be delivered. *)
Accept(ms) ==
    /\ phase \in {"warmup", "measuring"}
    /\ Fault
    /\ Enqueue(ms)
    /\ UNCHANGED <<engine, seq, count, own, seen, lost, again, late, holes, trk>>

(* A breach: a message nobody has acknowledged is never delivered again. *)
Lose(s, m) ==
    /\ Fault
    /\ m \in queue[s] \ seen[s]
    /\ queue' = [queue EXCEPT ![s] = @ \ {m}]
    /\ lost' = lost \cup {<<s, m>>}
    /\ UNCHANGED <<engine, seq, count, own, log, seen, again, late, holes, trk>>

-----------------------------------------------------------------------------
(* BaseWorker.                                                             *)

Duplicate(k, n) == k \in tracked /\ T!Seen(k, n)

(* recordTracked(key, n), and the counters in cs. *)
recordTracked(k, n, cs) ==
    /\ T!Record(k, n)
    /\ count' = Recorded(IF Duplicate(k, n) THEN cs \cup {"duplicated"} ELSE cs)

(* The common handler: check, track, acknowledge. *)
TrackAndAck(s, m, k, cs) ==
    /\ Deliver(s, m)
    /\ recordTracked(k, log[m].seq, cs \cup {"acked"})
    /\ Ack(s, m)
    /\ UNCHANGED <<engine, seq, own, holes>>

(* A handler that drops m: count it in c and acknowledge it. *)
CountAndAck(s, m, c) ==
    /\ Deliver(s, m)
    /\ count' = Recorded({c, "acked"})
    /\ Ack(s, m)
    /\ UNCHANGED <<engine, seq, own, holes, trk>>

(* Wrong: the tracker keeps the warmup. *)
ResetCountersOnly ==
    /\ count' = [c \in Counters |-> 0]
    /\ UNCHANGED trk

(* ResetAfterWarmup of BaseWorker. *)
ResetAfterWarmup ==
    /\ T!Reset
    /\ count' = [c \in Counters |-> 0]

(* The engine resets the worker and starts its producers again; f are its own fields after *)
(* both, n is w.seq.                                                                       *)
Reset(f, n) ==
    /\ phase = "settling"
    /\ phase' = "measuring"
    /\ ResetAfterWarmup
    /\ own' = f /\ seq' = n
    /\ mark' = Len(log) /\ holes' = {} /\ again' = 0
    /\ UNCHANGED <<kind, snap, log, queue, faults, seen, lost, late>>

(* StopProducers, after the warmup and after the measurement. *)
StopProducers ==
    /\ \/ phase = "warmup" /\ phase' = "settling"
       \/ phase = "measuring" /\ phase' = "draining"
    /\ UNCHANGED <<kind, snap, mark, seq, holes, trk>>

(* shutdownWorkers: the last DetectGaps, then captureWorkerSnapshots.  The queues need not *)
(* be empty: drainToQuiescence gives up after its timeout.                                 *)
TotalLost == MapThenSumSet(LAMBDA k : confirmedLost[k], TrackerKeys)

Capture ==
    /\ phase = "draining"
    /\ phase' = "captured"
    /\ T!DetectGaps
    /\ snap' = [count |-> count,
                lost |-> IF kind = "fan_out" THEN 0 ELSE TotalLost,
                fanoutDropped |-> IF kind = "fan_out" THEN TotalLost ELSE 0,
                drained |-> \A s \in SubsOf(kind) : queue[s] = {}]
    /\ UNCHANGED <<kind, mark, seq, count, own, connector, holes>>

(* StopConsumers of BaseWorker; a worker that reconciles adds n to the counter c. *)
StopConsumers(c, n) ==
    /\ phase = "captured"
    /\ phase' = "stopped"
    /\ count' = [count EXCEPT ![c] = @ + n]
    /\ UNCHANGED <<kind, snap, mark, seq, connector, holes, trk>>

NoSnapshot == [count |-> [c \in Counters |-> 0], lost |-> 0, fanoutDropped |-> 0, drained |-> FALSE]

ChannelInit ==
    /\ kind \in Kinds
    /\ phase = "warmup" /\ snap = NoSnapshot /\ mark = 0
    /\ seq = 0 /\ holes = {}
    /\ count = [c \in Counters |-> 0]
    /\ log = <<>> /\ faults = 0 /\ lost = {} /\ again = 0 /\ late = FALSE
    /\ queue = [s \in Subs |-> {}]
    /\ seen = [s \in Subs |-> {}]
    /\ T!Init
=============================================================================
