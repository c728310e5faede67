------------------------- MODULE ReconcilingWorkers -------------------------
(***************************************************************************)
(* The workers that compare what they published with what arrived at the   *)
(* other end when they stop: dead_letter (src/burnin/worker/               *)
(* dead_letter.go), at the dead-letter topic, and cross_protocol_interop   *)
(* (src/burnin/worker/cross_protocol_interop.go), at a native KubeMQ       *)
(* subscriber.  Both fill a map of published ids and a set of arrived      *)
(* ones.                                                                   *)
(***************************************************************************)
EXTENDS Channel

CONSTANT MaxAttempts    \* gcp.max_delivery_attempts

ASSUME ReconcilingAssumption == MaxAttempts \in Nat \ {0}

(* arrived is w.republished or w.consumed.  source and attempt are the connector's: the   *)
(* messages of the source subscription and how often each was delivered.  overdue         *)
(* (history): the ids older than the budget when the worker reconciles.                   *)
ReconcilingFields ==
    [published |-> {}, arrived |-> {}, overdue |-> {},
     source |-> {}, attempt |-> [m \in 1 .. MaxPublish[kind] |-> 0]]

Id(m) == <<log[m].by, log[m].seq>>

(* publish; the id is entered once the connector has answered. *)
PublishAndEnter(p) ==
    /\ Producing
    /\ seq' = seq + 1
    /\ Produce(<<Message(p, seq + 1)>>)
    /\ own' = [own EXCEPT !.published = IF holes' = holes THEN @ \cup {<<p, seq + 1>>} ELSE @,
                          !.source = IF kind = "dead_letter" THEN @ \cup (Len(log) + 1 .. Len(log'))
                                                             ELSE @]
    /\ UNCHANGED <<engine, trk>>

(* The ids of conforming messages that are not older than the budget when consumers stop: *)
(* the budget leaves every message the time to arrive.                                    *)
InFlight == {Id(m) : m \in own.source \cup queue[First]}

(* Wrong: arrived is cleared, published is not. *)
ClearArrived == [own EXCEPT !.arrived = {}]

ClearMaps == [own EXCEPT !.published = {}, !.arrived = {}]

(* Published, not arrived, older than the budget. *)
Missing(o) == (own.published \ own.arrived) \cap o

(* Reconcile, then stop; the difference is recorded in c. *)
ReconcileAndStop(c) ==
    \E o \in SUBSET (own.published \ InFlight) :
        /\ own' = [own EXCEPT !.overdue = o]
        /\ StopConsumers(c, Cardinality(Missing(o)))

-----------------------------------------------------------------------------
dead_letter_produceLoop(p) == kind = "dead_letter" /\ PublishAndEnter(p)

(* Wrong: the delivery attempt is not looked at. *)
PullOnly(m) ==
    /\ kind = "dead_letter" /\ Consuming
    /\ m \in own.source /\ own.attempt[m] < MaxAttempts
    /\ own' = [own EXCEPT !.attempt[m] = @ + 1]
    /\ UNCHANGED <<engine, seq, count, connector, holes, trk>>

(* A poison message is pulled and never acknowledged; the largest attempt is kept. *)
sourceDriveLoop(m) ==
    /\ kind = "dead_letter" /\ Consuming
    /\ m \in own.source /\ own.attempt[m] < MaxAttempts
    /\ own' = [own EXCEPT !.attempt[m] = @ + 1]
    /\ count' = [count EXCEPT !["deliveryAttemptMax"] = Max({@, own.attempt[m] + 1})]
    /\ UNCHANGED <<engine, seq, connector, holes, trk>>

(* The connector moves a message that was delivered often enough to the dead-letter topic. *)
DeadLettered(m) ==
    /\ kind = "dead_letter"
    /\ m \in own.source /\ own.attempt[m] = MaxAttempts
    /\ own' = [own EXCEPT !.source = @ \ {m}]
    /\ queue' = [queue EXCEPT ![First] = @ \cup {m}]
    /\ UNCHANGED <<engine, seq, count, log, faults, seen, lost, again, late, holes, trk>>

(* Each id counts once; the tracker is not used. *)
handleDLQMessage(m) ==
    /\ kind = "dead_letter"
    /\ Deliver(First, m)
    /\ count' = Recorded({"acked"} \cup {c \in {"deadLetterRepublished"} : Id(m) \notin own.arrived})
    /\ own' = [own EXCEPT !.arrived = @ \cup {Id(m)}]
    /\ Ack(First, m)
    /\ UNCHANGED <<engine, seq, holes, trk>>

dead_letter_ResetAfterWarmup == kind = "dead_letter" /\ Reset(ClearMaps, seq)

reconcileDeadLetterLoss == kind = "dead_letter" /\ ReconcileAndStop("deadLetterLost")

-----------------------------------------------------------------------------
interop_produceLoop(p) == kind = "cross_protocol_interop" /\ PublishAndEnter(p)

(* The events store delivers an event once and takes no acknowledgement. *)
onNativeEvent(m) ==
    /\ kind = "cross_protocol_interop"
    /\ Deliver(First, m)
    /\ queue' = [queue EXCEPT ![First] = @ \ {m}]
    /\ recordTracked(<<log[m].by, First>>, log[m].seq,
                     {c \in {"interopConverged"} : Id(m) \notin own.arrived})
    /\ own' = [own EXCEPT !.arrived = @ \cup {Id(m)}]
    /\ UNCHANGED <<engine, seq, faults, holes>>

interop_ResetAfterWarmup == kind = "cross_protocol_interop" /\ Reset(ClearMaps, seq)

reconcileConvergence == kind = "cross_protocol_interop" /\ ReconcileAndStop("interopDiverged")

-----------------------------------------------------------------------------
(***************************************************************************)
(* What a worker charges when it reconciles (dead_letter.go:371-391,       *)
(* cross_protocol_interop.go:231-250) are the messages of the measurement  *)
(* that the connector took, lost and had the time to deliver: no message   *)
(* of the warmup, none whose publish failed, none that has arrived.        *)
(***************************************************************************)
ReconcileExact ==
    phase = "stopped" /\ kind \in {"dead_letter", "cross_protocol_interop"} =>
        count["deadLetterLost"] + count["interopDiverged"] =
            Cardinality({x \in lost : x[2] > mark /\ Id(x[2]) \in own.overdue})

(***************************************************************************)
(* The verdict fails a dead_letter worker that saw a republished message   *)
(* and no delivery attempt (verdict.go:205-210).  A message of the         *)
(* measurement cannot bring that about: its attempts were seen after the   *)
(* reset.                                                                  *)
(***************************************************************************)
AttemptsSurface ==
    kind = "dead_letter" /\ ~late /\ count["deadLetterRepublished"] > 0
    => count["deliveryAttemptMax"] > 0

-----------------------------------------------------------------------------
ReconcilingNext ==
    \/ \E p \in Producers : dead_letter_produceLoop(p) \/ interop_produceLoop(p)
    \/ \E m \in 1 .. Len(log) : sourceDriveLoop(m) \/ DeadLettered(m)
    \/ \E m \in queue[First] : handleDLQMessage(m) \/ onNativeEvent(m)
    \/ dead_letter_ResetAfterWarmup \/ interop_ResetAfterWarmup
    \/ reconcileDeadLetterLoss \/ reconcileConvergence
=============================================================================
