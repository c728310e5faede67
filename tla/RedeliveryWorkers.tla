------------------------- MODULE RedeliveryWorkers -------------------------
(***************************************************************************)
(* The workers that make the connector deliver again: nack_redelivery      *)
(* (src/burnin/worker/nack_redelivery.go) refuses a part of the messages   *)
(* once, and inflight_cap (src/burnin/worker/inflight_cap.go) holds leases *)
(* until its producers stop.                                               *)
(***************************************************************************)
EXTENDS Channel

CONSTANTS
    BacklogTarget,  \* gcp.inflight_backlog_target
    PullBatch,      \* inflightPullBatch
    Cap             \* connectorInflightCap

ASSUME RedeliveryAssumption ==
    /\ BacklogTarget \in Nat /\ PullBatch \in Nat /\ Cap \in Nat

IdOf(m) == <<log[m].by, log[m].seq>>

-----------------------------------------------------------------------------
(* nack_redelivery.  The map nacked, as two sets of ids; ResetAfterWarmup leaves it alone. *)
NackFields == [nacked |-> {}, redelivered |-> {}]

nack_redelivery_produceLoop(p) == kind = "nack_redelivery" /\ PublishNext(p)

(* Wrong: a message drawn into the nack fraction is acknowledged as well. *)
FirstReceiptForgets(s, m) ==
    \/ /\ recordTracked(<<log[m].by, s>>, log[m].seq, {"acked"})
       /\ own' = [own EXCEPT !.nacked = @ \cup {IdOf(m)}]
       /\ Ack(s, m)
    \/ /\ recordTracked(<<log[m].by, s>>, log[m].seq, {"acked"})
       /\ Ack(s, m) /\ UNCHANGED own

(* The receipt of an id that was not nacked yet: drawn into the nack fraction, or not. *)
FirstReceipt(s, m) ==
    \/ /\ recordTracked(<<log[m].by, s>>, log[m].seq, {})
       /\ own' = [own EXCEPT !.nacked = @ \cup {IdOf(m)}]
       /\ Nack(s, m)
    \/ /\ recordTracked(<<log[m].by, s>>, log[m].seq, {"acked"})
       /\ Ack(s, m) /\ UNCHANGED own

(* The redelivery of a nacked id is acknowledged and ends its story. *)
Redelivery(s, m) ==
    /\ recordTracked(<<log[m].by, s>>, log[m].seq, {"acked", "nackRedelivered"})
    /\ own' = [nacked |-> own.nacked \ {IdOf(m)}, redelivered |-> own.redelivered \cup {IdOf(m)}]
    /\ Ack(s, m)

nack_redelivery_handleMessage(s, m) ==
    /\ kind = "nack_redelivery"
    /\ Deliver(s, m)
    /\ \/ IdOf(m) \in own.nacked /\ Redelivery(s, m)
       \/ /\ IdOf(m) \in own.redelivered
          /\ recordTracked(<<log[m].by, s>>, log[m].seq, {"acked"})
          /\ Ack(s, m) /\ UNCHANGED own
       \/ IdOf(m) \notin own.nacked \cup own.redelivered /\ FirstReceipt(s, m)
    /\ UNCHANGED <<engine, seq, holes>>

(***************************************************************************)
(* Every message the worker has nacked is still with the connector or      *)
(* came back and was acknowledged once: the loss gate stays meaningful     *)
(* although duplicates are exempted (nack_redelivery.go:213-243).  A       *)
(* message the connector lost was never received.                          *)
(***************************************************************************)
NackedComesBack ==
    kind = "nack_redelivery" =>
        /\ \A id \in own.nacked : \E m \in queue[First] : IdOf(m) = id
        /\ own.nacked \cap own.redelivered = {}

-----------------------------------------------------------------------------
(* inflight_cap.  leased is the connector's: messages out on a lease of 600 s.  batch and *)
(* drain are the locals of pullLoop; straddling (history) is the batch in hand, read in   *)
(* accumulate mode, when StopProducers switched to drain mode.                            *)
InflightFields ==
    [held |-> {}, draining |-> FALSE, released |-> FALSE, batch |-> {}, drain |-> FALSE,
     leased |-> {}, straddling |-> {}]

(* The backlog target is published and no more; the load of seq and the Add are one step. *)
inflight_cap_produceLoop(p) ==
    /\ kind = "inflight_cap" /\ seq < BacklogTarget
    /\ PublishNext(p)

(* pullLoop: lease a batch, within the connector's cap, and read the mode once for the whole batch. *)
pullLoop ==
    /\ kind = "inflight_cap" /\ Consuming
    /\ own.batch = {}
    /\ \E b \in SUBSET (queue[First] \ own.leased) :
          /\ b # {} /\ Cardinality(b) <= PullBatch
          /\ Cardinality(own.leased \cup b) <= Cap
          /\ \A m \in b, e \in queue[First] \ seen[First] : m < e + Window
          /\ own' = [own EXCEPT !.batch = b, !.leased = @ \cup b, !.drain = own.draining]
    /\ UNCHANGED <<engine, seq, count, connector, holes, trk>>

(* handlePulled: hold the lease, or acknowledge (ackOne); recordAcked does not look at the *)
(* answer.  A lease taken twice counts as one in held.                                      *)
handlePulled(m) ==
    /\ kind = "inflight_cap"
    /\ m \in own.batch
    /\ Deliver(First, m)
    /\ IF own.drain
       THEN /\ recordTracked(<<log[m].by, First>>, log[m].seq,
                   {"acked"} \cup {c \in {"inflightCapTailRedelivered"} : own.released})
            /\ Ack(First, m)
            /\ own' = [own EXCEPT !.batch = @ \ {m}, !.leased = @ \ {m}]
       ELSE /\ recordTracked(<<log[m].by, First>>, log[m].seq, {})
            /\ own' = [own EXCEPT !.batch = @ \ {m}, !.held = @ \cup {m}]
            /\ UNCHANGED <<queue, faults>>
    /\ UNCHANGED <<engine, seq, holes>>

(* A lease runs out; 600 s make it a fault of the run. *)
LeaseExpires(m) ==
    /\ kind = "inflight_cap" /\ Consuming
    /\ m \in own.leased \ own.batch
    /\ Fault
    /\ own' = [own EXCEPT !.leased = @ \ {m}]
    /\ UNCHANGED <<engine, seq, count, log, queue, seen, lost, again, late, holes, trk>>

(* Wrong: the leases are released, but the mode is not switched. *)
ReleasedOnly(acked) ==
    [own EXCEPT !.released = TRUE, !.held = {}, !.leased = @ \ acked,
                !.straddling = {m \in own.batch : ~own.drain}]

(* Drain mode first, then the held set is taken out for ackMany. *)
Released(acked) ==
    [own EXCEPT !.draining = TRUE, !.released = TRUE, !.held = {}, !.leased = @ \ acked,
                !.straddling = {m \in own.batch : ~own.drain}]

(* ackMany counts every id as acknowledged, also those of a request that failed; an id whose *)
(* lease ran out acknowledges nothing.                                                       *)
ackMany(acked) ==
    /\ queue' = [queue EXCEPT ![First] = @ \ acked]
    /\ \/ /\ acked = (own.held \cap own.leased) \ own.batch
          /\ count' = [count EXCEPT !["acked"] = @ + Cardinality(own.held)]
          /\ UNCHANGED faults
       \/ /\ acked = {} /\ own.held # {}
          /\ count' = [count EXCEPT !["acked"] = @ + Cardinality(own.held), !["errors"] = @ + 1]
          /\ Fault

inflight_cap_StopProducers ==
    /\ kind = "inflight_cap"
    /\ StopProducers
    /\ \E acked \in {{}, (own.held \cap own.leased) \ own.batch} :
          own' = Released(acked) /\ ackMany(acked)
    /\ UNCHANGED <<log, seen, lost, again, late>>

(* ResetAfterWarmup: the sequence starts again at 1; a batch in hand stays. *)
inflight_cap_ResetAfterWarmup ==
    /\ kind = "inflight_cap"
    /\ Reset([own EXCEPT !.draining = FALSE, !.released = FALSE, !.held = {}, !.straddling = {}], 0)

(* StopConsumers: what the tracker still misses is recorded once more. *)
inflight_cap_StopConsumers ==
    /\ kind = "inflight_cap"
    /\ StopConsumers("inflightCapLost", TotalLost)
    /\ UNCHANGED own

(***************************************************************************)
(* Once its producers are stopped the worker holds no lease, but for the   *)
(* batch it had in hand at the switch, whose mode was read before it       *)
(* (inflight_cap.go:203): everything else goes back to the connector.      *)
(***************************************************************************)
HeldLeasesReleased ==
    kind = "inflight_cap" /\ phase \in {"settling", "draining", "captured", "stopped"}
    => own.held \subseteq own.straddling

-----------------------------------------------------------------------------
RedeliveryNext ==
    \/ \E p \in Producers : nack_redelivery_produceLoop(p) \/ inflight_cap_produceLoop(p)
    \/ \E m \in queue[First] : nack_redelivery_handleMessage(First, m)
    \/ pullLoop
    \/ \E m \in 1 .. Len(log) : handlePulled(m) \/ LeaseExpires(m)
    \/ inflight_cap_StopProducers \/ inflight_cap_ResetAfterWarmup \/ inflight_cap_StopConsumers
=============================================================================
