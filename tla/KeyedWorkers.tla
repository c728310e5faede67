---------------------------- MODULE KeyedWorkers ----------------------------
(***************************************************************************)
(* The workers whose producers keep sequences of their own: filtering      *)
(* (src/burnin/worker/filtering.go) numbers the matching messages, and     *)
(* ordering_keys (src/burnin/worker/ordering_keys.go) the messages of a    *)
(* key.  Both sequences are locals of produceLoop, so they start again     *)
(* with the producers after the warmup.                                    *)
(***************************************************************************)
EXTENDS Channel

CONSTANT OrderingKeyCount

ASSUME KeyedAssumption == OrderingKeyCount \in Nat \ {0}

Keys == 1 .. OrderingKeyCount

-----------------------------------------------------------------------------
(* filtering.  tick counts modulo 2. *)
FilteringFields == [matchSeq |-> [p \in Producers |-> 0], tick |-> [p \in Producers |-> 0]]

(* A non-matching message is filtered out at fan-out, or the publish fails; or the *)
(* connector delivers it, in breach of the filter.                                 *)
publishNonMatch(p) ==
    /\ own' = [own EXCEPT !.tick[p] = 0]
    /\ \/ UNCHANGED <<count, log, queue, faults>>
       \/ Fault /\ count' = Recorded({"errors"}) /\ UNCHANGED <<log, queue>>
       \/ Fault /\ Enqueue(<<Leak(p)>>) /\ UNCHANGED count
    /\ UNCHANGED <<seen, lost, again, late>>

(* A matching message; its sequence advances on success only. *)
publishMatch(p, n) ==
    \/ /\ PublishSync(<<Message(p, n)>>) /\ count' = Recorded({"sent"})
       /\ own' = [own EXCEPT !.tick[p] = 1, !.matchSeq[p] = n]
    \/ /\ PublishFails(<<Message(p, n)>>) /\ count' = Recorded({"errors"})
       /\ own' = [own EXCEPT !.tick[p] = 1]

filtering_produceLoop(p) ==
    /\ kind = "filtering" /\ Producing
    /\ \/ own.tick[p] = 0 /\ publishMatch(p, own.matchSeq[p] + 1)
       \/ own.tick[p] = 1 /\ publishNonMatch(p)
    /\ UNCHANGED <<engine, seq, holes, trk>>

filtering_handleMessage(s, m) ==
    /\ kind = "filtering"
    /\ IF log[m].tag = "leak"
       THEN CountAndAck(s, m, "filterMismatch")
       ELSE TrackAndAck(s, m, <<log[m].by, s>>, {"filterMatchedDelivered"})

filtering_ResetAfterWarmup == kind = "filtering" /\ Reset(FilteringFields, seq)

-----------------------------------------------------------------------------
(* ordering_keys.  perKey is 0 for a key not seen; unordered says that the connector does *)
(* not keep the key order; inversions (history) counts the messages delivered for the     *)
(* first time after a later message of their key, both of this measurement.               *)
OrderingFields(unordered) ==
    [perKey |-> [k \in Producers \X Keys |-> 0], keySeq |-> [k \in Producers \X Keys |-> 0],
     rr |-> [p \in Producers |-> 1], unordered |-> unordered, inversions |-> 0]

(* Round-robin over the keys; a failed publish has used up both sequences. *)
ordering_keys_produceLoop(p) ==
    LET k == own.rr[p]
        oseq == own.keySeq[<<p, k>>] + 1
    IN  /\ kind = "ordering_keys" /\ Producing
        /\ seq' = seq + 1
        /\ own' = [own EXCEPT !.rr[p] = (k % OrderingKeyCount) + 1, !.keySeq[<<p, k>>] = oseq]
        /\ Produce(<<Keyed(p, seq + 1, k, oseq)>>)
        /\ UNCHANGED <<engine, trk>>

InKeyOrder(s, m) ==
    \A e \in queue[s] : e < m => <<log[e].by, log[e].key>> # <<log[m].by, log[m].key>>

(* checkOrdering: the key's high-water mark, and whether the message is below it. *)
checkOrdering(k, oseq) ==
    IF oseq < own.perKey[k]
    THEN [violations |-> {"orderingViolations"}, last |-> own.perKey[k]]
    ELSE [violations |-> {}, last |-> oseq]

Inversion(s, m) ==
    IF m \notin seen[s] /\ \E e \in seen[s] : /\ e > m /\ m > mark
                                              /\ log[e].by = log[m].by /\ log[e].key = log[m].key
    THEN 1 ELSE 0

(* Wrong: a duplicate is checked as well. *)
ordering_keys_handleAll(s, m) ==
    LET k == <<log[m].by, log[m].key>>
        chk == checkOrdering(k, log[m].oseq)
    IN  /\ kind = "ordering_keys"
        /\ Deliver(s, m)
        /\ own.unordered \/ InKeyOrder(s, m)
        /\ recordTracked(<<log[m].by, s>>, log[m].seq, {"acked"} \cup chk.violations)
        /\ own' = [own EXCEPT !.perKey[k] = chk.last]
        /\ Ack(s, m)
        /\ UNCHANGED <<engine, seq, holes>>

ordering_keys_handleMessage(s, m) ==
    LET k == <<log[m].by, log[m].key>>
        dup == Duplicate(<<log[m].by, s>>, log[m].seq)
        chk == checkOrdering(k, log[m].oseq)
    IN  /\ kind = "ordering_keys"
        /\ Deliver(s, m)
        /\ own.unordered \/ InKeyOrder(s, m)
        /\ recordTracked(<<log[m].by, s>>, log[m].seq,
                         {"acked"} \cup (IF dup THEN {} ELSE chk.violations))
        /\ own' = IF dup THEN own
                  ELSE [own EXCEPT !.perKey[k] = chk.last, !.inversions = @ + Inversion(s, m)]
        /\ Ack(s, m)
        /\ UNCHANGED <<engine, seq, holes>>

(* The reset clears perKey; the producers start with fresh sequences. *)
ordering_keys_ResetAfterWarmup ==
    /\ kind = "ordering_keys"
    /\ Reset(OrderingFields(own.unordered), seq)

(***************************************************************************)
(* As long as no message of the warmup arrives after the reset, the        *)
(* orderingViolations the verdict fails on are exactly the messages that   *)
(* arrived after a later message of their key: a redelivery is none, and   *)
(* neither is a sequence a failed publish has left out                     *)
(* (ordering_keys.go:146-180).  A message the tracker takes for a          *)
(* duplicate, because it is older than the first one it saw, is in         *)
(* neither count.                                                          *)
(***************************************************************************)
OrderingViolationsExact ==
    kind = "ordering_keys" /\ ~late => count["orderingViolations"] = own.inversions

(***************************************************************************)
(* What the comment on ResetAfterWarmup says it achieves                   *)
(* (ordering_keys.go:184-188): the ordering assertion starts fresh, so a   *)
(* connector that keeps the key order is never charged a violation, not    *)
(* for messages of the warmup that arrive during the measurement either.   *)
(***************************************************************************)
NoSpuriousViolation ==
    kind = "ordering_keys" /\ ~own.unordered => count["orderingViolations"] = 0

-----------------------------------------------------------------------------
KeyedNext ==
    \/ \E p \in Producers : filtering_produceLoop(p) \/ ordering_keys_produceLoop(p)
    \/ \E m \in queue[First] : filtering_handleMessage(First, m) \/ ordering_keys_handleMessage(First, m)
    \/ filtering_ResetAfterWarmup \/ ordering_keys_ResetAfterWarmup
=============================================================================
