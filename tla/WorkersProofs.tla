--------------------------- MODULE WorkersProofs ---------------------------
(***************************************************************************)
(* Theorems about the workers that keep state of their own beside the      *)
(* tracker: nack_redelivery, inflight_cap, dead_letter and                 *)
(* cross_protocol_interop, for any number of producers, messages and       *)
(* faults.                                                                 *)
(***************************************************************************)
EXTENDS Workers, FiniteSetTheorems, TLAPS

Ids == Producers \X Nat
Messages == [by : Producers, seq : Nat, tag : {"ok", "leak"}, key : Nat, oseq : Nat]
Numbers(sq) == 1 .. Len(sq)

StatefulKinds == {"nack_redelivery", "inflight_cap", "dead_letter", "cross_protocol_interop"}

(* What the subscriptions hold and have delivered are messages the connector accepted. *)
ChannelInv ==
    /\ kind \in Kinds
    /\ seq \in Nat
    /\ log \in Seq(Messages)
    /\ queue \in [Subs -> SUBSET Numbers(log)]
    /\ seen \in [Subs -> SUBSET Numbers(log)]

(* A nacked id is the id of a message that was delivered and is still queued. *)
NackInv ==
    /\ own \in [nacked : SUBSET Ids, redelivered : SUBSET Ids]
    /\ own.nacked \cap own.redelivered = {}
    /\ \A id \in own.nacked : \E m \in queue[First] \cap seen[First] : IdOf(m) = id

Stopping == {"settling", "draining", "captured", "stopped"}

(* A batch read in accumulate mode that is still in hand was in hand at the switch. *)
InflightInv ==
    /\ own \in [held : SUBSET Nat, draining : BOOLEAN, released : BOOLEAN, batch : SUBSET Nat,
                drain : BOOLEAN, leased : SUBSET Nat, straddling : SUBSET Nat]
    /\ phase \in Stopping =>
          /\ own.draining
          /\ own.held \subseteq own.straddling
          /\ ~own.drain => own.batch \subseteq own.straddling

(* The messages of the log carry the worker's sequence, so an id belongs to one message. *)
LogInv ==
    /\ \A i, j \in Numbers(log) : i < j => log[i].seq < log[j].seq
    /\ \A i \in Numbers(log) : log[i].seq <= seq
    /\ \A h \in holes : h \in Nat /\ h <= seq
    /\ mark \in 0 .. Len(log)
    /\ phase \in {"warmup", "settling"} => mark = 0

(* Where a message can be: at the source, in the queue, delivered, or lost. *)
PlaceInv ==
    /\ \A s \in Subs : s # First => queue[s] = {}
    /\ own.source \subseteq Numbers(log)
    /\ own.source \cap (queue[First] \cup seen[First]) = {}
    /\ lost \subseteq {First} \X Numbers(log)
    /\ \A x \in lost : x[2] \notin own.source \cup queue[First] \cup seen[First]

(* The two maps of a reconciling worker, and what became of a published message. *)
MapsInv ==
    /\ own.arrived \subseteq {Id(m) : m \in seen[First]}
    /\ \A id \in own.published : \E m \in Numbers(log) :
          /\ m > mark /\ Id(m) = id
          /\ \/ m \in own.source \cup queue[First]
             \/ <<First, m>> \in lost
             \/ id \in own.arrived

Charged == {x \in lost : x[2] > mark /\ Id(x[2]) \in own.overdue}

ChargeInv ==
    /\ count \in [Counters -> Nat]
    /\ phase # "stopped" => count["deadLetterLost"] = 0 /\ count["interopDiverged"] = 0
    /\ phase = "stopped" =>
          count["deadLetterLost"] + count["interopDiverged"] = Cardinality(Charged)

(* A message at the dead-letter topic was delivered at the source, and the delivery of one *)
(* of the measurement has been noted.                                                      *)
AttemptInv ==
    /\ Len(log) <= MaxPublish[kind]
    /\ \A m \in 1 .. MaxPublish[kind] :
          /\ m > Len(log) => own.attempt[m] = 0
          /\ m > mark /\ own.attempt[m] > 0 => count["deliveryAttemptMax"] > 0
    /\ \A m \in queue[First] : own.attempt[m] > 0
    /\ ~late /\ count["deadLetterRepublished"] > 0 => count["deliveryAttemptMax"] > 0

ReconcilingInv ==
    /\ own \in [published : SUBSET Ids, arrived : SUBSET Ids, overdue : SUBSET Ids,
                source : SUBSET Nat, attempt : [1 .. MaxPublish[kind] -> Nat]]
    /\ LogInv /\ PlaceInv /\ MapsInv /\ ChargeInv
    /\ kind = "dead_letter" => AttemptInv

IInv ==
    kind \in StatefulKinds =>
        /\ ChannelInv
        /\ kind = "nack_redelivery" => NackInv
        /\ kind = "inflight_cap" => InflightInv
        /\ kind \in {"dead_letter", "cross_protocol_interop"} => ReconcilingInv
-----------------------------------------------------------------------------
(* One message is published: the connector has it, or the publish failed and it has not. *)
Grew(x) ==
    /\ log' = Append(log, x)
    /\ queue' = [s \in Subs |-> IF s \in SubsOf(kind) /\ kind # "dead_letter"
                                THEN queue[s] \cup {Len(log) + 1} ELSE queue[s]]

LEMMA EnqueueOne ==
    ASSUME log \in Seq(Messages), NEW x \in Messages, Enqueue(<<x>>)
    PROVE  Grew(x)
<1>1. Len(<<x>>) = 1 /\ log \o <<x>> = Append(log, x)
  OBVIOUS
<1>2. (Len(log) + 1) .. (Len(log) + 1) = {Len(log) + 1}
  OBVIOUS
<1> QED BY <1>1, <1>2, Zenon DEF Enqueue, Grew

LEMMA EnqueueNone ==
    ASSUME log \in Seq(Messages), queue \in [Subs -> SUBSET Numbers(log)], Enqueue(<<>>)
    PROVE  log' = log /\ queue' = queue
<1>1. Len(<<>>) = 0 /\ log \o <<>> = log
  OBVIOUS
<1>2. (Len(log) + 1) .. (Len(log) + 0) = {}
  OBVIOUS
<1>3. queue' = [s \in Subs |-> queue[s]]
  BY <1>1, <1>2, Zenon DEF Enqueue
<1> QED BY <1>1, <1>3, Zenon DEF Enqueue

LEMMA ProduceOne ==
    ASSUME log \in Seq(Messages), queue \in [Subs -> SUBSET Numbers(log)],
           NEW x \in Messages, Produce(<<x>>)
    PROVE  /\ \/ Grew(x) /\ holes' = holes
              \/ /\ Grew(x) \/ (log' = log /\ queue' = queue)
                 /\ holes' = holes \cup {x.seq}
           /\ UNCHANGED <<seen, lost, again, late>>
<1>1. CASE PublishSync(<<x>>) /\ holes' = holes
  BY <1>1, EnqueueOne, Zenon DEF PublishSync
<1>2. CASE PublishFails(<<x>>) /\ holes' = holes \cup {<<x>>[i].seq : i \in 1 .. Len(<<x>>)}
  <2>1. PICK n \in 0 .. 1 : Enqueue(SubSeq(<<x>>, 1, n))
    BY <1>2, Zenon DEF PublishFails
  <2>2. SubSeq(<<x>>, 1, 0) = <<>>
    OBVIOUS
  <2>3. SubSeq(<<x>>, 1, 1) = <<x>>
    <3> DEFINE part == SubSeq(<<x>>, 1, 1)
    <3> DEFINE whole == <<x>>
    <3>1. whole \in Seq(Messages) /\ Len(whole) = 1 /\ whole[1] = x
      OBVIOUS
    <3>2. part \in Seq(Messages) /\ Len(part) = 1 /\ part[1] = x
      OBVIOUS
    <3> HIDE DEF part, whole
    <3>3. part = whole
      BY <3>1, <3>2
    <3> QED BY <3>3, Zenon DEF part, whole
  <2>4. Grew(x) \/ (log' = log /\ queue' = queue)
    <3>1. CASE n = 0
      BY <2>1, <2>2, <3>1, EnqueueNone, Zenon
    <3>2. CASE n = 1
      BY <2>1, <2>3, <3>2, EnqueueOne, Zenon
    <3> QED BY <3>1, <3>2
  <2>5. {<<x>>[i].seq : i \in 1 .. Len(<<x>>)} = {x.seq}
    OBVIOUS
  <2> QED BY <1>2, <2>4, <2>5, Zenon DEF PublishFails
<1> QED BY <1>1, <1>2, Zenon DEF Produce

LEMMA ProduceCounts ==
    ASSUME count \in [Counters -> Nat], NEW x, Produce(<<x>>)
    PROVE  /\ count' \in [Counters -> Nat]
           /\ \A c \in Counters \ {"sent", "errors"} : count'[c] = count[c]
<1>1. CASE count' = [count EXCEPT !["sent"] = @ + Len(<<x>>)]
  <2>1. Len(<<x>>) = 1 /\ "sent" \in Counters
    BY Zenon DEF Counters
  <2> QED BY <1>1, <2>1
<1>2. CASE count' = Recorded({"errors"})
  BY <1>2 DEF Recorded
<1> QED BY <1>1, <1>2, Zenon DEF Produce

LEMMA GrewFacts ==
    ASSUME ChannelInv, NEW x \in Messages, Grew(x)
    PROVE  /\ log' \in Seq(Messages) /\ Len(log') = Len(log) + 1
           /\ Len(log) + 1 \in Numbers(log') /\ log'[Len(log) + 1] = x
           /\ Numbers(log') = Numbers(log) \cup {Len(log) + 1}
           /\ \A i \in Numbers(log) : log'[i] = log[i]
           /\ queue' \in [Subs -> SUBSET Numbers(log')]
<1> USE DEF ChannelInv, Grew
<1>1. log' \in Seq(Messages) /\ Len(log') = Len(log) + 1 /\ log'[Len(log) + 1] = x
  OBVIOUS
<1>2. Len(log) \in Nat
  OBVIOUS
<1>3. Numbers(log') = Numbers(log) \cup {Len(log) + 1}
  BY <1>1, <1>2 DEF Numbers
<1>4. \A i \in Numbers(log) : log'[i] = log[i]
  BY DEF Numbers
<1>5. queue' \in [Subs -> SUBSET Numbers(log')]
  BY <1>3, Zenon
<1> QED BY <1>1, <1>3, <1>4, <1>5, Zenon

LEMMA FirstIn == First \in Subs
  BY ChannelAssumption, Zenon DEF First

LEMMA MessageType ==
    ASSUME ChannelInv, NEW p \in Producers
    PROVE  Message(p, seq + 1) \in Messages /\ Message(p, seq + 1).by = p
           /\ Message(p, seq + 1).seq = seq + 1
  BY DEF ChannelInv, Messages, Message, Keyed

(* How the steps keep what the subscriptions hold within the log. *)
LEMMA ProduceKeepsChannel ==
    ASSUME ChannelInv, NEW p \in Producers, Produce(<<Message(p, seq + 1)>>),
           kind' = kind, seq' = seq + 1
    PROVE  ChannelInv'
<1> DEFINE x == Message(p, seq + 1)
<1>1. x \in Messages
  BY MessageType, Zenon
<1>2. seen' = seen /\ (Grew(x) \/ (log' = log /\ queue' = queue))
  BY <1>1, ProduceOne, Zenon DEF ChannelInv
<1>3. CASE Grew(x)
  <2> HIDE DEF x
  <2>1. log' \in Seq(Messages) /\ queue' \in [Subs -> SUBSET Numbers(log')]
        /\ Numbers(log) \subseteq Numbers(log')
    BY <1>1, <1>3, GrewFacts, Zenon
  <2> QED BY <1>2, <2>1 DEF ChannelInv
<1>4. CASE log' = log /\ queue' = queue
  BY <1>2, <1>4 DEF ChannelInv
<1> QED BY <1>2, <1>3, <1>4, Zenon

LEMMA ReceiveKeepsChannel ==
    ASSUME ChannelInv, NEW m, Deliver(First, m), kind' = kind, seq' = seq,
           queue' = queue \/ queue' = [queue EXCEPT ![First] = @ \ {m}]
    PROVE  /\ ChannelInv'
           /\ m \in queue[First] /\ m \in Numbers(log)
           /\ seen' = [seen EXCEPT ![First] = @ \cup {m}]
           /\ log' = log
<1>1. m \in queue[First] /\ seen' = [seen EXCEPT ![First] = @ \cup {m}] /\ log' = log
  BY Zenon DEF Deliver
<1>2. m \in Numbers(log)
  BY <1>1, FirstIn, Zenon DEF ChannelInv
<1> QED BY <1>1, <1>2, FirstIn, Zenon DEF ChannelInv

LEMMA RestKeepsChannel ==
    ASSUME ChannelInv, kind' = kind, seq' \in Nat, log' = log, queue' = queue, seen' = seen
    PROVE  ChannelInv'
  BY Zenon DEF ChannelInv

LEMMA LoseKeepsChannel ==
    ASSUME ChannelInv, NEW s \in Subs, NEW m, ConnectorLoses(s, m)
    PROVE  ChannelInv'
  BY Zenon DEF ChannelInv, ConnectorLoses, Lose, engine

-----------------------------------------------------------------------------
(* nack_redelivery                                                         *)

(* A handler that removes m from the queue leaves the messages of the other ids there. *)
LEMMA NackHandled ==
    ASSUME ChannelInv, NackInv, NEW m \in queue[First], nack_redelivery_handleMessage(First, m)
    PROVE  ChannelInv' /\ NackInv'
<1>a. kind' = kind /\ seq' = seq /\ Deliver(First, m)
  BY Zenon DEF nack_redelivery_handleMessage, engine
<1>b. queue' = queue \/ queue' = [queue EXCEPT ![First] = @ \ {m}]
  BY Zenon DEF nack_redelivery_handleMessage, Redelivery, FirstReceipt, Ack, Nack
<1>c. /\ ChannelInv' /\ m \in Numbers(log) /\ log' = log
      /\ seen' = [seen EXCEPT ![First] = @ \cup {m}]
  BY <1>a, <1>b, ReceiveKeepsChannel, Zenon
<1>d. IdOf(m) \in Ids /\ \A e : IdOf(e)' = IdOf(e)
  <2>1. log[m] \in Messages
    BY <1>c DEF ChannelInv, Numbers
  <2> QED BY <1>c, <2>1, Zenon DEF IdOf, Ids, Messages
<1>e. \A e \in queue[First] \cap seen[First] :
         e # m \/ queue' = queue => e \in queue'[First] \cap seen'[First]
  BY <1>b, <1>c, FirstIn, Zenon DEF ChannelInv
<1>f. queue' = queue => m \in queue'[First] \cap seen'[First]
  BY <1>c, FirstIn, Zenon DEF ChannelInv
<1>1. CASE IdOf(m) \in own.nacked /\ Redelivery(First, m)
  <2>1. own' = [nacked |-> own.nacked \ {IdOf(m)}, redelivered |-> own.redelivered \cup {IdOf(m)}]
    BY <1>1, Zenon DEF Redelivery
  <2>2. own' \in [nacked : SUBSET Ids, redelivered : SUBSET Ids]
        /\ own'.nacked \cap own'.redelivered = {}
    BY <2>1, <1>d, Zenon DEF NackInv
  <2>3. \A id \in own'.nacked : \E e \in queue'[First] \cap seen'[First] : IdOf(e) = id
    BY <2>1, <1>e, Zenon DEF NackInv
  <2> QED BY <1>c, <1>d, <2>2, <2>3, Zenon DEF NackInv
<1>2. CASE own' = own /\ IdOf(m) \notin own.nacked
  BY <1>2, <1>c, <1>d, <1>e, Zenon DEF NackInv
<1>3. CASE /\ IdOf(m) \notin own.nacked \cup own.redelivered
           /\ own' = [own EXCEPT !.nacked = @ \cup {IdOf(m)}] /\ queue' = queue
  <2>1. own'.nacked = own.nacked \cup {IdOf(m)} /\ own'.redelivered = own.redelivered
        /\ own' \in [nacked : SUBSET Ids, redelivered : SUBSET Ids]
    BY <1>3, <1>d, Zenon DEF NackInv
  <2>2. own'.nacked \cap own'.redelivered = {}
    BY <2>1, <1>3, Zenon DEF NackInv
  <2>3. \A id \in own'.nacked : \E e \in queue'[First] \cap seen'[First] : IdOf(e) = id
    BY <2>1, <1>3, <1>e, <1>f, Zenon DEF NackInv
  <2> QED BY <1>c, <1>d, <2>1, <2>2, <2>3, Zenon DEF NackInv
<1>4. IdOf(m) \in own.redelivered => IdOf(m) \notin own.nacked
  BY Zenon DEF NackInv
<1> QED
  BY <1>1, <1>2, <1>3, <1>4, Zenon DEF nack_redelivery_handleMessage, FirstReceipt, Nack

LEMMA NackOthers ==
    ASSUME ChannelInv, NackInv, kind = "nack_redelivery",
           \/ \E p \in Producers : nack_redelivery_produceLoop(p)
           \/ BaseStopProducers \/ BaseReset \/ Capture \/ BaseStopConsumers
           \/ \E s \in Subs : \E m \in queue[s] : ConnectorLoses(s, m)
    PROVE  ChannelInv' /\ NackInv'
<1>1. ASSUME NEW p \in Producers, nack_redelivery_produceLoop(p)
      PROVE  ChannelInv' /\ NackInv'
  <2> DEFINE x == Message(p, seq + 1)
  <2>1. Produce(<<x>>) /\ seq' = seq + 1 /\ kind' = kind /\ own' = own
    BY <1>1, Zenon DEF nack_redelivery_produceLoop, PublishNext, engine
  <2>2. ChannelInv' /\ x \in Messages
    BY <2>1, ProduceKeepsChannel, MessageType, Zenon
  <2>3. seen' = seen /\ (Grew(x) \/ (log' = log /\ queue' = queue))
    BY <2>1, <2>2, ProduceOne, Zenon DEF ChannelInv
  <2>4. queue[First] \subseteq queue'[First] /\ \A e \in queue[First] : log'[e] = log[e]
    <3>1. CASE Grew(x)
      <4> HIDE DEF x
      <4>1. \A i \in Numbers(log) : log'[i] = log[i]
        BY <2>2, <3>1, GrewFacts, Zenon
      <4> QED BY <3>1, <4>1, FirstIn, Zenon DEF Grew, ChannelInv
    <3>2. CASE log' = log /\ queue' = queue
      BY <3>2, Zenon
    <3> QED BY <2>3, <3>1, <3>2, Zenon
  <2>5. \A id \in own.nacked : \E e \in queue'[First] \cap seen'[First] : IdOf(e)' = id
    BY <2>3, <2>4, Zenon DEF NackInv, IdOf
  <2> QED BY <2>1, <2>2, <2>5, Zenon DEF NackInv
<1>2. CASE BaseStopProducers \/ BaseReset \/ Capture \/ BaseStopConsumers
  <2>1. UNCHANGED <<kind, seq, own, log, queue, seen>>
    BY <1>2, Zenon DEF BaseStopProducers, StopProducers, BaseReset, Reset, Capture, BaseStopConsumers,
       StopConsumers, connector
  <2>2. ChannelInv'
    BY <2>1, RestKeepsChannel, Zenon DEF ChannelInv
  <2> QED BY <2>1, <2>2, Zenon DEF NackInv, IdOf
<1>3. ASSUME NEW s \in Subs, NEW m \in queue[s], ConnectorLoses(s, m)
      PROVE  ChannelInv' /\ NackInv'
  <2>1. /\ m \notin seen[s] /\ queue' = [queue EXCEPT ![s] = @ \ {m}]
        /\ UNCHANGED <<own, log, seen>>
    BY <1>3, Zenon DEF ConnectorLoses, Lose
  <2>2. queue[First] \cap seen[First] \subseteq queue'[First]
    BY <2>1, FirstIn, Zenon DEF ChannelInv
  <2> QED BY <1>3, <2>1, <2>2, LoseKeepsChannel, Zenon DEF NackInv, IdOf
<1> QED BY <1>1, <1>2, <1>3, Zenon

-----------------------------------------------------------------------------
(* inflight_cap                                                            *)

LEMMA PullKeeps ==
    ASSUME ChannelInv, InflightInv, pullLoop
    PROVE  ChannelInv' /\ InflightInv'
<1>1. PICK b \in SUBSET queue[First] :
         own' = [own EXCEPT !.batch = b, !.leased = @ \cup b, !.drain = own.draining]
  BY Zenon DEF pullLoop
<1>2. b \subseteq Nat
  BY <1>1, FirstIn DEF ChannelInv, Numbers
<1>3. UNCHANGED <<kind, phase, seq, log, queue, seen>>
  BY Zenon DEF pullLoop, engine, connector
<1>4. ChannelInv'
  BY <1>3, RestKeepsChannel, Zenon DEF ChannelInv
<1> QED BY <1>1, <1>2, <1>3, <1>4, Zenon DEF InflightInv

LEMMA PulledKeeps ==
    ASSUME ChannelInv, InflightInv, NEW m, handlePulled(m)
    PROVE  ChannelInv' /\ InflightInv'
<1>1. UNCHANGED <<kind, phase, seq>> /\ Deliver(First, m) /\ m \in own.batch
  BY Zenon DEF handlePulled, engine
<1>2. queue' = queue \/ queue' = [queue EXCEPT ![First] = @ \ {m}]
  BY Zenon DEF handlePulled, Ack
<1>3. ChannelInv' /\ m \in Numbers(log)
  BY <1>1, <1>2, ReceiveKeepsChannel, Zenon
<1>4. CASE own.drain
  <2>1. own' = [own EXCEPT !.batch = @ \ {m}, !.leased = @ \ {m}]
    BY <1>4, Zenon DEF handlePulled
  <2> QED BY <1>1, <1>3, <2>1, Zenon DEF InflightInv
<1>5. CASE ~own.drain
  <2>1. own' = [own EXCEPT !.batch = @ \ {m}, !.held = @ \cup {m}]
    BY <1>5, Zenon DEF handlePulled
  <2>2. m \in Nat
    BY <1>3 DEF Numbers
  <2> QED BY <1>1, <1>3, <1>5, <2>1, <2>2, Zenon DEF InflightInv
<1> QED BY <1>4, <1>5, Zenon

LEMMA ReleaseKeeps ==
    ASSUME ChannelInv, InflightInv, inflight_cap_StopProducers
    PROVE  ChannelInv' /\ InflightInv'
<1>1. PICK acked : own' = Released(acked) /\ ackMany(acked)
  BY Zenon DEF inflight_cap_StopProducers
<1>2. own' \in [held : SUBSET Nat, draining : BOOLEAN, released : BOOLEAN, batch : SUBSET Nat,
                drain : BOOLEAN, leased : SUBSET Nat, straddling : SUBSET Nat]
      /\ own'.draining /\ own'.held = {} /\ own'.drain = own.drain /\ own'.batch = own.batch
      /\ own'.straddling = {m \in own.batch : ~own.drain}
  BY <1>1, Zenon DEF InflightInv, Released
<1>3. ~own'.drain => own'.batch \subseteq own'.straddling
  BY <1>2, Zenon
<1>4. ChannelInv'
  <2>1. UNCHANGED <<kind, seq, log, seen>> /\ queue' = [queue EXCEPT ![First] = @ \ acked]
    BY <1>1, Zenon DEF inflight_cap_StopProducers, StopProducers, ackMany
  <2> QED BY <2>1, FirstIn, Zenon DEF ChannelInv
<1> QED BY <1>2, <1>3, <1>4, Zenon DEF InflightInv

LEMMA InflightOthers ==
    ASSUME ChannelInv, InflightInv, kind = "inflight_cap",
           \/ \E p \in Producers : inflight_cap_produceLoop(p)
           \/ \E m \in 1 .. Len(log) : LeaseExpires(m)
           \/ inflight_cap_ResetAfterWarmup \/ inflight_cap_StopConsumers \/ Capture
           \/ \E s \in Subs : \E m \in queue[s] : ConnectorLoses(s, m)
    PROVE  ChannelInv' /\ InflightInv'
<1>1. ASSUME NEW p \in Producers, inflight_cap_produceLoop(p)
      PROVE  ChannelInv' /\ InflightInv'
  <2>1. /\ Produce(<<Message(p, seq + 1)>>) /\ seq' = seq + 1
        /\ UNCHANGED <<kind, phase, own>>
    BY <1>1, Zenon DEF inflight_cap_produceLoop, PublishNext, engine
  <2> QED BY <2>1, ProduceKeepsChannel, Zenon DEF InflightInv
<1>2. ASSUME NEW m \in 1 .. Len(log), LeaseExpires(m)
      PROVE  ChannelInv' /\ InflightInv'
  <2>1. /\ UNCHANGED <<kind, phase, seq, log, queue, seen>>
        /\ own' = [own EXCEPT !.leased = @ \ {m}]
    BY <1>2, Zenon DEF LeaseExpires, engine
  <2>2. ChannelInv'
    BY <2>1, RestKeepsChannel, Zenon DEF ChannelInv
  <2> QED BY <2>1, <2>2, Zenon DEF InflightInv
<1>3. CASE inflight_cap_ResetAfterWarmup
  <2>1. /\ UNCHANGED <<kind, log, queue, seen>> /\ seq' = 0 /\ phase' = "measuring"
        /\ own' = [own EXCEPT !.draining = FALSE, !.released = FALSE, !.held = {}, !.straddling = {}]
    BY <1>3, Zenon DEF inflight_cap_ResetAfterWarmup, Reset
  <2>2. ChannelInv'
    BY <2>1, RestKeepsChannel, Zenon
  <2> QED BY <2>1, <2>2, Zenon DEF InflightInv, Stopping
<1>4. CASE inflight_cap_StopConsumers \/ Capture
  <2>1. UNCHANGED <<kind, seq, log, queue, seen, own>> /\ phase \in Stopping
    BY <1>4, Zenon DEF inflight_cap_StopConsumers, StopConsumers, Capture, connector, Stopping
  <2>2. ChannelInv'
    BY <2>1, RestKeepsChannel, Zenon DEF ChannelInv
  <2> QED BY <2>1, <2>2, Zenon DEF InflightInv
<1>5. ASSUME NEW s \in Subs, NEW m \in queue[s], ConnectorLoses(s, m)
      PROVE  ChannelInv' /\ InflightInv'
  <2>1. UNCHANGED <<own, phase>>
    BY <1>5, Zenon DEF ConnectorLoses, Lose, engine
  <2> QED BY <1>5, <2>1, LoseKeepsChannel, Zenon DEF InflightInv
<1> QED BY <1>1, <1>2, <1>3, <1>4, <1>5, Zenon
-----------------------------------------------------------------------------
(* dead_letter and cross_protocol_interop                                  *)

ReconcilingKinds == {"dead_letter", "cross_protocol_interop"}

LEMMA OneMessagePerId ==
    ASSUME ChannelInv, LogInv, NEW i \in Numbers(log), NEW j \in Numbers(log), Id(i) = Id(j)
    PROVE  i = j
<1>1. log[i].seq = log[j].seq /\ i \in Int /\ j \in Int
  BY DEF Id, Numbers
<1>2. log[i].seq \in Nat /\ log[j].seq \in Nat
  <2>1. log[i] \in Messages /\ log[j] \in Messages
    BY DEF ChannelInv, Numbers
  <2> QED BY <2>1, Zenon DEF Messages
<1>3. ~(i < j) /\ ~(j < i)
  BY <1>1, <1>2 DEF LogInv
<1> QED BY <1>1, <1>3

LEMMA SeqType ==
    ASSUME ChannelInv
    PROVE  \A i \in Numbers(log) : log[i].seq \in Nat /\ i \in Nat /\ i <= Len(log)
<1> TAKE i \in Numbers(log)
<1>1. log[i] \in Messages /\ i \in Nat /\ i <= Len(log)
  BY DEF ChannelInv, Numbers
<1> QED BY <1>1, Zenon DEF Messages

LEMMA IdType ==
    ASSUME ChannelInv, NEW m \in Numbers(log)
    PROVE  Id(m) \in Ids
<1>1. log[m] \in Messages
  BY DEF ChannelInv, Numbers
<1> QED BY <1>1, Zenon DEF Id, Ids, Messages

(***************************************************************************)
(* What reconciling counts: the ids in o that were published and have not  *)
(* arrived are those of the messages the connector lost.                   *)
(***************************************************************************)
LEMMA MissingAreLost ==
    ASSUME ChannelInv, ReconcilingInv, NEW o \in SUBSET (own.published \ InFlight)
    PROVE  LET X == {x \in lost : x[2] > mark /\ Id(x[2]) \in o}
           IN  IsFiniteSet(X) /\ Cardinality(Missing(o)) = Cardinality(X)
<1> DEFINE X == {x \in lost : x[2] > mark /\ Id(x[2]) \in o}
<1> DEFINE f == [x \in X |-> Id(x[2])]
<1>a. LogInv /\ PlaceInv /\ MapsInv
  BY Zenon DEF ReconcilingInv
<1>b. \A x \in X : x = <<First, x[2]>> /\ x[2] \in Numbers(log) /\ x[2] \notin seen[First]
  BY <1>a DEF PlaceInv
<1>c. seen[First] \subseteq Numbers(log)
  BY FirstIn, Zenon DEF ChannelInv
<1>1. IsFiniteSet(X)
  <2>1. IsFiniteSet(Numbers(log)) /\ IsFiniteSet({First})
    <3>1. Len(log) \in Int
      BY DEF ChannelInv
    <3>2. IsFiniteSet(1 .. Len(log))
      BY <3>1, FS_Interval
    <3> QED BY <3>2, FS_Singleton, Zenon DEF Numbers
  <2>2. IsFiniteSet({First} \X Numbers(log)) /\ X \subseteq {First} \X Numbers(log)
    BY <1>a, <2>1, FS_Product, Zenon DEF PlaceInv
  <2> QED BY <2>2, FS_Subset, Zenon
<1>2. \A x \in X : f[x] \in Missing(o)
  <2> TAKE x \in X
  <2>1. Id(x[2]) \in o /\ Id(x[2]) \in own.published
    BY Zenon
  <2>2. Id(x[2]) \notin own.arrived
    <3> SUFFICES ASSUME Id(x[2]) \in own.arrived PROVE FALSE
      BY Zenon
    <3>1. PICK m \in seen[First] : Id(x[2]) = Id(m)
      BY <1>a, Zenon DEF MapsInv
    <3> QED BY <1>a, <1>b, <1>c, <3>1, OneMessagePerId, Zenon
  <2> QED BY <2>1, <2>2, Zenon DEF Missing
<1>3. \A x, y \in X : f[x] = f[y] => x = y
  <2> TAKE x, y \in X
  <2> HAVE f[x] = f[y]
  <2>1. x[2] = y[2]
    BY <1>a, <1>b, OneMessagePerId, Zenon
  <2> QED BY <1>b, <2>1, Zenon
<1>4. \A id \in Missing(o) : \E x \in X : f[x] = id
  <2> TAKE id \in Missing(o)
  <2>1. id \in own.published /\ id \notin own.arrived /\ id \in o /\ id \notin InFlight
    BY Zenon DEF Missing
  <2>2. PICK m \in Numbers(log) :
           /\ m > mark /\ Id(m) = id
           /\ \/ m \in own.source \cup queue[First]
              \/ <<First, m>> \in lost
              \/ id \in own.arrived
    BY <1>a, <2>1, Zenon DEF MapsInv
  <2>3. m \notin own.source \cup queue[First]
    BY <2>1, <2>2, Zenon DEF InFlight
  <2>4. <<First, m>> \in X
    BY <2>1, <2>2, <2>3, Zenon
  <2>5. f[<<First, m>>] = id
    BY <2>2, <2>4, Zenon
  <2> QED BY <2>4, <2>5, Zenon
<1> HIDE DEF X
<1>5. f \in Bijection(X, Missing(o))
  BY <1>2, <1>3, <1>4, Zenon DEF Bijection, Injection, Surjection, IsInjective
<1>6. ExistsBijection(X, Missing(o))
  BY <1>5, Zenon DEF ExistsBijection
<1> QED BY <1>1, <1>6, FS_Bijection, Zenon DEF X
(* One map entry per publish that the connector has answered. *)
LEMMA EnterFacts ==
    ASSUME ChannelInv, ReconcilingInv, NEW p \in Producers, PublishAndEnter(p)
    PROVE  /\ UNCHANGED <<kind, phase, mark, seen, lost, late>> /\ seq' = seq + 1
           /\ phase \in {"warmup", "measuring"} /\ Len(log) < MaxPublish[kind]
           /\ count' \in [Counters -> Nat]
           /\ \A c \in Counters \ {"sent", "errors"} : count'[c] = count[c]
           /\ own'.arrived = own.arrived /\ own'.overdue = own.overdue /\ own'.attempt = own.attempt
           /\ own' \in [published : SUBSET Ids, arrived : SUBSET Ids, overdue : SUBSET Ids,
                        source : SUBSET Nat, attempt : [1 .. MaxPublish[kind] -> Nat]]
           /\ \A h \in holes' : h \in Nat /\ h <= seq + 1
           /\ \/ /\ Grew(Message(p, seq + 1))
                 /\ own'.published \subseteq own.published \cup {<<p, seq + 1>>}
                 /\ own'.source = IF kind = "dead_letter" THEN own.source \cup {Len(log) + 1}
                                                          ELSE own.source
              \/ /\ log' = log /\ queue' = queue
                 /\ own'.published = own.published /\ own'.source = own.source
<1> DEFINE x == Message(p, seq + 1)
<1>a. x \in Messages /\ x.seq = seq + 1
  BY MessageType, Zenon
<1>b. Produce(<<x>>) /\ Producing /\ seq' = seq + 1
      /\ UNCHANGED <<kind, phase, mark>>
      /\ own' = [own EXCEPT !.published = IF holes' = holes THEN @ \cup {<<p, seq + 1>>} ELSE @,
                            !.source = IF kind = "dead_letter" THEN @ \cup (Len(log) + 1 .. Len(log'))
                                                               ELSE @]
  BY Zenon DEF PublishAndEnter, engine
<1>c. count \in [Counters -> Nat] /\ LogInv /\ seq \in Nat /\ Len(log) \in Nat
  BY DEF ReconcilingInv, ChargeInv, ChannelInv
<1>d. /\ \/ Grew(x) /\ holes' = holes
         \/ /\ Grew(x) \/ (log' = log /\ queue' = queue)
            /\ holes' = holes \cup {seq + 1}
      /\ UNCHANGED <<seen, lost, late>>
  BY <1>a, <1>b, ProduceOne, Zenon DEF ChannelInv
<1>e. count' \in [Counters -> Nat] /\ \A c \in Counters \ {"sent", "errors"} : count'[c] = count[c]
  BY <1>b, <1>c, ProduceCounts, Zenon
<1>f. \A h \in holes' : h \in Nat /\ h <= seq + 1
  <2>1. \A h \in holes : h \in Nat /\ h <= seq
    BY <1>c, Zenon DEF LogInv
  <2>2. holes' \subseteq holes \cup {seq + 1}
    BY <1>d, Zenon
  <2> QED BY <1>c, <2>1, <2>2
<1>g. holes' = holes \cup {seq + 1} => holes' # holes
  BY <1>c DEF LogInv
<1>h. phase \in {"warmup", "measuring"} /\ Len(log) < MaxPublish[kind]
  BY <1>b, Zenon DEF Producing
<1> HIDE DEF x
<1>i. <<p, seq + 1>> \in Ids
  BY <1>c DEF Ids
<1>j. own \in [published : SUBSET Ids, arrived : SUBSET Ids, overdue : SUBSET Ids,
               source : SUBSET Nat, attempt : [1 .. MaxPublish[kind] -> Nat]]
  BY Zenon DEF ReconcilingInv
<1>1. CASE Grew(x)
  <2>1. Len(log') = Len(log) + 1
    BY <1>a, <1>1, GrewFacts, Zenon
  <2>2. Len(log) + 1 .. Len(log') = {Len(log) + 1}
    BY <1>c, <2>1
  <2> DEFINE pub == IF holes' = holes THEN own.published \cup {<<p, seq + 1>>} ELSE own.published
  <2> DEFINE src == IF kind = "dead_letter" THEN own.source \cup {Len(log) + 1} ELSE own.source
  <2>3. own' = [own EXCEPT !.published = pub, !.source = src]
    BY <1>b, <1>j, <2>2, Zenon
  <2>p. pub \in SUBSET Ids /\ src \in SUBSET Nat /\ pub \subseteq own.published \cup {<<p, seq + 1>>}
    BY <1>c, <1>i, <1>j
  <2> HIDE DEF pub
  <2>4. own' \in [published : SUBSET Ids, arrived : SUBSET Ids, overdue : SUBSET Ids,
                  source : SUBSET Nat, attempt : [1 .. MaxPublish[kind] -> Nat]]
    <3> HIDE DEF src
    <3> QED BY <1>j, <2>3, <2>p, Zenon
  <2>5. /\ own'.published \subseteq own.published \cup {<<p, seq + 1>>}
        /\ own'.source = IF kind = "dead_letter" THEN own.source \cup {Len(log) + 1} ELSE own.source
        /\ own'.arrived = own.arrived /\ own'.overdue = own.overdue /\ own'.attempt = own.attempt
    BY <1>j, <2>3, <2>p, Zenon
  <2> QED BY <1>b, <1>d, <1>e, <1>f, <1>h, <1>1, <2>4, <2>5, Zenon DEF x
<1>2. CASE log' = log /\ queue' = queue /\ holes' = holes \cup {seq + 1}
  <2>1. Len(log) + 1 .. Len(log') = {}
    BY <1>c, <1>2
  <2>2. own' = own
    BY <1>b, <1>g, <1>j, <1>2, <2>1, Zenon
  <2> QED BY <1>b, <1>d, <1>e, <1>f, <1>h, <1>j, <1>2, <2>2, Zenon
<1> QED BY <1>d, <1>1, <1>2, Zenon

LEMMA EnterKeeps ==
    ASSUME ChannelInv, ReconcilingInv, kind \in ReconcilingKinds, NEW p \in Producers,
           PublishAndEnter(p)
    PROVE  ChannelInv' /\ ReconcilingInv'
<1> DEFINE x == Message(p, seq + 1)
<1>a. LogInv /\ PlaceInv /\ MapsInv /\ ChargeInv /\ (kind = "dead_letter" => AttemptInv)
  BY Zenon DEF ReconcilingInv
<1>b. seq \in Nat /\ Len(log) \in Nat /\ mark \in 0 .. Len(log) /\ queue \in [Subs -> SUBSET Numbers(log)]
  <2>1. queue \in [Subs -> SUBSET Numbers(log)] /\ seq \in Nat /\ Len(log) \in Nat
    BY DEF ChannelInv
  <2>2. mark \in 0 .. Len(log)
    BY <1>a, Zenon DEF LogInv
  <2> QED BY <2>1, <2>2, Zenon
<1>n. PICK n \in Nat : n = Len(log) + 1
  BY <1>b
<1>c. x \in Messages /\ x.by = p /\ x.seq = seq + 1
  BY MessageType, Zenon
<1>d. ChannelInv'
  BY EnterFacts, ProduceKeepsChannel, Zenon DEF PublishAndEnter
<1>k. /\ UNCHANGED <<kind, phase, mark, seen, lost, late>> /\ seq' = seq + 1
      /\ own'.arrived = own.arrived /\ own'.overdue = own.overdue /\ own'.attempt = own.attempt
      /\ \A h \in holes' : h \in Nat /\ h <= seq + 1
  BY EnterFacts, Zenon
<1>t. \A i \in Numbers(log) : log[i].seq \in Nat /\ i \in Nat /\ i <= Len(log)
  BY SeqType, Zenon
<1>e. ChargeInv'
  <2>1. count' \in [Counters -> Nat] /\ phase' = phase /\ phase # "stopped"
        /\ count'["deadLetterLost"] = count["deadLetterLost"]
        /\ count'["interopDiverged"] = count["interopDiverged"]
    BY EnterFacts, Zenon DEF Counters
  <2> QED BY <1>a, <2>1, Zenon DEF ChargeInv
<1>f. count'["deliveryAttemptMax"] = count["deliveryAttemptMax"]
      /\ count'["deadLetterRepublished"] = count["deadLetterRepublished"]
  BY EnterFacts, Zenon DEF Counters
<1>1. CASE log' = log /\ queue' = queue /\ own'.published = own.published /\ own'.source = own.source
  <2>1. LogInv'
    <3>1. \A i \in Numbers(log) : log[i].seq <= seq + 1
      BY <1>a, <1>b, <1>t DEF LogInv
    <3> QED BY <1>1, <1>a, <1>k, <3>1, Zenon DEF LogInv
  <2>2. PlaceInv'
    BY <1>1, <1>a, <1>k, Zenon DEF PlaceInv
  <2>3. MapsInv'
    BY <1>1, <1>a, <1>k DEF MapsInv, Id
  <2>4. kind = "dead_letter" => AttemptInv'
    BY <1>1, <1>a, <1>f, <1>k, Zenon DEF AttemptInv
  <2> QED BY <1>d, <1>e, <2>1, <2>2, <2>3, <2>4, EnterFacts, Zenon DEF ReconcilingInv
<1>2. CASE /\ Grew(x)
           /\ own'.published \subseteq own.published \cup {<<p, seq + 1>>}
           /\ own'.source = IF kind = "dead_letter" THEN own.source \cup {n} ELSE own.source
  <2> HIDE DEF x
  <2>1. /\ Len(log') = n /\ n \in Numbers(log') /\ log'[n] = x
        /\ Numbers(log') = Numbers(log) \cup {n} /\ n \notin Numbers(log)
        /\ \A i \in Numbers(log) : log'[i] = log[i]
    BY <1>b, <1>c, <1>n, <1>2, GrewFacts DEF Numbers
  <2>2. /\ \A s \in Subs : s # First => queue'[s] = {}
        /\ queue'[First] = IF kind = "dead_letter" THEN queue[First] ELSE queue[First] \cup {n}
    BY <1>2, <1>a, <1>n, FirstIn, Zenon DEF Grew, SubsOf, PlaceInv, ReconcilingKinds
  <2>3. /\ own'.source \cup queue'[First] = own.source \cup queue[First] \cup {n}
        /\ own'.source \cap queue'[First] = {}
    BY <1>2, <1>a, <1>b, <2>1, <2>2, FirstIn DEF PlaceInv
  <2>4. \A m \in Numbers(log) : Id(m)' = Id(m)
    BY <2>1, Zenon DEF Id
  <2>5. Id(n)' = <<p, seq + 1>>
    BY <1>c, <2>1, Zenon DEF Id
  <2>6. LogInv'
    <3>1. \A i \in Numbers(log) : log[i].seq \in Nat /\ i \in Nat /\ i < n
      BY <1>b, <1>n, <1>t
    <3>2. \A i \in Numbers(log') : log'[i].seq <= seq'
      <4>1. \A i \in Numbers(log) : log[i].seq <= seq
        BY <1>a, Zenon DEF LogInv
      <4>2. \A i \in Numbers(log) : log'[i].seq <= seq + 1
        BY <1>b, <2>1, <3>1, <4>1
      <4>3. log'[n].seq <= seq + 1
        BY <1>b, <1>c, <2>1
      <4> QED BY <1>k, <2>1, <4>2, <4>3, Zenon
    <3>3. ASSUME NEW i \in Numbers(log'), NEW j \in Numbers(log'), i < j
          PROVE  log'[i].seq < log'[j].seq
      <4>1. CASE j = n
        <5>1. i \in Numbers(log)
          BY <1>b, <2>1, <3>3, <4>1, <1>n
        <5>2. log'[i].seq = log[i].seq /\ log'[j].seq = seq + 1
          BY <1>c, <2>1, <4>1, <5>1, Zenon
        <5>3. log[i].seq <= seq /\ log[i].seq \in Nat
          BY <1>a, <3>1, <5>1, Zenon DEF LogInv
        <5> QED BY <1>b, <5>2, <5>3
      <4>2. CASE j # n
        <5>1. j \in Numbers(log) /\ i \in Numbers(log)
          BY <1>b, <2>1, <3>1, <3>3, <4>2, <1>n
        <5> QED BY <1>a, <2>1, <3>3, <5>1, Zenon DEF LogInv
      <4> QED BY <4>1, <4>2, Zenon
    <3>4. mark' \in 0 .. Len(log')
      BY <1>b, <2>1, <1>k, <1>n
    <3> QED BY <1>a, <3>2, <3>3, <3>4, <1>k, Zenon DEF LogInv
  <2>7. PlaceInv'
    <3>1. own'.source \subseteq Numbers(log') /\ own'.source \cap seen'[First] = {}
      BY <1>2, <1>a, <2>1, FirstIn, <1>k DEF PlaceInv, ChannelInv
    <3>2. lost' \subseteq {First} \X Numbers(log')
      BY <1>a, <2>1, <1>k, Zenon DEF PlaceInv
    <3>3. \A y \in lost' : y[2] \notin own'.source \cup queue'[First] \cup seen'[First]
      BY <1>a, <2>1, <2>3, <1>k DEF PlaceInv
    <3> QED BY <2>2, <2>3, <3>1, <3>2, <3>3, Zenon DEF PlaceInv
  <2>8. MapsInv'
    <3>1. own'.arrived \subseteq {Id(m)' : m \in seen'[First]}
      BY <1>a, <2>4, FirstIn, <1>k DEF MapsInv, ChannelInv
    <3>2. ASSUME NEW id \in own'.published
          PROVE  \E m \in Numbers(log') :
                    /\ m > mark' /\ Id(m)' = id
                    /\ \/ m \in own'.source \cup queue'[First]
                       \/ <<First, m>> \in lost'
                       \/ id \in own'.arrived
      <4>1. CASE id \in own.published
        <5>1. PICK m \in Numbers(log) :
                 /\ m > mark /\ Id(m) = id
                 /\ \/ m \in own.source \cup queue[First]
                    \/ <<First, m>> \in lost
                    \/ id \in own.arrived
          BY <1>a, <4>1, Zenon DEF MapsInv
        <5> QED BY <2>1, <2>3, <2>4, <5>1, <1>k, Zenon
      <4>2. CASE id = <<p, seq + 1>>
        <5>1. n > mark
          BY <1>b, <1>n
        <5> QED BY <2>1, <2>3, <2>5, <4>2, <5>1, <1>k
      <4> QED BY <1>2, <3>2, <4>1, <4>2, Zenon
    <3> QED BY <3>1, <3>2, Zenon DEF MapsInv
  <2>9. kind = "dead_letter" => AttemptInv'
    <3> SUFFICES ASSUME kind = "dead_letter" PROVE AttemptInv'
      BY Zenon
    <3>a. MaxPublish[kind] \in Nat
      BY ChannelAssumption, Zenon DEF ChannelInv
    <3>b. Len(log) < MaxPublish[kind]
      BY EnterFacts, Zenon
    <3>1. Len(log') <= MaxPublish[kind] /\ MaxPublish[kind] \in Nat
      BY <1>b, <2>1, <1>n, <3>a, <3>b
    <3>2. \A m \in 1 .. MaxPublish[kind] : m > Len(log') => m > Len(log)
      BY <1>b, <2>1, <1>n
    <3>3. queue'[First] = queue[First]
      BY <2>2, Zenon
    <3> QED BY <1>a, <1>f, <3>1, <3>2, <3>3, <1>k DEF AttemptInv
  <2> QED BY <1>d, <1>e, <2>6, <2>7, <2>8, <2>9, EnterFacts DEF ReconcilingInv
<1> QED BY <1>n, <1>1, <1>2, EnterFacts, Zenon
LEMMA DriveKeeps ==
    ASSUME ChannelInv, ReconcilingInv, NEW m, sourceDriveLoop(m)
    PROVE  ChannelInv' /\ ReconcilingInv'
<1>a. LogInv /\ PlaceInv /\ MapsInv /\ ChargeInv /\ AttemptInv
  BY Zenon DEF ReconcilingInv, sourceDriveLoop
<1>b. /\ UNCHANGED <<kind, phase, mark, seq, log, queue, seen, lost, late, holes>>
      /\ m \in own.source /\ phase # "stopped"
      /\ own' = [own EXCEPT !.attempt[m] = @ + 1]
      /\ count' = [count EXCEPT !["deliveryAttemptMax"] = Max({@, own.attempt[m] + 1})]
  BY Zenon DEF sourceDriveLoop, engine, connector, Consuming
<1>c. m \in Numbers(log) /\ m \in 1 .. MaxPublish[kind] /\ MaxPublish[kind] \in Nat
  <2>1. m \in Numbers(log) /\ Len(log) \in Nat /\ Len(log) <= MaxPublish[kind]
    BY <1>a, <1>b DEF PlaceInv, AttemptInv, ChannelInv
  <2>2. MaxPublish[kind] \in Nat
    BY ChannelAssumption, Zenon DEF ChannelInv
  <2> QED BY <2>1, <2>2 DEF Numbers
<1>d. own.attempt \in [1 .. MaxPublish[kind] -> Nat] /\ count \in [Counters -> Nat]
  BY <1>a, Zenon DEF ReconcilingInv, ChargeInv
<1>e. Max({count["deliveryAttemptMax"], own.attempt[m] + 1}) \in Nat \ {0}
  <2>1. \A a \in Nat, b \in Nat : Max({a, b + 1}) \in Nat \ {0}
    <3> TAKE a \in Nat, b \in Nat
    <3>1. \E y \in {a, b + 1} : \A z \in {a, b + 1} : y >= z
      OBVIOUS
    <3>2. Max({a, b + 1}) \in {a, b + 1} /\ Max({a, b + 1}) >= b + 1
      BY <3>1, Zenon DEF Max
    <3> QED BY <3>2
  <2> QED BY <1>c, <1>d, <2>1, Zenon DEF Counters
<1>f. /\ count' \in [Counters -> Nat] /\ count'["deliveryAttemptMax"] > 0
      /\ \A c \in Counters \ {"deliveryAttemptMax"} : count'[c] = count[c]
  <2> DEFINE d == Max({count["deliveryAttemptMax"], own.attempt[m] + 1})
  <2>1. "deliveryAttemptMax" \in Counters
    BY Zenon DEF Counters
  <2>2. count' = [count EXCEPT !["deliveryAttemptMax"] = d] /\ d \in Nat /\ d > 0
    BY <1>b, <1>e
  <2> HIDE DEF d
  <2> QED BY <1>d, <2>1, <2>2, Zenon
<1>g. /\ own'.published = own.published /\ own'.arrived = own.arrived /\ own'.overdue = own.overdue
      /\ own'.source = own.source
      /\ own'.attempt = [own.attempt EXCEPT ![m] = @ + 1]
  BY <1>b, Zenon DEF ReconcilingInv
<1>h. own' \in [published : SUBSET Ids, arrived : SUBSET Ids, overdue : SUBSET Ids,
                source : SUBSET Nat, attempt : [1 .. MaxPublish[kind] -> Nat]]
  <2>1. [own.attempt EXCEPT ![m] = @ + 1] \in [1 .. MaxPublish[kind] -> Nat]
    BY <1>c, <1>d
  <2> QED BY <1>b, <2>1, Zenon DEF ReconcilingInv
<1>1. ChannelInv'
  BY <1>b, RestKeepsChannel, Zenon DEF ChannelInv
<1>2. LogInv' /\ PlaceInv' /\ MapsInv'
  BY <1>a, <1>b, <1>g DEF LogInv, PlaceInv, MapsInv, Id
<1>3. ChargeInv'
  <2>1. count'["deadLetterLost"] = count["deadLetterLost"]
        /\ count'["interopDiverged"] = count["interopDiverged"]
    BY <1>f, Zenon DEF Counters
  <2> QED BY <1>a, <1>b, <1>f, <2>1, Zenon DEF ChargeInv
<1>4. AttemptInv'
  <2>1. \A i \in 1 .. MaxPublish[kind] : i > Len(log) => own'.attempt[i] = 0
    <3>1. m <= Len(log)
      BY <1>c, SeqType, Zenon
    <3>2. \A i \in 1 .. MaxPublish[kind] : i # m => own'.attempt[i] = own.attempt[i]
      BY <1>d, <1>g, Zenon
    <3>3. \A i \in 1 .. MaxPublish[kind] : i > Len(log) => i # m
      BY <1>c, <3>1 DEF ChannelInv
    <3> QED BY <1>a, <3>2, <3>3, Zenon DEF AttemptInv
  <2>2. \A i \in queue[First] : own'.attempt[i] > 0
    <3> TAKE i \in queue[First]
    <3>1. own.attempt[i] > 0 /\ i \in 1 .. MaxPublish[kind]
      <4>1. i \in Numbers(log) /\ Len(log) \in Nat /\ Len(log) <= MaxPublish[kind]
        BY <1>a, FirstIn DEF ChannelInv, AttemptInv
      <4> QED BY <1>a, <1>c, <4>1 DEF AttemptInv, Numbers
    <3> QED BY <1>d, <1>g, <3>1
  <2> QED BY <1>a, <1>b, <1>f, <2>1, <2>2, Zenon DEF AttemptInv
<1> QED BY <1>b, <1>h, <1>1, <1>2, <1>3, <1>4 DEF ReconcilingInv

LEMMA DeadLetteredKeeps ==
    ASSUME ChannelInv, ReconcilingInv, NEW m, DeadLettered(m)
    PROVE  ChannelInv' /\ ReconcilingInv'
<1>a. LogInv /\ PlaceInv /\ MapsInv /\ ChargeInv /\ AttemptInv
  BY Zenon DEF ReconcilingInv, DeadLettered
<1>b. /\ UNCHANGED <<kind, phase, mark, seq, count, log, seen, lost, late, holes>>
      /\ m \in own.source /\ own.attempt[m] = MaxAttempts
      /\ own' = [own EXCEPT !.source = @ \ {m}]
      /\ queue' = [queue EXCEPT ![First] = @ \cup {m}]
  BY Zenon DEF DeadLettered, engine
<1>c. m \in Numbers(log)
  BY <1>a, <1>b, Zenon DEF PlaceInv
<1>d. /\ own'.published = own.published /\ own'.arrived = own.arrived /\ own'.overdue = own.overdue
      /\ own'.attempt = own.attempt /\ own'.source = own.source \ {m}
      /\ own' \in [published : SUBSET Ids, arrived : SUBSET Ids, overdue : SUBSET Ids,
                   source : SUBSET Nat, attempt : [1 .. MaxPublish[kind] -> Nat]]
  BY <1>b, Zenon DEF ReconcilingInv
<1>e. queue'[First] = queue[First] \cup {m} /\ \A s \in Subs : s # First => queue'[s] = queue[s]
  BY <1>b, FirstIn, Zenon DEF ChannelInv
<1>1. ChannelInv'
  BY <1>b, <1>c, FirstIn, Zenon DEF ChannelInv
<1>2. LogInv' /\ ChargeInv'
  BY <1>a, <1>b, <1>d, Zenon DEF LogInv, ChargeInv, Charged, Id
<1>3. PlaceInv'
  BY <1>a, <1>b, <1>d, <1>e DEF PlaceInv
<1>4. MapsInv'
  <2>1. own.source \cup queue[First] = own'.source \cup queue'[First]
    BY <1>b, <1>d, <1>e, Zenon
  <2>2. \A e : Id(e)' = Id(e)
    BY <1>b, Zenon DEF Id
  <2>3. own'.arrived \subseteq {Id(e)' : e \in seen'[First]}
    BY <1>a, <1>b, <1>d, <2>2 DEF MapsInv
  <2>4. ASSUME NEW id \in own.published
        PROVE  \E e \in Numbers(log) :
                  /\ e > mark /\ Id(e) = id
                  /\ \/ e \in own'.source \cup queue'[First]
                     \/ <<First, e>> \in lost
                     \/ id \in own.arrived
    BY <1>a, <2>1, <2>4, Zenon DEF MapsInv
  <2> QED BY <1>b, <1>d, <2>2, <2>3, <2>4, Zenon DEF MapsInv
<1>5. AttemptInv'
  <2>1. own.attempt[m] > 0
    BY <1>b, ReconcilingAssumption
  <2> QED BY <1>a, <1>b, <1>d, <1>e, <2>1, Zenon DEF AttemptInv
<1> QED BY <1>b, <1>d, <1>1, <1>2, <1>3, <1>4, <1>5, Zenon DEF ReconcilingInv

(* The delivery of a message, at the dead-letter subscription or to the native subscriber. *)
LEMMA ArrivalKeeps ==
    ASSUME ChannelInv, ReconcilingInv, NEW m, handleDLQMessage(m) \/ onNativeEvent(m)
    PROVE  ChannelInv' /\ ReconcilingInv'
<1>a. LogInv /\ PlaceInv /\ MapsInv /\ ChargeInv /\ (kind = "dead_letter" => AttemptInv)
  BY Zenon DEF ReconcilingInv
<1>b. /\ UNCHANGED <<kind, phase, mark, seq, holes>>
      /\ Deliver(First, m)
      /\ own' = [own EXCEPT !.arrived = @ \cup {Id(m)}]
      /\ queue' = queue \/ queue' = [queue EXCEPT ![First] = @ \ {m}]
  BY Zenon DEF handleDLQMessage, onNativeEvent, engine, Ack
<1>c. ChannelInv' /\ m \in Numbers(log) /\ m \in queue[First] /\ log' = log
      /\ seen' = [seen EXCEPT ![First] = @ \cup {m}]
  BY <1>b, ReceiveKeepsChannel, Zenon
<1>d. lost' = lost /\ phase # "stopped"
      /\ late' = (late \/ (phase \notin {"warmup", "settling"} /\ m <= mark))
  BY <1>b, Zenon DEF Deliver, Consuming
<1>e. Id(m) \in Ids
  BY <1>c, IdType, Zenon
<1>f. /\ own'.published = own.published /\ own'.arrived = own.arrived \cup {Id(m)}
      /\ own'.overdue = own.overdue /\ own'.attempt = own.attempt /\ own'.source = own.source
      /\ own' \in [published : SUBSET Ids, arrived : SUBSET Ids, overdue : SUBSET Ids,
                   source : SUBSET Nat, attempt : [1 .. MaxPublish[kind] -> Nat]]
  BY <1>b, <1>e, Zenon DEF ReconcilingInv
<1>g. /\ count' \in [Counters -> Nat]
      /\ \A c \in {"deadLetterLost", "interopDiverged", "deliveryAttemptMax"} : count'[c] = count[c]
  <2>1. count \in [Counters -> Nat]
    BY <1>a, Zenon DEF ChargeInv
  <2>2. PICK cs : /\ count' = Recorded(cs)
                  /\ cs \subseteq {"acked", "duplicated", "deadLetterRepublished", "interopConverged"}
    BY Zenon DEF handleDLQMessage, onNativeEvent, recordTracked
  <2> QED BY <2>1, <2>2 DEF Recorded, Counters
<1>h. queue'[First] \subseteq queue[First] /\ queue[First] \subseteq queue'[First] \cup {m}
      /\ (\A s \in Subs : s # First => queue'[s] = queue[s])
      /\ seen'[First] = seen[First] \cup {m}
  BY <1>b, <1>c, FirstIn, Zenon DEF ChannelInv
<1>1. LogInv'
  BY <1>a, <1>b, <1>c, Zenon DEF LogInv
<1>2. PlaceInv'
  <2>1. \A s \in Subs : s # First => queue'[s] = {}
    BY <1>a, <1>h, Zenon DEF PlaceInv
  <2>2. m \notin own.source
    BY <1>a, <1>c, Zenon DEF PlaceInv
  <2>3. own'.source \subseteq Numbers(log') /\ own'.source \cap (queue'[First] \cup seen'[First]) = {}
    <3>1. own.source \subseteq Numbers(log) /\ own.source \cap (queue[First] \cup seen[First]) = {}
      BY <1>a, Zenon DEF PlaceInv
    <3>2. queue'[First] \cup seen'[First] \subseteq queue[First] \cup seen[First] \cup {m}
      BY <1>h, Zenon
    <3> QED BY <1>c, <1>f, <2>2, <3>1, <3>2, Zenon
  <2>4. lost' \subseteq {First} \X Numbers(log')
    BY <1>a, <1>c, <1>d, Zenon DEF PlaceInv
  <2>5. \A x \in lost : x[2] # m
    BY <1>a, <1>c DEF PlaceInv
  <2>6. \A x \in lost' : x[2] \notin own'.source \cup queue'[First] \cup seen'[First]
    BY <1>a, <1>d, <1>f, <1>h, <2>5, Zenon DEF PlaceInv
  <2> QED BY <2>1, <2>3, <2>4, <2>6, Zenon DEF PlaceInv
<1>3. MapsInv'
  <2>1. \A e : Id(e)' = Id(e)
    BY <1>c, Zenon DEF Id
  <2>2. own'.arrived \subseteq {Id(e)' : e \in seen'[First]}
    BY <1>a, <1>f, <1>h, <2>1 DEF MapsInv
  <2>3. ASSUME NEW id \in own.published
        PROVE  \E e \in Numbers(log) :
                  /\ e > mark /\ Id(e) = id
                  /\ \/ e \in own'.source \cup queue'[First]
                     \/ <<First, e>> \in lost
                     \/ id \in own'.arrived
    <3>1. PICK e \in Numbers(log) :
             /\ e > mark /\ Id(e) = id
             /\ \/ e \in own.source \cup queue[First]
                \/ <<First, e>> \in lost
                \/ id \in own.arrived
      BY <1>a, <2>3, Zenon DEF MapsInv
    <3> QED BY <1>f, <1>h, <3>1, Zenon
  <2> QED BY <1>b, <1>c, <1>d, <1>f, <2>1, <2>2, <2>3, Zenon DEF MapsInv
<1>4. ChargeInv'
  BY <1>a, <1>b, <1>d, <1>g, Zenon DEF ChargeInv
<1>5. kind = "dead_letter" => AttemptInv'
  <2> SUFFICES ASSUME kind = "dead_letter" PROVE AttemptInv'
    BY Zenon
  <2>1. ~late' => count["deliveryAttemptMax"] > 0
    <3> SUFFICES ASSUME ~late' PROVE count["deliveryAttemptMax"] > 0
      BY Zenon
    <3>1. m > mark
      <4>1. m \in Nat /\ m >= 1 /\ mark \in Nat
        BY <1>a, <1>c DEF LogInv, Numbers
      <4>2. CASE phase \in {"warmup", "settling"}
        BY <1>a, <4>1, <4>2 DEF LogInv
      <4>3. CASE phase \notin {"warmup", "settling"}
        <5>1. ~(m <= mark)
          BY <1>d, <4>3, Zenon
        <5> QED BY <4>1, <5>1
      <4> QED BY <4>2, <4>3, Zenon
    <3>2. own.attempt[m] > 0 /\ m \in 1 .. MaxPublish[kind]
      <4>1. Len(log) \in Nat /\ Len(log) <= MaxPublish[kind] /\ MaxPublish[kind] \in Nat
        BY <1>a, ChannelAssumption DEF ChannelInv, AttemptInv
      <4> QED BY <1>a, <1>c, <4>1 DEF AttemptInv, Numbers
    <3> QED BY <1>a, <3>1, <3>2, Zenon DEF AttemptInv
  <2>2. count'["deliveryAttemptMax"] = count["deliveryAttemptMax"]
    BY <1>g, Zenon
  <2> QED BY <1>a, <1>b, <1>c, <1>f, <1>h, <2>1, <2>2 DEF AttemptInv
<1> QED BY <1>b, <1>c, <1>f, <1>1, <1>2, <1>3, <1>4, <1>5 DEF ReconcilingInv
LEMMA ClearKeeps ==
    ASSUME ChannelInv, ReconcilingInv, kind \in ReconcilingKinds, Reset(ClearMaps, seq)
    PROVE  ChannelInv' /\ ReconcilingInv'
<1>a. LogInv /\ PlaceInv /\ MapsInv /\ ChargeInv /\ (kind = "dead_letter" => AttemptInv)
  BY Zenon DEF ReconcilingInv
<1>b. /\ UNCHANGED <<kind, seq, log, queue, seen, lost, late>> /\ phase' = "measuring"
      /\ own' = [own EXCEPT !.published = {}, !.arrived = {}]
      /\ mark' = Len(log) /\ holes' = {} /\ count' = [c \in Counters |-> 0]
  BY Zenon DEF Reset, ResetAfterWarmup, ClearMaps
<1>c. /\ own'.published = {} /\ own'.arrived = {}
      /\ own'.overdue = own.overdue /\ own'.attempt = own.attempt /\ own'.source = own.source
      /\ own' \in [published : SUBSET Ids, arrived : SUBSET Ids, overdue : SUBSET Ids,
                   source : SUBSET Nat, attempt : [1 .. MaxPublish[kind] -> Nat]]
  BY <1>b, Zenon DEF ReconcilingInv
<1>1. ChannelInv'
  BY <1>b, RestKeepsChannel, Zenon DEF ChannelInv
<1>2. LogInv'
  <2>1. mark' \in 0 .. Len(log)
    BY <1>b DEF ChannelInv
  <2> QED BY <1>a, <1>b, <2>1, Zenon DEF LogInv
<1>3. PlaceInv' /\ MapsInv'
  BY <1>a, <1>b, <1>c, Zenon DEF PlaceInv, MapsInv
<1>4. ChargeInv'
  BY <1>b, Zenon DEF ChargeInv, Counters
<1>5. kind = "dead_letter" => AttemptInv'
  <2> SUFFICES ASSUME kind = "dead_letter" PROVE AttemptInv'
    BY Zenon
  <2>1. \A m \in 1 .. MaxPublish[kind] : m > mark' => own'.attempt[m] = 0
    BY <1>a, <1>b, <1>c, Zenon DEF AttemptInv
  <2>2. ~(count'["deadLetterRepublished"] > 0)
    BY <1>b DEF Counters
  <2> QED BY <1>a, <1>b, <1>c, <2>1, <2>2 DEF AttemptInv
<1> QED BY <1>b, <1>c, <1>1, <1>2, <1>3, <1>4, <1>5, Zenon DEF ReconcilingInv

LEMMA ReconcileKeeps ==
    ASSUME ChannelInv, ReconcilingInv, reconcileDeadLetterLoss \/ reconcileConvergence
    PROVE  ChannelInv' /\ ReconcilingInv'
<1>a. LogInv /\ PlaceInv /\ MapsInv /\ ChargeInv /\ (kind = "dead_letter" => AttemptInv)
  BY Zenon DEF ReconcilingInv
<1>b. PICK c \in {"deadLetterLost", "interopDiverged"}, o \in SUBSET (own.published \ InFlight) :
         /\ own' = [own EXCEPT !.overdue = o]
         /\ StopConsumers(c, Cardinality(Missing(o)))
  BY Zenon DEF reconcileDeadLetterLoss, reconcileConvergence, ReconcileAndStop
<1>c. /\ UNCHANGED <<kind, mark, seq, log, queue, seen, lost, late, holes>>
      /\ phase = "captured" /\ phase' = "stopped"
      /\ count' = [count EXCEPT ![c] = @ + Cardinality(Missing(o))]
  BY <1>b, Zenon DEF StopConsumers, connector
<1>d. o \subseteq Ids
  BY <1>b, Zenon DEF ReconcilingInv
<1>e. /\ own'.published = own.published /\ own'.arrived = own.arrived
      /\ own'.overdue = o /\ own'.attempt = own.attempt /\ own'.source = own.source
      /\ own' \in [published : SUBSET Ids, arrived : SUBSET Ids, overdue : SUBSET Ids,
                   source : SUBSET Nat, attempt : [1 .. MaxPublish[kind] -> Nat]]
  BY <1>b, <1>d, Zenon DEF ReconcilingInv
<1>f. IsFiniteSet(Charged') /\ Cardinality(Missing(o)) = Cardinality(Charged')
  <2>1. Charged' = {x \in lost : x[2] > mark /\ Id(x[2]) \in o}
    BY <1>c, <1>e, Zenon DEF Charged, Id
  <2> QED BY <2>1, <1>b, MissingAreLost, Zenon
<1>g. Cardinality(Missing(o)) \in Nat
  BY <1>f, FS_CardinalityType, Zenon
<1>1. ChannelInv'
  BY <1>c, RestKeepsChannel, Zenon DEF ChannelInv
<1>2. LogInv' /\ PlaceInv' /\ MapsInv'
  <2>1. LogInv' /\ PlaceInv'
    BY <1>a, <1>c, <1>e, Zenon DEF LogInv, PlaceInv
  <2>2. \A e : Id(e)' = Id(e)
    BY <1>c, Zenon DEF Id
  <2>3. own.arrived \subseteq {Id(e)' : e \in seen'[First]}
    BY <1>a, <1>c, <2>2, Zenon DEF MapsInv
  <2>4. MapsInv'
    BY <1>a, <1>c, <1>e, <2>2, <2>3, Zenon DEF MapsInv
  <2> QED BY <2>1, <2>4, Zenon
<1>3. ChargeInv'
  <2>1. count \in [Counters -> Nat] /\ c \in Counters
        /\ count["deadLetterLost"] = 0 /\ count["interopDiverged"] = 0
    BY <1>a, <1>c, Zenon DEF ChargeInv, Counters
  <2>2. count' \in [Counters -> Nat]
    BY <1>c, <1>g, <2>1
  <2>3. count'["deadLetterLost"] + count'["interopDiverged"] = Cardinality(Missing(o))
    BY <1>c, <1>g, <2>1 DEF Counters
  <2> QED BY <1>c, <1>f, <2>2, <2>3, Zenon DEF ChargeInv
<1>4. kind = "dead_letter" => AttemptInv'
  <2>1. count'["deliveryAttemptMax"] = count["deliveryAttemptMax"]
        /\ count'["deadLetterRepublished"] = count["deadLetterRepublished"]
    BY <1>a, <1>c, Zenon DEF ChargeInv, Counters
  <2> QED BY <1>a, <1>c, <1>e, <2>1, Zenon DEF AttemptInv
<1> QED BY <1>c, <1>e, <1>1, <1>2, <1>3, <1>4, Zenon DEF ReconcilingInv

LEMMA LossKeeps ==
    ASSUME ChannelInv, ReconcilingInv, NEW s \in Subs, NEW m \in queue[s], ConnectorLoses(s, m)
    PROVE  ChannelInv' /\ ReconcilingInv'
<1>a. LogInv /\ PlaceInv /\ MapsInv /\ ChargeInv /\ (kind = "dead_letter" => AttemptInv)
  BY Zenon DEF ReconcilingInv
<1>b. s = First
  BY <1>a, Zenon DEF PlaceInv
<1>c. /\ UNCHANGED <<kind, phase, mark, seq, own, log, seen, count, late, holes>>
      /\ phase # "stopped" /\ m \notin seen[First]
      /\ queue' = [queue EXCEPT ![First] = @ \ {m}] /\ lost' = lost \cup {<<First, m>>}
  BY <1>b, Zenon DEF ConnectorLoses, Lose, Consuming, engine
<1>d. m \in Numbers(log) /\ m \notin own.source
  BY <1>a, <1>b, FirstIn, Zenon DEF PlaceInv, ChannelInv
<1>e. queue'[First] = queue[First] \ {m} /\ \A t \in Subs : t # First => queue'[t] = queue[t]
  BY <1>c, FirstIn, Zenon DEF ChannelInv
<1>1. ChannelInv'
  BY LoseKeepsChannel, Zenon
<1>2. LogInv' /\ ChargeInv'
  BY <1>a, <1>c, Zenon DEF LogInv, ChargeInv
<1>3. PlaceInv'
  <2>1. \A t \in Subs : t # First => queue'[t] = {}
    BY <1>a, <1>e, Zenon DEF PlaceInv
  <2>2. own.source \cap (queue'[First] \cup seen[First]) = {}
    BY <1>a, <1>e, Zenon DEF PlaceInv
  <2>3. lost' \subseteq {First} \X Numbers(log)
    <3>1. lost \subseteq {First} \X Numbers(log)
      BY <1>a, Zenon DEF PlaceInv
    <3>2. <<First, m>> \in {First} \X Numbers(log)
      BY <1>d, Zenon
    <3> QED BY <1>c, <3>1, <3>2, Zenon
  <2>4. \A x \in lost' : x[2] \notin own.source \cup queue'[First] \cup seen[First]
    <3>1. \A x \in lost : x[2] \notin own.source \cup queue'[First] \cup seen[First]
      BY <1>a, <1>e, Zenon DEF PlaceInv
    <3>2. <<First, m>>[2] = m /\ m \notin own.source \cup queue'[First] \cup seen[First]
      BY <1>c, <1>d, <1>e, Zenon
    <3> QED BY <1>c, <3>1, <3>2, Zenon
  <2> QED BY <1>a, <1>c, <2>1, <2>2, <2>3, <2>4 DEF PlaceInv
<1>4. MapsInv'
  <2>1. \A e : Id(e)' = Id(e)
    BY <1>c, Zenon DEF Id
  <2>2. own.arrived \subseteq {Id(e)' : e \in seen'[First]}
    BY <1>a, <1>c, <2>1, Zenon DEF MapsInv
  <2>3. ASSUME NEW id \in own.published
        PROVE  \E e \in Numbers(log) :
                  /\ e > mark /\ Id(e) = id
                  /\ \/ e \in own.source \cup queue'[First]
                     \/ <<First, e>> \in lost'
                     \/ id \in own.arrived
    BY <1>a, <1>c, <1>e, <2>3 DEF MapsInv
  <2> QED BY <1>c, <2>1, <2>2, <2>3, Zenon DEF MapsInv
<1>5. kind = "dead_letter" => AttemptInv'
  BY <1>a, <1>c, <1>e, Zenon DEF AttemptInv
<1> QED BY <1>c, <1>1, <1>2, <1>3, <1>4, <1>5, Zenon DEF ReconcilingInv

LEMMA EngineKeeps ==
    ASSUME ChannelInv, ReconcilingInv, BaseStopProducers \/ Capture
    PROVE  ChannelInv' /\ ReconcilingInv'
<1>1. UNCHANGED <<kind, seq, count, own, log, queue, seen, lost, late, mark, holes>>
  BY Zenon DEF BaseStopProducers, StopProducers, Capture, connector
<1>2. phase # "stopped" /\ phase' # "stopped"
      /\ (phase' \in {"warmup", "settling"} => phase \in {"warmup", "settling"})
  BY Zenon DEF BaseStopProducers, StopProducers, Capture
<1>3. ChannelInv'
  BY <1>1, RestKeepsChannel, Zenon DEF ChannelInv
<1>4. LogInv => LogInv'
  BY <1>1, <1>2, Zenon DEF LogInv
<1>5. ChargeInv => ChargeInv'
  BY <1>1, <1>2, Zenon DEF ChargeInv
<1>6. (PlaceInv => PlaceInv') /\ (AttemptInv => AttemptInv')
  BY <1>1, Zenon DEF PlaceInv, AttemptInv
<1>7. MapsInv => MapsInv'
  BY <1>1 DEF MapsInv, Id
<1> QED BY <1>1, <1>3, <1>4, <1>5, <1>6, <1>7 DEF ReconcilingInv

-----------------------------------------------------------------------------
LEMMA InitInductive == Init => IInv
<1> SUFFICES ASSUME Init, kind \in StatefulKinds
             PROVE  /\ ChannelInv
                    /\ kind = "nack_redelivery" => NackInv
                    /\ kind = "inflight_cap" => InflightInv
                    /\ kind \in ReconcilingKinds => ReconcilingInv
  BY Zenon DEF IInv, ReconcilingKinds
<1>a. /\ kind \in Kinds /\ phase = "warmup" /\ mark = 0 /\ seq = 0 /\ holes = {}
      /\ count = [c \in Counters |-> 0] /\ log = <<>> /\ lost = {} /\ late = FALSE
      /\ queue = [s \in Subs |-> {}] /\ seen = [s \in Subs |-> {}] /\ own \in OwnFields
  BY Zenon DEF Init, ChannelInit
<1>b. Numbers(log) = {} /\ Len(log) = 0
  BY <1>a DEF Numbers
<1>c. queue[First] = {} /\ seen[First] = {}
  BY <1>a, FirstIn, Zenon
<1>1. ChannelInv
  BY <1>a, <1>b DEF ChannelInv
<1>2. kind = "nack_redelivery" => NackInv
  BY <1>a DEF NackInv, NackFields, OwnFields
<1>3. kind = "inflight_cap" => InflightInv
  <2> SUFFICES ASSUME kind = "inflight_cap" PROVE InflightInv
    BY Zenon
  <2>1. own = InflightFields
    BY <1>a, Zenon DEF OwnFields
  <2>2. phase \notin Stopping
    BY <1>a, Zenon DEF Stopping
  <2> QED BY <2>1, <2>2, Zenon DEF InflightInv, InflightFields
<1>4. ASSUME kind \in ReconcilingKinds PROVE ReconcilingInv
  <2>1. own = ReconcilingFields
    BY <1>4, <1>a, Zenon DEF ReconcilingKinds, OwnFields
  <2>2. /\ own.published = {} /\ own.arrived = {} /\ own.overdue = {} /\ own.source = {}
        /\ own.attempt = [m \in 1 .. MaxPublish[kind] |-> 0]
        /\ own \in [published : SUBSET Ids, arrived : SUBSET Ids, overdue : SUBSET Ids,
                    source : SUBSET Nat, attempt : [1 .. MaxPublish[kind] -> Nat]]
    BY <2>1, Zenon DEF ReconcilingFields
  <2>3. LogInv
    BY <1>a, <1>b DEF LogInv
  <2>4. PlaceInv /\ MapsInv
    BY <1>a, <1>b, <1>c, <2>2, Zenon DEF PlaceInv, MapsInv
  <2>5. ChargeInv
    BY <1>a, Zenon DEF ChargeInv, Counters
  <2>6. AttemptInv
    <3>1. MaxPublish[kind] \in Nat
      BY <1>a, ChannelAssumption, Zenon
    <3>2. ~(count["deadLetterRepublished"] > 0)
      BY <1>a DEF Counters
    <3>3. \A m \in 1 .. MaxPublish[kind] : own.attempt[m] = 0
      BY <2>2, Zenon
    <3>4. Len(log) <= MaxPublish[kind]
      BY <1>b, <3>1
    <3>5. \A m \in queue[First] : own.attempt[m] > 0
      BY <1>c, Zenon
    <3>6. \A m \in 1 .. MaxPublish[kind] : ~(own.attempt[m] > 0)
      BY <3>3
    <3> QED BY <3>2, <3>3, <3>4, <3>5, <3>6 DEF AttemptInv
  <2> QED BY <2>2, <2>3, <2>4, <2>5, <2>6 DEF ReconcilingInv
<1> QED BY <1>1, <1>2, <1>3, <1>4, Zenon

LEMMA Unchanged ==
    ASSUME IInv, UNCHANGED vars
    PROVE  IInv'
<1>1. UNCHANGED <<kind, phase, mark, seq, count, own, log, queue, seen, lost, late, holes>>
  BY Zenon DEF vars, engine, connector
<1>2. /\ ChannelInv <=> ChannelInv'
      /\ LogInv <=> LogInv'
      /\ PlaceInv <=> PlaceInv'
  BY <1>1, Zenon DEF ChannelInv, LogInv, PlaceInv
<1>3. /\ MapsInv <=> MapsInv'
      /\ ChargeInv <=> ChargeInv'
      /\ AttemptInv <=> AttemptInv'
  <2>1. MapsInv <=> MapsInv'
    <3>1. \A e : Id(e)' = Id(e)
      BY <1>1, Zenon DEF Id
    <3>2. {Id(m)' : m \in seen'[First]} = {Id(m) : m \in seen[First]}
      BY <1>1, <3>1, Zenon
    <3> QED BY <1>1, <3>1, <3>2, Zenon DEF MapsInv
  <2>2. ChargeInv <=> ChargeInv'
    BY <1>1, Zenon DEF ChargeInv, Charged, Id
  <2>3. AttemptInv <=> AttemptInv'
    BY <1>1, Zenon DEF AttemptInv
  <2> QED BY <2>1, <2>2, <2>3, Zenon
<1>4. /\ NackInv <=> NackInv'
      /\ InflightInv <=> InflightInv'
  BY <1>1, Zenon DEF NackInv, InflightInv, IdOf
<1>5. ReconcilingInv <=> ReconcilingInv'
  BY <1>1, <1>2, <1>3, Zenon DEF ReconcilingInv
<1> QED BY <1>1, <1>2, <1>4, <1>5, Zenon DEF IInv

(* The steps of the types without state of their own, and the engine's, keep the type. *)
LEMMA OtherKinds ==
    ASSUME RoundTripNext \/ KeyedNext
    PROVE  kind' = kind /\ kind \notin StatefulKinds
<1>1. CASE RoundTripNext
  <2>1. ASSUME NEW p \in Producers,
               \/ publish_pull_produceLoop(p) \/ publish_pull_runAtomicityProbe(p)
               \/ streaming_pull_produceLoop(p)
               \/ exactly_once_produceLoop(p)
               \/ schema_enforce_produceLoop(p) \/ schema_enforce_runNonConformingProbe(p)
               \/ fan_out_produceLoop(p)
        PROVE  kind' = kind /\ kind \in RoundTripKinds
    BY <2>1, Zenon DEF publish_pull_produceLoop, publish_pull_runAtomicityProbe, streaming_pull_produceLoop,
                exactly_once_produceLoop, schema_enforce_produceLoop,
                schema_enforce_runNonConformingProbe, fan_out_produceLoop, PublishNext, Accept,
                engine, RoundTripKinds
  <2>2. ASSUME NEW s \in Subs, NEW m \in queue[s],
               \/ publish_pull_handleMessage(s, m) \/ streaming_pull_handleMessage(s, m)
               \/ exactly_once_handleMessage(s, m) \/ schema_enforce_handleMessage(s, m)
               \/ fan_out_handleMessage(s, m)
        PROVE  kind' = kind /\ kind \in RoundTripKinds
    BY <2>2, Zenon DEF publish_pull_handleMessage, streaming_pull_handleMessage, exactly_once_handleMessage,
                schema_enforce_handleMessage, fan_out_handleMessage, TrackAndAck, CountAndAck,
                engine, RoundTripKinds
  <2>3. kind' = kind /\ kind \in RoundTripKinds
    BY <1>1, <2>1, <2>2, Zenon DEF RoundTripNext
  <2> QED BY <2>3, Zenon DEF RoundTripKinds, StatefulKinds
<1>2. CASE KeyedNext
  <2>1. ASSUME NEW p \in Producers, filtering_produceLoop(p) \/ ordering_keys_produceLoop(p)
        PROVE  kind' = kind /\ kind \in {"filtering", "ordering_keys"}
    BY <2>1, Zenon DEF filtering_produceLoop, ordering_keys_produceLoop, engine
  <2>2. ASSUME NEW m, filtering_handleMessage(First, m) \/ ordering_keys_handleMessage(First, m)
        PROVE  kind' = kind /\ kind \in {"filtering", "ordering_keys"}
    BY <2>2, Zenon DEF filtering_handleMessage, ordering_keys_handleMessage, TrackAndAck, CountAndAck, engine
  <2>3. ASSUME filtering_ResetAfterWarmup \/ ordering_keys_ResetAfterWarmup
        PROVE  kind' = kind /\ kind \in {"filtering", "ordering_keys"}
    BY <2>3, Zenon DEF filtering_ResetAfterWarmup, ordering_keys_ResetAfterWarmup, Reset
  <2>4. kind' = kind /\ kind \in {"filtering", "ordering_keys"}
    BY <1>2, <2>1, <2>2, <2>3, Zenon DEF KeyedNext
  <2> QED BY <2>4, Zenon DEF StatefulKinds
<1> QED BY <1>1, <1>2, Zenon

LEMMA RedeliverySteps ==
    ASSUME IInv, RedeliveryNext
    PROVE  IInv'
<1>1. ASSUME NEW p \in Producers, nack_redelivery_produceLoop(p)
      PROVE  kind = "nack_redelivery" /\ kind' = kind
             /\ (ChannelInv /\ NackInv => ChannelInv' /\ NackInv')
  <2>1. kind = "nack_redelivery" /\ kind' = kind
    BY <1>1, Zenon DEF nack_redelivery_produceLoop, PublishNext, engine
  <2> QED BY <1>1, <2>1, NackOthers, Zenon
<1>2. ASSUME NEW m \in queue[First], nack_redelivery_handleMessage(First, m)
      PROVE  kind = "nack_redelivery" /\ kind' = kind
             /\ (ChannelInv /\ NackInv => ChannelInv' /\ NackInv')
  <2>1. kind = "nack_redelivery" /\ kind' = kind
    BY <1>2, Zenon DEF nack_redelivery_handleMessage, engine
  <2> QED BY <1>2, <2>1, NackHandled, Zenon
<1>3. ASSUME NEW p \in Producers, inflight_cap_produceLoop(p)
      PROVE  kind = "inflight_cap" /\ kind' = kind
             /\ (ChannelInv /\ InflightInv => ChannelInv' /\ InflightInv')
  <2>1. kind = "inflight_cap" /\ kind' = kind
    BY <1>3, Zenon DEF inflight_cap_produceLoop, PublishNext, engine
  <2> QED BY <1>3, <2>1, InflightOthers, Zenon
<1>4. ASSUME pullLoop
      PROVE  kind = "inflight_cap" /\ kind' = kind
             /\ (ChannelInv /\ InflightInv => ChannelInv' /\ InflightInv')
  <2>1. kind = "inflight_cap" /\ kind' = kind
    BY <1>4, Zenon DEF pullLoop, engine
  <2> QED BY <1>4, <2>1, PullKeeps, Zenon
<1>5. ASSUME NEW m \in 1 .. Len(log), handlePulled(m)
      PROVE  kind = "inflight_cap" /\ kind' = kind
             /\ (ChannelInv /\ InflightInv => ChannelInv' /\ InflightInv')
  <2>1. kind = "inflight_cap" /\ kind' = kind
    BY <1>5, Zenon DEF handlePulled, engine
  <2> QED BY <1>5, <2>1, PulledKeeps, Zenon
<1>6. ASSUME NEW m \in 1 .. Len(log), LeaseExpires(m)
      PROVE  kind = "inflight_cap" /\ kind' = kind
             /\ (ChannelInv /\ InflightInv => ChannelInv' /\ InflightInv')
  <2>1. kind = "inflight_cap" /\ kind' = kind
    BY <1>6, Zenon DEF LeaseExpires, engine
  <2> QED BY <1>6, <2>1, InflightOthers, Zenon
<1>7. ASSUME inflight_cap_StopProducers
      PROVE  kind = "inflight_cap" /\ kind' = kind
             /\ (ChannelInv /\ InflightInv => ChannelInv' /\ InflightInv')
  <2>1. kind = "inflight_cap" /\ kind' = kind
    BY <1>7, Zenon DEF inflight_cap_StopProducers, StopProducers
  <2> QED BY <1>7, <2>1, ReleaseKeeps
<1>8. ASSUME inflight_cap_ResetAfterWarmup \/ inflight_cap_StopConsumers
      PROVE  kind = "inflight_cap" /\ kind' = kind
             /\ (ChannelInv /\ InflightInv => ChannelInv' /\ InflightInv')
  <2>1. kind = "inflight_cap" /\ kind' = kind
    BY <1>8, Zenon DEF inflight_cap_ResetAfterWarmup, inflight_cap_StopConsumers, Reset, StopConsumers
  <2> QED BY <1>8, <2>1, InflightOthers, Zenon
<1>9. \/ /\ kind = "nack_redelivery" /\ kind' = kind
         /\ (ChannelInv /\ NackInv => ChannelInv' /\ NackInv')
      \/ /\ kind = "inflight_cap" /\ kind' = kind
         /\ (ChannelInv /\ InflightInv => ChannelInv' /\ InflightInv')
  BY <1>1, <1>2, <1>3, <1>4, <1>5, <1>6, <1>7, <1>8 DEF RedeliveryNext
<1> QED BY <1>9, Zenon DEF IInv, StatefulKinds

LEMMA ReconcilingSteps ==
    ASSUME IInv, ReconcilingNext
    PROVE  IInv'
<1> DEFINE Kept == /\ kind \in ReconcilingKinds /\ kind' = kind
                   /\ (ChannelInv /\ ReconcilingInv => ChannelInv' /\ ReconcilingInv')
<1>1. ASSUME NEW p \in Producers, dead_letter_produceLoop(p) \/ interop_produceLoop(p)
      PROVE  Kept
  <2>1. kind \in ReconcilingKinds /\ PublishAndEnter(p)
    BY <1>1, Zenon DEF dead_letter_produceLoop, interop_produceLoop, ReconcilingKinds
  <2>2. kind' = kind
    BY <2>1, Zenon DEF PublishAndEnter, engine
  <2> QED BY <2>1, <2>2, EnterKeeps, Zenon
<1>2. ASSUME NEW m \in 1 .. Len(log), sourceDriveLoop(m)
      PROVE  Kept
  <2>1. kind \in ReconcilingKinds /\ kind' = kind
    BY <1>2, Zenon DEF sourceDriveLoop, PullOnly, engine, ReconcilingKinds
  <2> QED BY <1>2, <2>1, DriveKeeps, Zenon
<1>3. ASSUME NEW m \in 1 .. Len(log), DeadLettered(m)
      PROVE  Kept
  <2>1. kind \in ReconcilingKinds /\ kind' = kind
    BY <1>3, Zenon DEF DeadLettered, engine, ReconcilingKinds
  <2> QED BY <1>3, <2>1, DeadLetteredKeeps
<1>4. ASSUME NEW m \in queue[First], handleDLQMessage(m) \/ onNativeEvent(m)
      PROVE  Kept
  <2>1. kind \in ReconcilingKinds /\ kind' = kind
    BY <1>4, Zenon DEF handleDLQMessage, onNativeEvent, engine, ReconcilingKinds
  <2> QED BY <1>4, <2>1, ArrivalKeeps, Zenon
<1>5. ASSUME dead_letter_ResetAfterWarmup \/ interop_ResetAfterWarmup
      PROVE  Kept
  <2>1. kind \in ReconcilingKinds /\ Reset(ClearMaps, seq)
    BY <1>5, Zenon DEF dead_letter_ResetAfterWarmup, interop_ResetAfterWarmup, ReconcilingKinds
  <2>2. kind' = kind
    BY <2>1, Zenon DEF Reset
  <2> QED BY <2>1, <2>2, ClearKeeps, Zenon
<1>6. ASSUME reconcileDeadLetterLoss \/ reconcileConvergence
      PROVE  Kept
  <2>1. kind \in ReconcilingKinds /\ kind' = kind
    BY <1>6, Zenon DEF reconcileDeadLetterLoss, reconcileConvergence, ReconcileAndStop, StopConsumers,
                ReconcilingKinds
  <2> QED BY <1>6, <2>1, ReconcileKeeps, Zenon
<1>7. Kept
  <2> HIDE DEF Kept
  <2> QED BY <1>1, <1>2, <1>3, <1>4, <1>5, <1>6, Zenon DEF ReconcilingNext
<1> QED BY <1>7, Zenon DEF IInv, StatefulKinds, ReconcilingKinds

LEMMA EngineSteps ==
    ASSUME IInv,
           \/ BaseStopProducers \/ BaseReset \/ Capture \/ BaseStopConsumers
           \/ \E s \in Subs : \E m \in queue[s] : ConnectorLoses(s, m)
    PROVE  IInv'
<1>1. kind' = kind
  BY Zenon DEF BaseStopProducers, StopProducers, BaseReset, Reset, Capture, BaseStopConsumers, StopConsumers,
         ConnectorLoses, Lose, engine
<1>2. CASE kind = "nack_redelivery"
  <2>1. ChannelInv /\ NackInv
    BY <1>2, Zenon DEF IInv, StatefulKinds
  <2>2. ChannelInv' /\ NackInv'
    BY <1>2, <2>1, NackOthers, Zenon
  <2> QED BY <1>1, <1>2, <2>2, Zenon DEF IInv
<1>3. CASE kind = "inflight_cap"
  <2>1. ChannelInv /\ InflightInv
    BY <1>3, Zenon DEF IInv, StatefulKinds
  <2>2. ~BaseStopProducers /\ ~BaseReset /\ ~BaseStopConsumers
    BY <1>3, Zenon DEF BaseStopProducers, BaseReset, BaseStopConsumers, RoundTripKinds
  <2>3. ChannelInv' /\ InflightInv'
    BY <1>3, <2>1, <2>2, InflightOthers, Zenon
  <2> QED BY <1>1, <1>3, <2>3, Zenon DEF IInv
<1>4. CASE kind \in ReconcilingKinds
  <2>1. ChannelInv /\ ReconcilingInv
    BY <1>4, Zenon DEF IInv, StatefulKinds, ReconcilingKinds
  <2>2. ~BaseReset /\ ~BaseStopConsumers
    BY <1>4, Zenon DEF BaseReset, BaseStopConsumers, RoundTripKinds, ReconcilingKinds
  <2>3. ChannelInv' /\ ReconcilingInv'
    BY <2>1, <2>2, EngineKeeps, LossKeeps, Zenon
  <2> QED BY <1>1, <1>4, <2>3, Zenon DEF IInv, ReconcilingKinds
<1>5. CASE kind \notin StatefulKinds
  BY <1>1, <1>5, Zenon DEF IInv
<1> QED BY <1>2, <1>3, <1>4, <1>5, Zenon DEF StatefulKinds, ReconcilingKinds

(***************************************************************************)
(* The inductive invariant IInv holds in every reachable state: Init       *)
(* establishes it and every handler of every worker type keeps it.         *)
(***************************************************************************)
THEOREM Invariance == Spec => []IInv
<1>1. IInv /\ [Next]_vars => IInv'
  <2> SUFFICES ASSUME IInv, [Next]_vars PROVE IInv'
    BY Zenon
  <2>1. CASE RoundTripNext \/ KeyedNext
    BY <2>1, OtherKinds, Zenon DEF IInv
  <2>2. CASE RedeliveryNext
    BY <2>2, RedeliverySteps, Zenon
  <2>3. CASE ReconcilingNext
    BY <2>3, ReconcilingSteps, Zenon
  <2>4. CASE \/ BaseStopProducers \/ BaseReset \/ Capture \/ BaseStopConsumers
             \/ \E s \in Subs : \E m \in queue[s] : ConnectorLoses(s, m)
    BY <2>4, EngineSteps, Zenon
  <2>5. CASE UNCHANGED vars
    BY <2>5, Unchanged, Zenon
  <2> QED BY <2>1, <2>2, <2>3, <2>4, <2>5, Zenon DEF Next
<1> QED BY InitInductive, <1>1, PTL DEF Spec

(***************************************************************************)
(* A message a nack_redelivery worker has nacked is still with the         *)
(* connector, and its id is not among those that came back already         *)
(* (nack_redelivery.go:213-243), for any number of producers and messages. *)
(* A nacked message was delivered, and the connector loses none it has     *)
(* delivered.                                                              *)
(***************************************************************************)
THEOREM NackedNeverLost == Spec => []NackedComesBack
<1>1. IInv => NackedComesBack
  BY Zenon DEF IInv, StatefulKinds, NackInv, NackedComesBack
<1> QED BY <1>1, Invariance, PTL

(***************************************************************************)
(* Once its producers are stopped an inflight_cap worker holds only leases *)
(* of the batch it had in hand at the switch (inflight_cap.go:190-230):    *)
(* the drain mode is set before the held set is taken out, so every later  *)
(* batch is acknowledged.                                                  *)
(***************************************************************************)
THEOREM LeasesGoBack == Spec => []HeldLeasesReleased
<1>1. IInv => HeldLeasesReleased
  BY Zenon DEF IInv, StatefulKinds, InflightInv, Stopping, HeldLeasesReleased
<1> QED BY <1>1, Invariance, PTL

(***************************************************************************)
(* What a dead_letter or cross_protocol_interop worker charges at its      *)
(* reconciliation are exactly the messages of the measurement that the     *)
(* connector took, lost and had the time to deliver                        *)
(* (dead_letter.go:371-391, cross_protocol_interop.go:231-250).  The       *)
(* argument is a bijection between the ids missing from the arrived map    *)
(* and the lost messages: a published id belongs to one message of the     *)
(* log, and that message is at the source, queued, lost or arrived.        *)
(***************************************************************************)
THEOREM ChargesAreExact == Spec => []ReconcileExact
<1>1. IInv => ReconcileExact
  <2> SUFFICES ASSUME IInv, phase = "stopped", kind \in {"dead_letter", "cross_protocol_interop"}
               PROVE  count["deadLetterLost"] + count["interopDiverged"] =
                         Cardinality({x \in lost : x[2] > mark /\ Id(x[2]) \in own.overdue})
    BY Zenon DEF ReconcileExact
  <2>1. ChargeInv
    BY Zenon DEF IInv, StatefulKinds, ReconcilingInv
  <2> QED BY <2>1, Zenon DEF ChargeInv, Charged
<1> QED BY <1>1, Invariance, PTL

(***************************************************************************)
(* A dead_letter worker that has counted a republished message of the      *)
(* measurement has recorded a delivery attempt since the reset             *)
(* (dead_letter.go:253-330, judged at verdict.go:205-210).                 *)
(***************************************************************************)
THEOREM RepublishedWasAttempted == Spec => []AttemptsSurface
<1>1. IInv => AttemptsSurface
  BY Zenon DEF IInv, StatefulKinds, ReconcilingInv, AttemptInv, AttemptsSurface
<1> QED BY <1>1, Invariance, PTL
=============================================================================
