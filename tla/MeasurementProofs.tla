-------------------------- MODULE MeasurementProofs --------------------------
(***************************************************************************)
(* Theorems about the evidence of a worker, for every set of worker types  *)
(* and any number of deliveries.                                           *)
(***************************************************************************)
EXTENDS Measurement, FiniteSetTheorems, TLAPS

(* The fields the theorems are about. *)
Unreconciled == "exactlyOnceUnreconciled"
SchemaRan == "schemaEnforceProbeRan"

LEMMA SchemaFields ==
    /\ Len(FieldsOf("schema_enforce")) = 3
    /\ FieldsOf("schema_enforce")[3] = SchemaRan
<1>1. Counters["schema_enforce"] = <<"schemaRejectViolations", "schemaEnforceConfirmed">>
  BY Zenon DEF Counters
<1>2. Flags["schema_enforce"] = <<SchemaRan>>
  BY Zenon DEF Flags, AllKinds, SchemaRan
<1>3. FieldsOf("schema_enforce")
        = <<"schemaRejectViolations", "schemaEnforceConfirmed">> \o <<SchemaRan>>
  BY <1>1, <1>2, Zenon DEF FieldsOf
<1>4. FieldsOf("schema_enforce")
        = <<"schemaRejectViolations", "schemaEnforceConfirmed", SchemaRan>>
  BY <1>3
<1> QED BY <1>4

LEMMA UnreconciledField == Len(FieldsOf("exactly_once")) = 5 /\ FieldsOf("exactly_once")[2] = Unreconciled
<1>1. Counters["exactly_once"] = <<"exactlyOnceConfirmed", Unreconciled,
                                   "exactlyOnceInvalidAckConfirmed">>
  BY Zenon DEF Counters, Unreconciled
<1>2. Flags["exactly_once"] = <<"invalidAckProbeRan", "confirmationsProbeRan">>
  BY Zenon DEF Flags, AllKinds
<1>3. FieldsOf("exactly_once")
        = <<"exactlyOnceConfirmed", Unreconciled, "exactlyOnceInvalidAckConfirmed">>
            \o <<"invalidAckProbeRan", "confirmationsProbeRan">>
  BY <1>1, <1>2, Zenon DEF FieldsOf
<1>4. FieldsOf("exactly_once")
        = <<"exactlyOnceConfirmed", Unreconciled, "exactlyOnceInvalidAckConfirmed",
            "invalidAckProbeRan", "confirmationsProbeRan">>
  BY <1>3
<1> QED BY <1>4

LEMMA InFields == Unreconciled \in Fields /\ SchemaRan \in Fields
<1> DEFINE FieldSet(k) == {FieldsOf(k)[i] : i \in 1 .. Len(FieldsOf(k))}
<1>1. Unreconciled \in FieldSet("exactly_once")
  BY UnreconciledField
<1>2. SchemaRan \in FieldSet("schema_enforce")
  BY SchemaFields
<1>3. \A k \in AllKinds : FieldSet(k) \subseteq Fields
  BY Zenon DEF Fields
<1> QED BY <1>1, <1>2, <1>3, Zenon DEF AllKinds

(* The losses StopConsumers counts are kept in counters of their own. *)
LEMMA LossCounters == \A k \in AllKinds : Counters[k][1] \notin {Unreconciled, SchemaRan}
  BY DEF AllKinds, Counters, Unreconciled, SchemaRan

(* The value of one field, whatever is stored in the others. *)
Same(g, v) == DOMAIN v = DOMAIN value /\ v[g] = value[g]

LEMMA OtherField ==
    ASSUME NEW g \in DOMAIN value, NEW f, f # g
    PROVE  Same(g, Increment(f)) /\ Same(g, Mark(f))
  BY Zenon DEF Same, Increment, Mark

-----------------------------------------------------------------------------
(***************************************************************************)
(* A failed ack still owed is one whose retry is to come or has failed, so *)
(* that a message is owed once and a retry takes back its own.             *)
(***************************************************************************)
OwedInv ==
    /\ kind \in AllKinds
    /\ DOMAIN value = Fields /\ value[Unreconciled] \in Nat
    /\ DOMAIN handling = Messages
    /\ owed \subseteq Messages
    /\ \A m \in owed : handling[m] \in {"failed", "refused"}
    /\ value[Unreconciled] <= Cardinality(owed)

LEMMA OwedFinite == owed \subseteq Messages => IsFiniteSet(owed) /\ Cardinality(owed) \in Nat
  BY MeasurementAssumption, FS_Subset, FS_CardinalityType, Zenon

LEMMA OwedInit == Init => OwedInv
<1> SUFFICES ASSUME Init PROVE OwedInv
  BY Zenon
<1>1. Cardinality({}) = 0
  BY FS_EmptySet, Zenon
<1>2. Cardinality(owed) = 0
  BY <1>1, Zenon DEF Init
<1>3. DOMAIN value = Fields /\ value[Unreconciled] = 0
  BY InFields, Zenon DEF Init
<1>4. kind \in AllKinds
  BY MeasurementAssumption, Zenon DEF Init
<1>5. owed = {} /\ DOMAIN handling = Messages
  BY Zenon DEF Init
<1> QED BY <1>2, <1>3, <1>4, <1>5 DEF OwedInv

(* A step that leaves alone what the invariant is about. *)
LEMMA OwedSame ==
    ASSUME OwedInv, Same(Unreconciled, value'), UNCHANGED <<kind, handling, owed>>
    PROVE  OwedInv'
  BY Zenon DEF OwedInv, Same

LEMMA OwedProbe ==
    ASSUME OwedInv, Probe
    PROVE  OwedInv'
<1>1. \A f : f # Unreconciled => /\ Same(Unreconciled, Increment(f))
                                 /\ Same(Unreconciled, Mark(f))
  BY InFields, OtherField, Zenon DEF OwedInv
<1>2. Same(Unreconciled, value)
  BY Zenon DEF Same
<1>3. UNCHANGED <<kind, handling, owed>>
  BY Zenon DEF Probe, runProbes, flowControlProbe, leaseExtendProbe, crossStreamAckProbe,
         runInvalidAckProbe, runAtomicityProbe, runNonConformingProbe, ProbeErrs, ProbeStep
<1>4. Same(Unreconciled, value')
  <2>1. CASE runProbes \/ flowControlProbe \/ leaseExtendProbe \/ crossStreamAckProbe
    BY <1>1, <1>2, <2>1, Zenon DEF runProbes, flowControlProbe, leaseExtendProbe, crossStreamAckProbe,
                            ProbeStep, Broken, Honoured, Unreconciled
  <2>2. CASE runInvalidAckProbe \/ runAtomicityProbe \/ runNonConformingProbe
    BY <1>1, <1>2, <2>2, Zenon DEF runInvalidAckProbe, runAtomicityProbe, runNonConformingProbe,
                            ProbeStep, Broken, Honoured, Unreconciled
  <2>3. CASE ProbeErrs
    BY <1>1, <1>2, <2>3, Zenon DEF ProbeErrs, Unreconciled
  <2> QED BY <2>1, <2>2, <2>3, Zenon DEF Probe
<1> QED BY <1>3, <1>4, OwedSame, Zenon

LEMMA OwedHandler ==
    ASSUME OwedInv, NEW m \in Messages, Handler(m)
    PROVE  OwedInv'
<1>a. /\ kind \in AllKinds /\ DOMAIN value = Fields /\ value[Unreconciled] \in Nat
      /\ DOMAIN handling = Messages /\ owed \subseteq Messages
      /\ \A x \in owed : handling[x] \in {"failed", "refused"}
      /\ value[Unreconciled] <= Cardinality(owed)
  BY Zenon DEF OwedInv
<1>b. IsFiniteSet(owed) /\ Cardinality(owed) \in Nat /\ Unreconciled \in DOMAIN value
  BY <1>a, OwedFinite, InFields, Zenon
<1>c. \A f : f # Unreconciled => /\ Same(Unreconciled, Increment(f))
                                 /\ Same(Unreconciled, Mark(f))
  BY <1>b, OtherField, Zenon
<1>1. ASSUME NEW from, NEW to, NEW v, from \notin {"failed", "refused"},
             Same(Unreconciled, v), HandlerStep(m, from, to, v), UNCHANGED owed
      PROVE  OwedInv'
  <2>1. \A x \in owed : x # m /\ handling'[x] = handling[x]
    BY <1>a, <1>1, Zenon DEF HandlerStep
  <2> QED BY <1>a, <1>1, <2>1, Zenon DEF HandlerStep, OwedInv, Same
<1>2. CASE handleMessage(m)
  BY <1>c, <1>1, <1>2 DEF handleMessage, Unreconciled
<1>3. CASE AckSucceeds(m)
  BY <1>c, <1>1, <1>3 DEF AckSucceeds, Unreconciled
<1>4. CASE RetryConfirmed(m)
  BY <1>c, <1>1, <1>4 DEF RetryConfirmed, Unreconciled
<1>5. CASE ProbeMessageDelivered(m)
  BY <1>c, <1>1, <1>5 DEF ProbeMessageDelivered, Unreconciled
<1>6. CASE AckFails(m)
  <2>1. m \notin owed
    BY <1>a, <1>6, Zenon DEF AckFails, HandlerStep
  <2>2. Cardinality(owed') = Cardinality(owed) + 1
    BY <1>6, <2>1, <1>b, FS_AddElement, Zenon DEF AckFails
  <2>3. DOMAIN value' = Fields /\ value'[Unreconciled] = value[Unreconciled] + 1
    BY <1>a, <1>b, <1>6, Zenon DEF AckFails, HandlerStep, Increment, Unreconciled
  <2>4. \A x \in owed' : handling'[x] \in {"failed", "refused"}
    BY <1>a, <1>6, Zenon DEF AckFails, HandlerStep
  <2>5. kind' = kind /\ DOMAIN handling' = Messages /\ owed' \subseteq Messages
    BY <1>a, <1>6, Zenon DEF AckFails, HandlerStep
  <2>6. value'[Unreconciled] \in Nat /\ value'[Unreconciled] <= Cardinality(owed')
    BY <1>a, <1>b, <2>2, <2>3
  <2> QED BY <1>a, <2>3, <2>4, <2>5, <2>6, Zenon DEF OwedInv
<1>7. CASE RetrySucceeds(m)
  <2>1. Cardinality(owed') = IF m \in owed THEN Cardinality(owed) - 1 ELSE Cardinality(owed)
    BY <1>7, <1>b, FS_RemoveElement, Zenon DEF RetrySucceeds
  <2>2. DOMAIN value' = Fields /\ value'[Unreconciled] = Reconciled(value[Unreconciled])
    BY <1>a, <1>b, <1>7, Zenon DEF RetrySucceeds, HandlerStep, Unreconciled
  <2>3. \A x \in owed' : handling'[x] \in {"failed", "refused"}
    BY <1>a, <1>7, Zenon DEF RetrySucceeds, HandlerStep
  <2>4. kind' = kind /\ DOMAIN handling' = Messages /\ owed' \subseteq Messages
    BY <1>a, <1>7, Zenon DEF RetrySucceeds, HandlerStep
  <2>5. m \in owed => Cardinality(owed) > 0
    BY <1>b, FS_EmptySet
  <2>6. value'[Unreconciled] \in Nat /\ value'[Unreconciled] <= Cardinality(owed')
    BY <1>a, <1>b, <2>1, <2>2, <2>5 DEF Reconciled
  <2> QED BY <1>a, <2>2, <2>3, <2>4, <2>6, Zenon DEF OwedInv
<1>8. CASE RetryFails(m)
  <2>1. \A x \in owed : handling'[x] \in {"failed", "refused"}
    BY <1>a, <1>8, Zenon DEF RetryFails, HandlerStep
  <2> QED BY <1>a, <1>8, <2>1, Zenon DEF RetryFails, HandlerStep, OwedInv
<1> QED BY <1>2, <1>3, <1>4, <1>5, <1>6, <1>7, <1>8, Zenon DEF Handler

LEMMA OwedEngine ==
    ASSUME OwedInv, Engine
    PROVE  OwedInv'
<1>a. Unreconciled \in DOMAIN value
  BY InFields, Zenon DEF OwedInv
<1>1. CASE ResetAfterWarmup
  <2> DEFINE f == FieldsOf(kind)[field]
  <2>1. value' = [value EXCEPT ![f] = 0] /\ UNCHANGED <<kind, handling>>
    BY <1>1, Zenon DEF ResetAfterWarmup
  <2>2. owed' = IF f = Unreconciled THEN {} ELSE owed
    BY <1>1, Zenon DEF ResetAfterWarmup, Unreconciled
  <2> HIDE DEF f
  <2>3. CASE f = Unreconciled
    <3>1. owed' = {} /\ Cardinality(owed') = 0
      BY <2>2, <2>3, FS_EmptySet, Zenon
    <3>2. DOMAIN value' = DOMAIN value /\ value'[Unreconciled] = 0
      BY <1>a, <2>1, <2>3, Zenon
    <3> QED BY <2>1, <3>1, <3>2 DEF OwedInv
  <2>4. CASE f # Unreconciled
    <3>1. Same(Unreconciled, value') /\ owed' = owed
      BY <1>a, <2>1, <2>2, <2>4, Zenon DEF Same
    <3> QED BY <2>1, <3>1, OwedSame, Zenon
  <2> QED BY <2>3, <2>4, Zenon
<1>2. CASE StopConsumers
  <2>1. UNCHANGED <<kind, handling, owed>>
    BY <1>2, Zenon DEF StopConsumers
  <2>2. Counters[kind][1] # Unreconciled
    BY LossCounters, Zenon DEF OwedInv
  <2>3. Same(Unreconciled, Increment(Counters[kind][1])) /\ Same(Unreconciled, value)
    BY <1>a, <2>2, OtherField, Zenon DEF Same
  <2>4. Same(Unreconciled, value')
    BY <1>2, <2>3, Zenon DEF StopConsumers
  <2> QED BY <2>1, <2>4, OwedSame
<1>3. CASE \/ Warmup \/ ResetStarts \/ Measure \/ CaptureStarts \/ captureWorkerSnapshots
           \/ CaptureEnds \/ computeVerdict \/ Cancel \/ ReturnCancelled
  <2>1. UNCHANGED <<kind, handling, owed, value>>
    BY <1>3, Zenon DEF Warmup, ResetStarts, Measure, CaptureStarts, captureWorkerSnapshots, CaptureEnds,
                computeVerdict, Cancel, ReturnCancelled
  <2> QED BY <2>1, OwedSame, Zenon DEF Same
<1> QED BY <1>1, <1>2, <1>3, Zenon DEF Engine

LEMMA OwedStutter == OwedInv /\ UNCHANGED vars => OwedInv'
  BY Zenon DEF OwedInv, vars

(***************************************************************************)
(* For any number of deliveries whose acks fail and are retried around the *)
(* reset, exactlyOnceUnreconciled neither counts a failure twice nor wraps *)
(* below zero (reconcileExactlyOnce, worker.go:378).                       *)
(***************************************************************************)
THEOREM UnreconciledBounded == Spec => []UnreconciledNotOvercounted
<1>1. OwedInv /\ [Next]_vars => OwedInv'
  BY OwedProbe, OwedHandler, OwedEngine, OwedStutter, Zenon DEF Next, Over
<1>2. OwedInv => UnreconciledNotOvercounted
  <2> SUFFICES ASSUME OwedInv PROVE UnreconciledNotOvercounted
    BY Zenon
  <2>1. /\ value[Unreconciled] \in Nat /\ Cardinality(owed) \in Nat
        /\ value[Unreconciled] <= Cardinality(owed)
    BY OwedFinite, Zenon DEF OwedInv
  <2> QED BY <2>1 DEF UnreconciledNotOvercounted, Unreconciled
<1> QED BY OwedInit, <1>1, <1>2, PTL DEF Spec

-----------------------------------------------------------------------------
(***************************************************************************)
(* The measurement begins with the probe of schema_enforce to run, the     *)
(* capture with it over and marked, and the mark is the last field read.   *)
(***************************************************************************)
Marked == value[SchemaRan] = 1 /\ "schema" \in inWindow

SchemaInv ==
    /\ kind \in AllKinds /\ field \in Nat
    /\ DOMAIN value = Fields /\ DOMAIN snap = Fields
    /\ kind = "schema_enforce" =>
          /\ probe \in {"schema", "schema_ran", "over"}
          /\ phase = "measuring" /\ probe # "schema" => Marked
          /\ phase = "capturing" => probe = "over" /\ Marked /\ (field > 3 => snap[SchemaRan] = 1)
          /\ phase \in {"stopping", "judging", "judged"}
                => "schema" \in inWindow /\ snap[SchemaRan] = 1

LEMMA SchemaInit == Init => SchemaInv
<1> SUFFICES ASSUME Init PROVE SchemaInv
  OBVIOUS
<1>1. kind \in AllKinds /\ field \in Nat
  BY MeasurementAssumption, Zenon DEF Init
<1>2. DOMAIN value = Fields /\ DOMAIN snap = Fields /\ phase = "starting"
  BY Zenon DEF Init
<1>3. kind = "schema_enforce" => probe = "schema"
  BY Zenon DEF Init, FirstProbe
<1> QED BY <1>1, <1>2, <1>3, Zenon DEF SchemaInv

LEMMA SchemaProbe ==
    ASSUME SchemaInv, Probe
    PROVE  SchemaInv'
<1>a. /\ kind \in AllKinds /\ field \in Nat /\ DOMAIN value = Fields /\ DOMAIN snap = Fields
      /\ SchemaRan \in DOMAIN value
  BY InFields, Zenon DEF SchemaInv
<1>b. UNCHANGED <<kind, phase, field, snap>> /\ inWindow \subseteq inWindow'
  BY Zenon DEF Probe, runProbes, flowControlProbe, leaseExtendProbe, crossStreamAckProbe,
         runInvalidAckProbe, runAtomicityProbe, runNonConformingProbe, ProbeErrs, ProbeStep,
         engine, Tested
<1>c. DOMAIN value' = DOMAIN value
  BY DEF Probe, runProbes, flowControlProbe, leaseExtendProbe, crossStreamAckProbe,
         runInvalidAckProbe, runAtomicityProbe, runNonConformingProbe, ProbeErrs, ProbeStep,
         Broken, Honoured, Increment, Mark
<1>1. CASE kind # "schema_enforce"
  BY <1>a, <1>b, <1>c, <1>1, Zenon DEF SchemaInv
<1>2. CASE kind = "schema_enforce"
  <2>a. probe \in {"schema", "schema_ran", "over"}
    BY <1>2, Zenon DEF SchemaInv
  <2>1. runNonConformingProbe \/ ProbeErrs
    BY <2>a, Zenon DEF Probe, runProbes, flowControlProbe, leaseExtendProbe, crossStreamAckProbe,
                runInvalidAckProbe, runAtomicityProbe, ProbeStep
  <2>2. CASE probe = "schema"
    <3>1. /\ phase \in {"warmup", "measuring"} /\ probe' = "schema_ran"
          /\ value' = Mark(SchemaRan) /\ inWindow' = Tested({"schema"})
      BY <2>1, <2>2, Zenon DEF runNonConformingProbe, ProbeErrs, ProbeStep, ReturnsTo, SchemaRan
    <3>2. value'[SchemaRan] = 1 /\ (phase = "measuring" => "schema" \in inWindow')
      BY <1>a, <3>1, Zenon DEF Mark, Tested
    <3> QED BY <1>a, <1>b, <1>c, <2>2, <3>1, <3>2, Zenon DEF SchemaInv, Marked
  <2>3. CASE probe # "schema"
    <3>1. probe = "schema_ran" /\ probe' = "over"
      BY <2>a, <2>1, <2>3 DEF runNonConformingProbe, ProbeErrs, ProbeStep, ReturnsTo
    <3>2. Same(SchemaRan, value')
      BY <1>a, <2>1, <3>1, OtherField
         DEF runNonConformingProbe, ProbeErrs, ProbeStep, SchemaRan, Same
    <3> QED BY <1>a, <1>b, <1>c, <1>2, <2>3, <3>1, <3>2, Zenon DEF SchemaInv, Marked, Same
  <2> QED BY <2>2, <2>3, Zenon
<1> QED BY <1>1, <1>2, Zenon

LEMMA SchemaHandler ==
    ASSUME SchemaInv, NEW m \in Messages, Handler(m)
    PROVE  SchemaInv'
<1>a. DOMAIN value = Fields /\ SchemaRan \in DOMAIN value
  BY InFields, Zenon DEF SchemaInv
<1>b. \A f : f # SchemaRan => Same(SchemaRan, Increment(f)) /\ Same(SchemaRan, Mark(f))
  BY <1>a, OtherField, Zenon
<1>1. UNCHANGED <<kind, phase, field, snap, probe>> /\ inWindow \subseteq inWindow'
  BY Zenon DEF Handler, handleMessage, AckSucceeds, AckFails, RetrySucceeds, RetryConfirmed, RetryFails,
         ProbeMessageDelivered, HandlerStep, engine, Tested
<1>2. Same(SchemaRan, value')
  <2>1. CASE RetrySucceeds(m)
    BY <1>a, <2>1, Zenon DEF RetrySucceeds, HandlerStep, Same, SchemaRan
  <2>2. CASE RetryFails(m)
    BY <2>2, Zenon DEF RetryFails, HandlerStep, Same
  <2>3. CASE handleMessage(m) \/ AckSucceeds(m) \/ AckFails(m) \/ RetryConfirmed(m)
             \/ ProbeMessageDelivered(m)
    BY <1>b, <2>3, Zenon DEF handleMessage, AckSucceeds, AckFails, RetryConfirmed, ProbeMessageDelivered,
                      HandlerStep, SchemaRan
  <2> QED BY <2>1, <2>2, <2>3, Zenon DEF Handler
<1> QED BY <1>1, <1>2, Zenon DEF SchemaInv, Marked, Same

LEMMA SchemaEngine ==
    ASSUME SchemaInv, Engine
    PROVE  SchemaInv'
<1>a. /\ kind \in AllKinds /\ field \in Nat /\ DOMAIN value = Fields /\ DOMAIN snap = Fields
      /\ SchemaRan \in DOMAIN value
  BY InFields DEF SchemaInv
<1>1. CASE \/ Warmup \/ ResetStarts \/ Cancel \/ ReturnCancelled \/ computeVerdict
  BY <1>1 DEF Warmup, ResetStarts, Cancel, ReturnCancelled, computeVerdict, Advance, SchemaInv,
              Marked
<1>2. CASE ResetAfterWarmup
  BY <1>a, <1>2 DEF ResetAfterWarmup, SchemaInv
<1>3. CASE Measure
  BY <1>a, <1>3, Zenon DEF Measure, Advance, ProbeAtStart, SchemaInv
<1>4. CASE CaptureStarts
  BY <1>a, <1>4 DEF CaptureStarts, Advance, ProducersStarted, SchemaInv, Marked
<1>5. CASE captureWorkerSnapshots
  <2>1. /\ phase = "capturing" /\ field <= Len(FieldsOf(kind)) /\ field' = field + 1
        /\ snap' = [snap EXCEPT ![FieldsOf(kind)[field]] = value[FieldsOf(kind)[field]]]
        /\ UNCHANGED <<kind, phase, value, probe, inWindow>>
    BY <1>5, Zenon DEF captureWorkerSnapshots
  <2>2. kind = "schema_enforce" /\ field' > 3 => snap'[SchemaRan] = value[SchemaRan]
    BY <1>a, <2>1, SchemaFields
  <2> QED BY <1>a, <2>1, <2>2 DEF SchemaInv, Marked
<1>6. CASE CaptureEnds
  BY <1>a, <1>6, SchemaFields, Zenon DEF CaptureEnds, Advance, SchemaInv, Marked
<1>7. CASE StopConsumers
  <2>1. DOMAIN value' = DOMAIN value
    BY <1>7, Zenon DEF StopConsumers, Increment
  <2> QED BY <1>a, <1>7, <2>1, Zenon DEF StopConsumers, Advance, SchemaInv
<1> QED BY <1>1, <1>2, <1>3, <1>4, <1>5, <1>6, <1>7, Zenon DEF Engine

LEMMA SchemaStutter == SchemaInv /\ UNCHANGED vars => SchemaInv'
  BY Zenon DEF SchemaInv, Marked, vars, engine

(***************************************************************************)
(* Whenever the run is cut off and however its deliveries are handled, a   *)
(* verdict on schema_enforce rests on a non-conforming publish of the      *)
(* measurement window: StartProducers runs the probe again after the reset *)
(* and the capture waits for it (schema_enforce.go, engine.go).            *)
(***************************************************************************)
THEOREM SchemaJudged == Spec => []SchemaAlwaysJudged
<1>1. SchemaInv /\ [Next]_vars => SchemaInv'
  BY SchemaProbe, SchemaHandler, SchemaEngine, SchemaStutter DEF Next, Over
<1>2. SchemaInv => SchemaAlwaysJudged
  BY Zenon DEF SchemaInv, SchemaAlwaysJudged, SchemaRan
<1> QED BY SchemaInit, <1>1, <1>2, PTL DEF Spec

-----------------------------------------------------------------------------
(***************************************************************************)
(* What the verdict reads.  FieldSet(k) are the fields of a type, ProbesOf *)
(* the places its probes can be at.                                        *)
(***************************************************************************)
FieldSet(k) == {FieldsOf(k)[i] : i \in 1 .. Len(FieldsOf(k))}

ProbesOf(k) ==
    CASE k = "streaming_pull" -> {"flow", "flow_ran", "lease", "lease_ran", "lease_extending",
                                  "cross", "cross_ran", "over"}
      [] k = "exactly_once" -> {"invalid_ack", "invalid_ack_ran", "over", "off"}
      [] k = "schema_enforce" -> {"schema", "schema_ran", "over"}
      [] k = "publish_pull_round_trip" -> {"atomicity", "over", "off"}
      [] OTHER -> {"over"}

Captured == {"stopping", "judging", "judged"}

(* While nothing moves the snapshot is a copy of the fields read so far. *)
CaptureInv ==
    /\ kind \in AllKinds /\ field \in Nat \ {0}
    /\ value \in [Fields -> Nat] /\ snap \in [Fields -> Nat]
    /\ handling \in [Messages -> Handling]
    /\ probe \in ProbesOf(kind)
    /\ kind = "schema_enforce" /\ phase = "resetting" => probe = "over"
    /\ \A f \in Fields \ FieldSet(kind) : snap[f] = 0
    /\ phase = "capturing" /\ quiet =>
          /\ Idle
          /\ \A i \in 1 .. Len(FieldsOf(kind)) :
                i < field => snap[FieldsOf(kind)[i]] = value[FieldsOf(kind)[i]]
    /\ phase = "judged" => failed = FailedGates(snap)

(* The counters that only a breach or an error moves. *)
Violations == {"flowControlViolations", "schemaRejectViolations", "batchAtomicityViolations",
               "deadLetterLost", "interopDiverged", "inflightCapLost"}

(* A flag of type k that is set without its confirmation: the probe is between the two     *)
(* steps, or the reset has cleared the counter and not yet the flag, the field number at.  *)
Confirmed(k, ran, conf, at, waiting) ==
    value[ran] = 1 /\ value[conf] = 0
    => waiting \/ (phase = "resetting" /\ kind = k /\ field <= at)

Handled == \E m \in Messages : handling[m] \in {"marked", "failed", "reconciled", "refused"}

ConfirmedInv ==
    /\ Confirmed("streaming_pull", "leaseExtendProbeRan", "leaseExtendRejectConfirmed", 7,
                 probe = "lease_ran")
    /\ Confirmed("streaming_pull", "leaseExtendProbeRan", "leaseExtendConfirmed", 7,
                 probe \in {"lease_ran", "lease_extending"})
    /\ Confirmed("streaming_pull", "crossStreamAckProbeRan", "crossStreamAckConfirmed", 6,
                 probe = "cross_ran")
    /\ Confirmed("schema_enforce", "schemaEnforceProbeRan", "schemaEnforceConfirmed", 3,
                 probe = "schema_ran")
    /\ Confirmed("exactly_once", "invalidAckProbeRan", "exactlyOnceInvalidAckConfirmed", 4,
                 probe = "invalid_ack_ran")
    /\ Confirmed("exactly_once", "confirmationsProbeRan", "exactlyOnceConfirmed", 5, Handled)

NoneRefused == \A m \in Messages : handling[m] # "refused"

(* The evidence of a connector that honours everything. *)
HonestInv ==
    ~erred /\ breaks = {} =>
        /\ \A f \in Violations : value[f] = 0 /\ snap[f] = 0
        /\ ConfirmedInv
        /\ phase \in Captured /\ quiet /\ NoneRefused => FailedGates(snap) = {}

(* What a probe marks, and what it counts when the connector honours the expectation. *)
Ran == [lease_reject |-> "leaseExtendProbeRan", lease_extend |-> "leaseExtendProbeRan",
        cross |-> "crossStreamAckProbeRan", schema |-> "schemaEnforceProbeRan"]
Conf == [lease_reject |-> "leaseExtendRejectConfirmed", lease_extend |-> "leaseExtendConfirmed",
         cross |-> "crossStreamAckConfirmed", schema |-> "schemaEnforceConfirmed"]
Observed == {"lease_reject", "lease_extend", "cross", "schema"}

(* The evidence of a connector that breaks something. *)
BreachInv ==
    /\ inWindow \subseteq Expectations(kind) \cap (Observed \cup {"flow", "atomicity"})
    /\ inWindow # {} => phase \in {"measuring", "capturing"} \cup Captured
    /\ ~erred => \A e \in Observed \cap breaks : value[Conf[e]] = 0
    /\ phase \in {"measuring", "capturing"} =>
          /\ \A e \in Observed \cap inWindow : value[Ran[e]] = 1
          /\ "flow" \in inWindow \cap breaks => value["flowControlViolations"] > 0 \/ probe = "flow_ran"
          /\ "atomicity" \in inWindow \cap breaks => value["batchAtomicityViolations"] > 0
    /\ phase \in Captured /\ quiet /\ ~erred => breaks \cap inWindow \subseteq FailedGates(snap)

LEMMA FieldLists ==
    /\ FieldsOf("streaming_pull") = <<"flowControlViolations", "leaseExtendConfirmed",
                                      "leaseExtendRejectConfirmed", "crossStreamAckConfirmed",
                                      "flowControlProbeRan", "crossStreamAckProbeRan",
                                      "leaseExtendProbeRan">>
    /\ FieldsOf("exactly_once") = <<"exactlyOnceConfirmed", "exactlyOnceUnreconciled",
                                    "exactlyOnceInvalidAckConfirmed", "invalidAckProbeRan",
                                    "confirmationsProbeRan">>
    /\ FieldsOf("schema_enforce") = <<"schemaRejectViolations", "schemaEnforceConfirmed",
                                      "schemaEnforceProbeRan">>
    /\ FieldsOf("publish_pull_round_trip") = <<"batchAtomicityViolations">>
    /\ FieldsOf("dead_letter") = <<"deadLetterLost">>
    /\ FieldsOf("cross_protocol_interop") = <<"interopDiverged">>
    /\ FieldsOf("inflight_cap") = <<"inflightCapLost">>
<1>1. FieldsOf("streaming_pull") = <<"flowControlViolations", "leaseExtendConfirmed",
                                     "leaseExtendRejectConfirmed", "crossStreamAckConfirmed">>
                                   \o <<"flowControlProbeRan", "crossStreamAckProbeRan",
                                        "leaseExtendProbeRan">>
  BY Zenon DEF FieldsOf, Counters, Flags, AllKinds
<1>2. FieldsOf("exactly_once") = <<"exactlyOnceConfirmed", "exactlyOnceUnreconciled",
                                   "exactlyOnceInvalidAckConfirmed">>
                                 \o <<"invalidAckProbeRan", "confirmationsProbeRan">>
  BY Zenon DEF FieldsOf, Counters, Flags, AllKinds
<1>3. FieldsOf("schema_enforce") = <<"schemaRejectViolations", "schemaEnforceConfirmed">>
                                   \o <<"schemaEnforceProbeRan">>
  BY Zenon DEF FieldsOf, Counters, Flags, AllKinds
<1>4. /\ FieldsOf("publish_pull_round_trip") = <<"batchAtomicityViolations">> \o <<>>
      /\ FieldsOf("dead_letter") = <<"deadLetterLost">> \o <<>>
      /\ FieldsOf("cross_protocol_interop") = <<"interopDiverged">> \o <<>>
      /\ FieldsOf("inflight_cap") = <<"inflightCapLost">> \o <<>>
  BY Zenon DEF FieldsOf, Counters, Flags, AllKinds
<1>5. FieldsOf("streaming_pull") = <<"flowControlViolations", "leaseExtendConfirmed",
                                     "leaseExtendRejectConfirmed", "crossStreamAckConfirmed",
                                     "flowControlProbeRan", "crossStreamAckProbeRan",
                                     "leaseExtendProbeRan">>
  BY <1>1
<1>6. FieldsOf("exactly_once") = <<"exactlyOnceConfirmed", "exactlyOnceUnreconciled",
                                   "exactlyOnceInvalidAckConfirmed", "invalidAckProbeRan",
                                   "confirmationsProbeRan">>
  BY <1>2
<1>7. FieldsOf("schema_enforce") = <<"schemaRejectViolations", "schemaEnforceConfirmed",
                                     "schemaEnforceProbeRan">>
  BY <1>3
<1>8. /\ FieldsOf("publish_pull_round_trip") = <<"batchAtomicityViolations">>
      /\ FieldsOf("dead_letter") = <<"deadLetterLost">>
      /\ FieldsOf("cross_protocol_interop") = <<"interopDiverged">>
      /\ FieldsOf("inflight_cap") = <<"inflightCapLost">>
  BY <1>4
<1> QED BY <1>5, <1>6, <1>7, <1>8, Zenon

LEMMA FieldSets ==
    /\ FieldSet("streaming_pull") = {"flowControlViolations", "leaseExtendConfirmed",
                                     "leaseExtendRejectConfirmed", "crossStreamAckConfirmed",
                                     "flowControlProbeRan", "crossStreamAckProbeRan",
                                     "leaseExtendProbeRan"}
    /\ FieldSet("exactly_once") = {"exactlyOnceConfirmed", "exactlyOnceUnreconciled",
                                   "exactlyOnceInvalidAckConfirmed", "invalidAckProbeRan",
                                   "confirmationsProbeRan"}
    /\ FieldSet("schema_enforce") = {"schemaRejectViolations", "schemaEnforceConfirmed",
                                     "schemaEnforceProbeRan"}
    /\ FieldSet("publish_pull_round_trip") = {"batchAtomicityViolations"}
    /\ FieldSet("dead_letter") = {"deadLetterLost"}
    /\ FieldSet("cross_protocol_interop") = {"interopDiverged"}
    /\ FieldSet("inflight_cap") = {"inflightCapLost"}
<1>1. FieldSet("streaming_pull") = {"flowControlViolations", "leaseExtendConfirmed",
                                    "leaseExtendRejectConfirmed", "crossStreamAckConfirmed",
                                    "flowControlProbeRan", "crossStreamAckProbeRan",
                                    "leaseExtendProbeRan"}
  <2>1. /\ Len(FieldsOf("streaming_pull")) = 7
        /\ FieldsOf("streaming_pull")[1] = "flowControlViolations"
        /\ FieldsOf("streaming_pull")[2] = "leaseExtendConfirmed"
        /\ FieldsOf("streaming_pull")[3] = "leaseExtendRejectConfirmed"
        /\ FieldsOf("streaming_pull")[4] = "crossStreamAckConfirmed"
        /\ FieldsOf("streaming_pull")[5] = "flowControlProbeRan"
        /\ FieldsOf("streaming_pull")[6] = "crossStreamAckProbeRan"
        /\ FieldsOf("streaming_pull")[7] = "leaseExtendProbeRan"
    BY FieldLists
  <2>2. 1 .. 7 = {1, 2, 3, 4, 5, 6, 7}
    OBVIOUS
  <2> QED BY <2>1, <2>2 DEF FieldSet
<1>2. FieldSet("exactly_once") = {"exactlyOnceConfirmed", "exactlyOnceUnreconciled",
                                  "exactlyOnceInvalidAckConfirmed", "invalidAckProbeRan",
                                  "confirmationsProbeRan"}
  <2>1. /\ Len(FieldsOf("exactly_once")) = 5
        /\ FieldsOf("exactly_once")[1] = "exactlyOnceConfirmed"
        /\ FieldsOf("exactly_once")[2] = "exactlyOnceUnreconciled"
        /\ FieldsOf("exactly_once")[3] = "exactlyOnceInvalidAckConfirmed"
        /\ FieldsOf("exactly_once")[4] = "invalidAckProbeRan"
        /\ FieldsOf("exactly_once")[5] = "confirmationsProbeRan"
    BY FieldLists
  <2>2. 1 .. 5 = {1, 2, 3, 4, 5}
    OBVIOUS
  <2> QED BY <2>1, <2>2, Zenon DEF FieldSet
<1>3. FieldSet("schema_enforce") = {"schemaRejectViolations", "schemaEnforceConfirmed",
                                    "schemaEnforceProbeRan"}
  <2>1. /\ Len(FieldsOf("schema_enforce")) = 3
        /\ FieldsOf("schema_enforce")[1] = "schemaRejectViolations"
        /\ FieldsOf("schema_enforce")[2] = "schemaEnforceConfirmed"
        /\ FieldsOf("schema_enforce")[3] = "schemaEnforceProbeRan"
    BY FieldLists
  <2>2. 1 .. 3 = {1, 2, 3}
    OBVIOUS
  <2> QED BY <2>1, <2>2, Zenon DEF FieldSet
<1>4. /\ FieldSet("publish_pull_round_trip") = {"batchAtomicityViolations"}
      /\ FieldSet("dead_letter") = {"deadLetterLost"}
      /\ FieldSet("cross_protocol_interop") = {"interopDiverged"}
      /\ FieldSet("inflight_cap") = {"inflightCapLost"}
  BY FieldLists DEF FieldSet
<1> QED BY <1>1, <1>2, <1>3, <1>4, Zenon

LEMMA AllFields == \A k \in AllKinds : FieldSet(k) \subseteq Fields
  BY DEF Fields, FieldSet

LEMMA Names ==
    {"flowControlViolations", "leaseExtendConfirmed", "leaseExtendRejectConfirmed",
     "crossStreamAckConfirmed", "flowControlProbeRan", "crossStreamAckProbeRan",
     "leaseExtendProbeRan", "exactlyOnceConfirmed", "exactlyOnceUnreconciled",
     "exactlyOnceInvalidAckConfirmed", "invalidAckProbeRan", "confirmationsProbeRan",
     "schemaRejectViolations", "schemaEnforceConfirmed", "schemaEnforceProbeRan",
     "batchAtomicityViolations", "deadLetterLost", "interopDiverged", "inflightCapLost"}
    \subseteq Fields
  BY FieldSets, AllFields, Zenon DEF AllKinds

LEMMA Stored ==
    ASSUME value \in [Fields -> Nat], NEW f \in Fields
    PROVE  /\ Increment(f) \in [Fields -> Nat] /\ Mark(f) \in [Fields -> Nat]
           /\ Increment(f)[f] = value[f] + 1 /\ Mark(f)[f] = 1
           /\ \A g \in Fields \ {f} : Increment(f)[g] = value[g] /\ Mark(f)[g] = value[g]
  BY DEF Increment, Mark

LEMMA ProbeFacts ==
    ASSUME CaptureInv, Probe
    PROVE  /\ UNCHANGED <<kind, breaks, phase, field, snap, handling, failed, owed>>
           /\ phase = "capturing" => ~quiet'
           /\ quiet' => quiet
           /\ value' \in [Fields -> Nat]
           /\ probe' \in ProbesOf(kind)
           /\ probe = "over" => probe' = "over"
<1>1. UNCHANGED <<kind, breaks, phase, field, snap, handling, failed, owed>>
  BY Zenon DEF Probe, runProbes, flowControlProbe, leaseExtendProbe, crossStreamAckProbe,
         runInvalidAckProbe, runAtomicityProbe, runNonConformingProbe, ProbeErrs, ProbeStep, engine
<1>2. (phase = "capturing" => ~quiet') /\ (quiet' => quiet)
  BY Zenon DEF Probe, runProbes, flowControlProbe, leaseExtendProbe, crossStreamAckProbe,
         runInvalidAckProbe, runAtomicityProbe, runNonConformingProbe, ProbeErrs, ProbeStep
<1>3. value' \in [Fields -> Nat]
  <2>1. value \in [Fields -> Nat]
    BY Zenon DEF CaptureInv
  <2>2. \A f \in Fields : Increment(f) \in [Fields -> Nat] /\ Mark(f) \in [Fields -> Nat]
    BY <2>1, Stored, Zenon
  <2>3. CASE runProbes \/ flowControlProbe \/ leaseExtendProbe \/ crossStreamAckProbe
    BY <2>1, <2>2, <2>3, Names DEF runProbes, flowControlProbe, leaseExtendProbe,
       crossStreamAckProbe, ProbeStep, Broken, Honoured
  <2>4. CASE runInvalidAckProbe \/ runAtomicityProbe \/ runNonConformingProbe
    BY <2>1, <2>2, <2>4, Names, Zenon DEF runInvalidAckProbe, runAtomicityProbe, runNonConformingProbe,
       ProbeStep, Broken, Honoured
  <2>5. CASE ProbeErrs
    BY <2>1, <2>2, <2>5, Names DEF ProbeErrs
  <2> QED BY <2>3, <2>4, <2>5, Zenon DEF Probe
<1>4. probe' \in ProbesOf(kind) /\ (probe = "over" => probe' = "over")
  <2>1. probe \in ProbesOf(kind) /\ kind \in AllKinds
    BY Zenon DEF CaptureInv
  <2>2. CASE runProbes \/ flowControlProbe \/ leaseExtendProbe \/ crossStreamAckProbe
    BY <2>1, <2>2, Zenon DEF runProbes, flowControlProbe, leaseExtendProbe, crossStreamAckProbe,
       ProbeStep, ProbesOf
  <2>3. CASE runInvalidAckProbe \/ runAtomicityProbe \/ runNonConformingProbe
    BY <2>1, <2>3, Zenon DEF runInvalidAckProbe, runAtomicityProbe, runNonConformingProbe,
       ProbeStep, ProbesOf
  <2>4. CASE ProbeErrs
    BY <2>1, <2>4 DEF ProbeErrs, ReturnsTo, ProbesOf
  <2> QED BY <2>2, <2>3, <2>4, Zenon DEF Probe
<1> QED BY <1>1, <1>2, <1>3, <1>4, Zenon

LEMMA HandlerFacts ==
    ASSUME CaptureInv, NEW m \in Messages, Handler(m)
    PROVE  /\ UNCHANGED <<kind, breaks, phase, field, snap, probe, failed, erred>>
           /\ phase = "capturing" => ~quiet'
           /\ quiet' => quiet
           /\ value' \in [Fields -> Nat]
           /\ handling' \in [Messages -> Handling]
           /\ \A x \in Messages : handling[x] = "refused" => handling'[x] = "refused"
<1>1. UNCHANGED <<kind, breaks, phase, field, snap, probe, failed, erred>>
  BY Zenon DEF Handler, handleMessage, AckSucceeds, AckFails, RetrySucceeds, RetryConfirmed, RetryFails,
         ProbeMessageDelivered, HandlerStep, engine
<1>2. (phase = "capturing" => ~quiet') /\ (quiet' => quiet)
  BY Zenon DEF Handler, handleMessage, AckSucceeds, AckFails, RetrySucceeds, RetryConfirmed, RetryFails,
         ProbeMessageDelivered, HandlerStep
<1>3. value' \in [Fields -> Nat]
  <2>1. value \in [Fields -> Nat]
    BY Zenon DEF CaptureInv
  <2>2. \A f \in Fields : Increment(f) \in [Fields -> Nat] /\ Mark(f) \in [Fields -> Nat]
    BY <2>1, Stored, Zenon
  <2>3. CASE RetrySucceeds(m)
    BY <2>1, <2>3, Names DEF RetrySucceeds, HandlerStep, Reconciled
  <2>4. CASE RetryFails(m)
    BY <2>1, <2>4, Zenon DEF RetryFails, HandlerStep
  <2>5. CASE handleMessage(m) \/ AckSucceeds(m) \/ AckFails(m) \/ RetryConfirmed(m)
             \/ ProbeMessageDelivered(m)
    BY <2>2, <2>5, Names, Zenon DEF handleMessage, AckSucceeds, AckFails, RetryConfirmed,
       ProbeMessageDelivered, HandlerStep
  <2> QED BY <2>3, <2>4, <2>5, Zenon DEF Handler
<1>4. /\ handling' \in [Messages -> Handling]
      /\ \A x \in Messages : handling[x] = "refused" => handling'[x] = "refused"
  <2>1. handling \in [Messages -> Handling]
    BY Zenon DEF CaptureInv
  <2>2. ASSUME NEW from, NEW to \in Handling, NEW v, from # "refused", HandlerStep(m, from, to, v)
        PROVE  /\ handling' \in [Messages -> Handling]
               /\ \A x \in Messages : handling[x] = "refused" => handling'[x] = "refused"
    BY <2>1, <2>2, Zenon DEF HandlerStep
  <2> QED BY <2>2, Zenon DEF Handler, handleMessage, AckSucceeds, AckFails, RetrySucceeds, RetryConfirmed,
                     RetryFails, ProbeMessageDelivered, Handling
<1> QED BY <1>1, <1>2, <1>3, <1>4, Zenon

LEMMA CaptureInit == Init => CaptureInv
<1> SUFFICES ASSUME Init PROVE CaptureInv
  OBVIOUS
<1>1. kind \in AllKinds /\ field \in Nat \ {0} /\ phase = "starting"
  BY MeasurementAssumption DEF Init
<1>2. value \in [Fields -> Nat] /\ snap \in [Fields -> Nat] /\ \A f \in Fields : snap[f] = 0
  BY Zenon DEF Init
<1>3. handling \in [Messages -> Handling]
  BY Zenon DEF Init, Handling
<1>4. probe \in ProbesOf(kind)
  BY <1>1, Zenon DEF Init, FirstProbe, ProbesOf, AllKinds
<1> QED BY <1>1, <1>2, <1>3, <1>4, Zenon DEF CaptureInv

LEMMA CaptureEngine ==
    ASSUME CaptureInv, Engine
    PROVE  CaptureInv'
<1>a. /\ kind \in AllKinds /\ field \in Nat \ {0}
      /\ value \in [Fields -> Nat] /\ snap \in [Fields -> Nat]
      /\ handling \in [Messages -> Handling]
      /\ probe \in ProbesOf(kind)
      /\ \A f \in Fields \ FieldSet(kind) : snap[f] = 0
  BY Zenon DEF CaptureInv
<1>b. \A i \in 1 .. Len(FieldsOf(kind)) : FieldsOf(kind)[i] \in FieldSet(kind)
                                          /\ FieldsOf(kind)[i] \in Fields
  BY <1>a, AllFields, Zenon DEF FieldSet
<1>1. CASE Warmup \/ Cancel \/ ReturnCancelled
  BY <1>a, <1>1 DEF Warmup, Cancel, ReturnCancelled, Advance, CaptureInv
<1>2. CASE ResetStarts
  BY <1>a, <1>2 DEF ResetStarts, Advance, ProducersStarted, CaptureInv
<1>3. CASE ResetAfterWarmup
  <2>1. value' \in [Fields -> Nat]
    BY <1>a, <1>3, Zenon DEF ResetAfterWarmup
  <2> QED BY <1>a, <2>1, <1>3 DEF ResetAfterWarmup, CaptureInv
<1>4. CASE Measure
  <2>1. probe' \in ProbesOf(kind)
    BY <1>a, <1>4, Zenon DEF Measure, ProbeAtStart, ProbesOf
  <2> QED BY <1>a, <2>1, <1>4 DEF Measure, Advance, CaptureInv
<1>5. CASE CaptureStarts
  <2>1. phase' = "capturing" /\ field' = 1 /\ (quiet' => Idle)
    BY <1>5, Zenon DEF CaptureStarts, Advance
  <2>2. UNCHANGED <<kind, value, snap, probe, handling, failed>>
    BY <1>5, Zenon DEF CaptureStarts
  <2>3. quiet' => Idle'
    BY <2>1, <2>2, Zenon DEF Idle
  <2> QED BY <1>a, <2>1, <2>2, <2>3 DEF CaptureInv
<1>6. CASE captureWorkerSnapshots
  <2>1. /\ phase = "capturing" /\ field <= Len(FieldsOf(kind)) /\ field' = field + 1
        /\ snap' = [snap EXCEPT ![FieldsOf(kind)[field]] = value[FieldsOf(kind)[field]]]
        /\ UNCHANGED <<kind, phase, value, probe, handling, failed, quiet>>
    BY <1>6, Zenon DEF captureWorkerSnapshots
  <2>2. Idle' <=> Idle
    BY <2>1, Zenon DEF Idle
  <2>3. snap' \in [Fields -> Nat] /\ \A f \in Fields \ FieldSet(kind) : snap'[f] = 0
    BY <1>a, <1>b, <2>1 DEF FieldSet
  <2>4. \A i \in 1 .. Len(FieldsOf(kind)) :
           /\ i < field => snap[FieldsOf(kind)[i]] = value[FieldsOf(kind)[i]]
           => (i < field' => snap'[FieldsOf(kind)[i]] = value'[FieldsOf(kind)[i]])
    BY <1>a, <1>b, <2>1
  <2> QED BY <1>a, <2>1, <2>2, <2>3, <2>4 DEF CaptureInv
<1>7. CASE CaptureEnds
  BY <1>a, <1>7 DEF CaptureEnds, Advance, CaptureInv
<1>8. CASE StopConsumers
  <2>1. Counters[kind][1] \in Fields
    BY <1>a, Names DEF Counters, AllKinds
  <2>2. value' \in [Fields -> Nat]
    BY <1>a, <1>8, <2>1, Stored, Zenon DEF StopConsumers
  <2> QED BY <1>a, <1>8, <2>2 DEF StopConsumers, Advance, CaptureInv
<1>9. CASE computeVerdict
  BY <1>a, <1>9 DEF computeVerdict, Advance, CaptureInv
<1> QED BY <1>1, <1>2, <1>3, <1>4, <1>5, <1>6, <1>7, <1>8, <1>9, Zenon DEF Engine

LEMMA CaptureStep ==
    ASSUME CaptureInv, [Next]_vars
    PROVE  CaptureInv'
<1>1. CASE Probe
  BY <1>1, ProbeFacts, Zenon DEF CaptureInv
<1>2. ASSUME NEW m \in Messages, Handler(m) PROVE CaptureInv'
  BY <1>2, HandlerFacts, Zenon DEF CaptureInv
<1>3. CASE UNCHANGED vars
  BY <1>3, Zenon DEF CaptureInv, Idle, vars, engine
<1> QED BY <1>1, <1>2, <1>3, CaptureEngine, Zenon DEF Next, Over

-----------------------------------------------------------------------------
(* The steps of the probes that meet no error. *)
Move(from, to, v) == probe = from /\ probe' = to /\ value' = v

LEMMA ProbeMoves ==
    ASSUME Probe, ~erred'
    PROVE  /\ ~erred
           /\ \/ Move("flow", "flow_ran", Mark("flowControlProbeRan"))
              \/ Move("flow_ran", "lease", Broken("flow", "flowControlViolations"))
              \/ Move("lease", "lease_ran", Mark("leaseExtendProbeRan"))
              \/ Move("lease_ran", "lease_extending",
                      Honoured("lease_reject", "leaseExtendRejectConfirmed"))
              \/ Move("lease_extending", "cross", Honoured("lease_extend", "leaseExtendConfirmed"))
              \/ Move("cross", "cross_ran", Mark("crossStreamAckProbeRan"))
              \/ Move("cross_ran", "over", Honoured("cross", "crossStreamAckConfirmed"))
              \/ Move("invalid_ack", "invalid_ack_ran", Mark("invalidAckProbeRan"))
              \/ Move("invalid_ack_ran", "over",
                      Honoured("invalid_ack", "exactlyOnceInvalidAckConfirmed"))
              \/ Move("atomicity", "over", Broken("atomicity", "batchAtomicityViolations"))
              \/ Move("schema", "schema_ran", Mark("schemaEnforceProbeRan"))
              \/ Move("schema_ran", "over",
                      IF "schema" \in breaks THEN Increment("schemaRejectViolations")
                                             ELSE Increment("schemaEnforceConfirmed"))
              \/ Move("flow", "lease", value) \/ Move("lease", "cross", value)
              \/ Move("cross", "over", value) \/ Move("atomicity", "over", value)
<1>1. ~ProbeErrs
  BY Zenon DEF ProbeErrs
<1>2. ~erred
  BY <1>1, Zenon DEF Probe, runProbes, flowControlProbe, leaseExtendProbe, crossStreamAckProbe,
         runInvalidAckProbe, runAtomicityProbe, runNonConformingProbe, ProbeStep
<1>3. CASE runProbes \/ flowControlProbe \/ leaseExtendProbe \/ crossStreamAckProbe
  BY <1>2, <1>3, Zenon DEF runProbes, flowControlProbe, leaseExtendProbe, crossStreamAckProbe, ProbeStep, Move
<1>4. CASE runInvalidAckProbe \/ runAtomicityProbe \/ runNonConformingProbe
  BY <1>2, <1>4, Zenon DEF runInvalidAckProbe, runAtomicityProbe, runNonConformingProbe, ProbeStep, Move
<1> QED BY <1>1, <1>3, <1>4, Zenon DEF Probe

LEMMA HonestInit == Init => HonestInv
<1> SUFFICES ASSUME Init PROVE HonestInv
  OBVIOUS
<1>1. \A f \in Fields : value[f] = 0 /\ snap[f] = 0
  BY Zenon DEF Init
<1>2. ConfirmedInv
  BY <1>1, Names DEF ConfirmedInv, Confirmed
<1>3. \A f \in Violations : value[f] = 0 /\ snap[f] = 0
  BY <1>1, Names, Zenon DEF Violations
<1>4. phase \notin Captured
  BY Zenon DEF Init, Captured
<1> QED BY <1>2, <1>3, <1>4, Zenon DEF HonestInv

LEMMA HonestProbe ==
    ASSUME CaptureInv, HonestInv, Probe
    PROVE  HonestInv'
<1> SUFFICES ASSUME ~erred', breaks' = {}
             PROVE  /\ \A f \in Violations : value'[f] = 0 /\ snap'[f] = 0
                    /\ ConfirmedInv'
                    /\ phase' \in Captured /\ quiet' /\ NoneRefused' => FailedGates(snap') = {}
  BY Zenon DEF HonestInv
<1>a. /\ UNCHANGED <<kind, breaks, phase, field, snap, handling>>
      /\ quiet' => quiet
      /\ value \in [Fields -> Nat] /\ value' \in [Fields -> Nat]
  BY ProbeFacts, Zenon DEF CaptureInv
<1>b. /\ ~erred /\ breaks = {}
      /\ \A f \in Violations : value[f] = 0 /\ snap[f] = 0
      /\ ConfirmedInv
      /\ phase \in Captured /\ quiet /\ NoneRefused => FailedGates(snap) = {}
  BY <1>a, ProbeMoves, Zenon DEF HonestInv
<1>c. phase' \in Captured /\ quiet' /\ NoneRefused' => FailedGates(snap') = {}
  BY <1>a, <1>b, Zenon DEF NoneRefused
<1>d. Handled' <=> Handled
  BY <1>a, Zenon DEF Handled
<1>e. ASSUME NEW f \in Fields \ Violations, value' = Increment(f) \/ value' = Mark(f)
      PROVE  \A g \in Violations : value'[g] = 0 /\ snap'[g] = 0
  <2>1. \A g \in Violations : g \in Fields /\ g # f
    BY <1>e, Names, Zenon DEF Violations
  <2> QED BY <1>a, <1>b, <1>e, <2>1, Stored
<1>1. \/ /\ probe \in {"flow", "flow_ran", "lease", "cross", "atomicity"}
         /\ probe' \in {"lease", "cross", "over"} /\ value' = value
      \/ Move("flow", "flow_ran", Mark("flowControlProbeRan"))
      \/ Move("lease", "lease_ran", Mark("leaseExtendProbeRan"))
      \/ Move("lease_ran", "lease_extending", Increment("leaseExtendRejectConfirmed"))
      \/ Move("lease_extending", "cross", Increment("leaseExtendConfirmed"))
      \/ Move("cross", "cross_ran", Mark("crossStreamAckProbeRan"))
      \/ Move("cross_ran", "over", Increment("crossStreamAckConfirmed"))
      \/ Move("invalid_ack", "invalid_ack_ran", Mark("invalidAckProbeRan"))
      \/ Move("invalid_ack_ran", "over", Increment("exactlyOnceInvalidAckConfirmed"))
      \/ Move("schema", "schema_ran", Mark("schemaEnforceProbeRan"))
      \/ Move("schema_ran", "over", Increment("schemaEnforceConfirmed"))
  BY <1>b, ProbeMoves, Zenon DEF Move, Honoured, Broken
<1>2. CASE /\ probe \in {"flow", "flow_ran", "lease", "cross", "atomicity"}
           /\ probe' \in {"lease", "cross", "over"} /\ value' = value
  <2>1. ConfirmedInv'
    BY <1>a, <1>b, <1>d, <1>2, Zenon DEF ConfirmedInv, Confirmed
  <2> QED BY <1>a, <1>b, <1>c, <1>2, <2>1, Zenon
<1>3. CASE Move("flow", "flow_ran", Mark("flowControlProbeRan"))
  <2> DEFINE f == "flowControlProbeRan"
  <2>1. f \in Fields \ Violations
    BY Names, Zenon DEF Violations
  <2>2. /\ probe = "flow" /\ probe' = "flow_ran" /\ value' = Mark(f)
        /\ value'[f] = 1 /\ \A g \in Fields \ {f} : value'[g] = value[g]
    BY <1>a, <1>3, <2>1, Stored, Zenon DEF Move
  <2>3. ConfirmedInv'
    BY <1>a, <1>b, <1>d, <2>2, Names, Zenon DEF ConfirmedInv, Confirmed
  <2> QED BY <1>c, <1>e, <2>1, <2>2, <2>3, Zenon
<1>4. CASE Move("lease", "lease_ran", Mark("leaseExtendProbeRan"))
  <2> DEFINE f == "leaseExtendProbeRan"
  <2>1. f \in Fields \ Violations
    BY Names, Zenon DEF Violations
  <2>2. /\ probe = "lease" /\ probe' = "lease_ran" /\ value' = Mark(f)
        /\ value'[f] = 1 /\ \A g \in Fields \ {f} : value'[g] = value[g]
    BY <1>a, <1>4, <2>1, Stored, Zenon DEF Move
  <2>3. ConfirmedInv'
    BY <1>a, <1>b, <1>d, <2>2, Names, Zenon DEF ConfirmedInv, Confirmed
  <2> QED BY <1>c, <1>e, <2>1, <2>2, <2>3, Zenon
<1>5. CASE Move("lease_ran", "lease_extending", Increment("leaseExtendRejectConfirmed"))
  <2> DEFINE f == "leaseExtendRejectConfirmed"
  <2>1. f \in Fields \ Violations
    BY Names, Zenon DEF Violations
  <2>2. /\ probe = "lease_ran" /\ probe' = "lease_extending" /\ value' = Increment(f)
        /\ value'[f] = value[f] + 1 /\ \A g \in Fields \ {f} : value'[g] = value[g]
    BY <1>a, <1>5, <2>1, Stored, Zenon DEF Move
  <2>3. ConfirmedInv'
    BY <1>a, <1>b, <1>d, <2>2, Names DEF ConfirmedInv, Confirmed
  <2> QED BY <1>c, <1>e, <2>1, <2>2, <2>3, Zenon
<1>6. CASE Move("lease_extending", "cross", Increment("leaseExtendConfirmed"))
  <2> DEFINE f == "leaseExtendConfirmed"
  <2>1. f \in Fields \ Violations
    BY Names, Zenon DEF Violations
  <2>2. /\ probe = "lease_extending" /\ probe' = "cross" /\ value' = Increment(f)
        /\ value'[f] = value[f] + 1 /\ \A g \in Fields \ {f} : value'[g] = value[g]
    BY <1>a, <1>6, <2>1, Stored, Zenon DEF Move
  <2>3. ConfirmedInv'
    BY <1>a, <1>b, <1>d, <2>2, Names DEF ConfirmedInv, Confirmed
  <2> QED BY <1>c, <1>e, <2>1, <2>2, <2>3, Zenon
<1>7. CASE Move("cross", "cross_ran", Mark("crossStreamAckProbeRan"))
  <2> DEFINE f == "crossStreamAckProbeRan"
  <2>1. f \in Fields \ Violations
    BY Names, Zenon DEF Violations
  <2>2. /\ probe = "cross" /\ probe' = "cross_ran" /\ value' = Mark(f)
        /\ value'[f] = 1 /\ \A g \in Fields \ {f} : value'[g] = value[g]
    BY <1>a, <1>7, <2>1, Stored, Zenon DEF Move
  <2>3. ConfirmedInv'
    BY <1>a, <1>b, <1>d, <2>2, Names, Zenon DEF ConfirmedInv, Confirmed
  <2> QED BY <1>c, <1>e, <2>1, <2>2, <2>3, Zenon
<1>8. CASE Move("cross_ran", "over", Increment("crossStreamAckConfirmed"))
  <2> DEFINE f == "crossStreamAckConfirmed"
  <2>1. f \in Fields \ Violations
    BY Names, Zenon DEF Violations
  <2>2. /\ probe = "cross_ran" /\ probe' = "over" /\ value' = Increment(f)
        /\ value'[f] = value[f] + 1 /\ \A g \in Fields \ {f} : value'[g] = value[g]
    BY <1>a, <1>8, <2>1, Stored, Zenon DEF Move
  <2>3. ConfirmedInv'
    BY <1>a, <1>b, <1>d, <2>2, Names DEF ConfirmedInv, Confirmed
  <2> QED BY <1>c, <1>e, <2>1, <2>2, <2>3, Zenon
<1>9. CASE Move("invalid_ack", "invalid_ack_ran", Mark("invalidAckProbeRan"))
  <2> DEFINE f == "invalidAckProbeRan"
  <2>1. f \in Fields \ Violations
    BY Names, Zenon DEF Violations
  <2>2. /\ probe = "invalid_ack" /\ probe' = "invalid_ack_ran" /\ value' = Mark(f)
        /\ value'[f] = 1 /\ \A g \in Fields \ {f} : value'[g] = value[g]
    BY <1>a, <1>9, <2>1, Stored, Zenon DEF Move
  <2>3. ConfirmedInv'
    BY <1>a, <1>b, <1>d, <2>2, Names, Zenon DEF ConfirmedInv, Confirmed
  <2> QED BY <1>c, <1>e, <2>1, <2>2, <2>3, Zenon
<1>10. CASE Move("invalid_ack_ran", "over", Increment("exactlyOnceInvalidAckConfirmed"))
  <2> DEFINE f == "exactlyOnceInvalidAckConfirmed"
  <2>1. f \in Fields \ Violations
    BY Names, Zenon DEF Violations
  <2>2. /\ probe = "invalid_ack_ran" /\ probe' = "over" /\ value' = Increment(f)
        /\ value'[f] = value[f] + 1 /\ \A g \in Fields \ {f} : value'[g] = value[g]
    BY <1>a, <1>10, <2>1, Stored, Zenon DEF Move
  <2>3. ConfirmedInv'
    BY <1>a, <1>b, <1>d, <2>2, Names DEF ConfirmedInv, Confirmed
  <2> QED BY <1>c, <1>e, <2>1, <2>2, <2>3, Zenon
<1>11. CASE Move("schema", "schema_ran", Mark("schemaEnforceProbeRan"))
  <2> DEFINE f == "schemaEnforceProbeRan"
  <2>1. f \in Fields \ Violations
    BY Names, Zenon DEF Violations
  <2>2. /\ probe = "schema" /\ probe' = "schema_ran" /\ value' = Mark(f)
        /\ value'[f] = 1 /\ \A g \in Fields \ {f} : value'[g] = value[g]
    BY <1>a, <1>11, <2>1, Stored, Zenon DEF Move
  <2>3. ConfirmedInv'
    BY <1>a, <1>b, <1>d, <2>2, Names, Zenon DEF ConfirmedInv, Confirmed
  <2> QED BY <1>c, <1>e, <2>1, <2>2, <2>3, Zenon
<1>12. CASE Move("schema_ran", "over", Increment("schemaEnforceConfirmed"))
  <2> DEFINE f == "schemaEnforceConfirmed"
  <2>1. f \in Fields \ Violations
    BY Names, Zenon DEF Violations
  <2>2. /\ probe = "schema_ran" /\ probe' = "over" /\ value' = Increment(f)
        /\ value'[f] = value[f] + 1 /\ \A g \in Fields \ {f} : value'[g] = value[g]
    BY <1>a, <1>12, <2>1, Stored, Zenon DEF Move
  <2>3. ConfirmedInv'
    BY <1>a, <1>b, <1>d, <2>2, Names DEF ConfirmedInv, Confirmed
  <2> QED BY <1>c, <1>e, <2>1, <2>2, <2>3, Zenon
<1> QED BY <1>1, <1>2, <1>3, <1>4, <1>5, <1>6, <1>7, <1>8, <1>9, <1>10, <1>11, <1>12, Zenon

LEMMA HonestHandler ==
    ASSUME CaptureInv, HonestInv, NEW m \in Messages, Handler(m)
    PROVE  HonestInv'
<1> SUFFICES ASSUME ~erred', breaks' = {}
             PROVE  /\ \A f \in Violations : value'[f] = 0 /\ snap'[f] = 0
                    /\ ConfirmedInv'
                    /\ phase' \in Captured /\ quiet' /\ NoneRefused' => FailedGates(snap') = {}
  BY Zenon DEF HonestInv
<1>a. /\ UNCHANGED <<kind, breaks, phase, field, snap, probe, erred>>
      /\ quiet' => quiet
      /\ value \in [Fields -> Nat] /\ handling \in [Messages -> Handling]
      /\ \A x \in Messages : handling[x] = "refused" => handling'[x] = "refused"
  BY HandlerFacts, Zenon DEF CaptureInv
<1>b. /\ ~erred /\ breaks = {}
      /\ \A f \in Violations : value[f] = 0 /\ snap[f] = 0
      /\ ConfirmedInv
      /\ phase \in Captured /\ quiet /\ NoneRefused => FailedGates(snap) = {}
  BY <1>a, Zenon DEF HonestInv
<1>c. phase' \in Captured /\ quiet' /\ NoneRefused' => FailedGates(snap') = {}
  BY <1>a, <1>b, Zenon DEF NoneRefused
<1> DEFINE E == {"exactlyOnceConfirmed", "confirmationsProbeRan", "exactlyOnceUnreconciled"}
<1>d. E \subseteq Fields
  BY Names, Zenon
<1>1. \A g \in Fields \ E : value'[g] = value[g]
  <2>1. \A f \in E : \A g \in Fields \ {f} : Increment(f)[g] = value[g] /\ Mark(f)[g] = value[g]
    BY <1>a, <1>d, Stored, Zenon
  <2>2. CASE RetrySucceeds(m) \/ RetryFails(m)
    BY <1>a, <2>2, Zenon DEF RetrySucceeds, RetryFails, HandlerStep
  <2>3. CASE handleMessage(m) \/ AckSucceeds(m) \/ AckFails(m) \/ RetryConfirmed(m)
    BY <2>1, <2>3, Zenon DEF handleMessage, AckSucceeds, AckFails, RetryConfirmed, HandlerStep
  <2>4. ~ProbeMessageDelivered(m)
    BY <1>b, Zenon DEF ProbeMessageDelivered
  <2> QED BY <2>2, <2>3, <2>4, Zenon DEF Handler
<1>2. value'["exactlyOnceConfirmed"] > 0 \/ Handled'
  <2>1. Increment("exactlyOnceConfirmed")["exactlyOnceConfirmed"] > 0
    BY <1>a, <1>d, Stored
  <2>2. CASE AckSucceeds(m) \/ RetryConfirmed(m)
    BY <2>1, <2>2, Zenon DEF AckSucceeds, RetryConfirmed, HandlerStep
  <2>3. CASE handleMessage(m) \/ AckFails(m) \/ RetrySucceeds(m) \/ RetryFails(m)
    <3>1. handling'[m] \in {"marked", "failed", "reconciled", "refused"}
      BY <1>a, <2>3, Zenon DEF handleMessage, AckFails, RetrySucceeds, RetryFails, HandlerStep
    <3> QED BY <3>1, Zenon DEF Handled
  <2>4. ~ProbeMessageDelivered(m)
    BY <1>b DEF ProbeMessageDelivered
  <2> QED BY <2>2, <2>3, <2>4, Zenon DEF Handler
<1>3. ConfirmedInv'
  BY <1>a, <1>b, <1>1, <1>2, Names DEF ConfirmedInv, Confirmed
<1>4. \A f \in Violations : value'[f] = value[f]
  BY <1>1, Names, Zenon DEF Violations
<1> QED BY <1>a, <1>b, <1>c, <1>3, <1>4, Zenon

(* The reset clears a counter before its flag. *)
LEMMA ResetOrder ==
    ASSUME CaptureInv, ResetAfterWarmup,
           NEW k \in AllKinds, NEW ran \in FieldSet(k), NEW conf \in FieldSet(k),
           NEW at \in 1 .. Len(FieldsOf(k)), FieldsOf(k)[at] = ran,
           \A i \in 1 .. Len(FieldsOf(k)) : FieldsOf(k)[i] = conf => i < at,
           kind # k => {ran, conf} \cap FieldSet(kind) = {}
    PROVE  value'[ran] = 1 /\ value'[conf] = 0
           => \/ /\ value[ran] = 1 /\ value[conf] = 0
                 /\ ~(phase = "resetting" /\ kind = k /\ field <= at)
              \/ phase' = "resetting" /\ kind' = k /\ field' <= at
<1> DEFINE f == FieldsOf(kind)[field]
<1>1. /\ phase = "resetting" /\ field <= Len(FieldsOf(kind)) /\ field' = field + 1
      /\ value' = [value EXCEPT ![f] = 0] /\ UNCHANGED <<kind, phase>>
  BY Zenon DEF ResetAfterWarmup
<1>2. /\ field \in 1 .. Len(FieldsOf(kind)) /\ f \in FieldSet(kind) /\ kind \in AllKinds
      /\ value \in [Fields -> Nat]
  BY <1>1 DEF CaptureInv, FieldSet
<1>3. ran \in Fields /\ conf \in Fields
  BY AllFields, Zenon
<1>4. CASE kind # k
  <2>1. f # ran /\ f # conf
    BY <1>2, <1>4, Zenon
  <2> QED BY <1>1, <1>2, <1>3, <1>4, <2>1, Zenon
<1>5. CASE kind = k
  <2>1. CASE f = ran
    BY <1>1, <1>2, <1>3, <2>1
  <2>2. CASE f # ran
    <3>1. field # at
      BY <1>5, <2>2, Zenon
    <3>2. f = conf => field < at
      BY <1>2, <1>5, Zenon
    <3>3. value'[ran] = value[ran] /\ (f # conf => value'[conf] = value[conf])
      BY <1>1, <1>2, <1>3, <2>2, Zenon
    <3> QED BY <1>1, <1>2, <1>5, <3>1, <3>2, <3>3
  <2> QED BY <2>1, <2>2, Zenon
<1> QED BY <1>4, <1>5, Zenon

LEMMA HonestReset ==
    ASSUME CaptureInv, ConfirmedInv, ResetAfterWarmup
    PROVE  ConfirmedInv'
<1>a. UNCHANGED <<probe, handling>> /\ (Handled' <=> Handled) /\ kind \in AllKinds
  BY Zenon DEF ResetAfterWarmup, Handled, CaptureInv
<1> DEFINE Ordered(k, ran, conf, at) ==
             value'[ran] = 1 /\ value'[conf] = 0
             => \/ /\ value[ran] = 1 /\ value[conf] = 0
                   /\ ~(phase = "resetting" /\ kind = k /\ field <= at)
                \/ phase' = "resetting" /\ kind' = k /\ field' <= at
<1>b. /\ Len(FieldsOf("streaming_pull")) = 7 /\ Len(FieldsOf("schema_enforce")) = 3
      /\ Len(FieldsOf("exactly_once")) = 5
  BY FieldLists, Zenon
<1>c. \A k \in {"streaming_pull", "schema_enforce", "exactly_once"} :
         kind # k => FieldSet(k) \cap FieldSet(kind) = {}
  BY <1>a, FieldSets DEF AllKinds
<1>1. Ordered("streaming_pull", "leaseExtendProbeRan", "leaseExtendRejectConfirmed", 7)
  <2>1. /\ FieldsOf("streaming_pull")[7] = "leaseExtendProbeRan"
        /\ \A i \in 1 .. 7 : FieldsOf("streaming_pull")[i] = "leaseExtendRejectConfirmed" => i < 7
    BY FieldLists
  <2>2. {"leaseExtendProbeRan", "leaseExtendRejectConfirmed"} \subseteq FieldSet("streaming_pull")
    BY FieldSets, Zenon
  <2> QED BY <1>b, <1>c, <2>1, <2>2, ResetOrder DEF AllKinds
<1>2. Ordered("streaming_pull", "leaseExtendProbeRan", "leaseExtendConfirmed", 7)
  <2>1. /\ FieldsOf("streaming_pull")[7] = "leaseExtendProbeRan"
        /\ \A i \in 1 .. 7 : FieldsOf("streaming_pull")[i] = "leaseExtendConfirmed" => i < 7
    BY FieldLists
  <2>2. {"leaseExtendProbeRan", "leaseExtendConfirmed"} \subseteq FieldSet("streaming_pull")
    BY FieldSets, Zenon
  <2> QED BY <1>b, <1>c, <2>1, <2>2, ResetOrder DEF AllKinds
<1>3. Ordered("streaming_pull", "crossStreamAckProbeRan", "crossStreamAckConfirmed", 6)
  <2>1. /\ FieldsOf("streaming_pull")[6] = "crossStreamAckProbeRan"
        /\ \A i \in 1 .. 7 : FieldsOf("streaming_pull")[i] = "crossStreamAckConfirmed" => i < 6
    BY FieldLists
  <2>2. {"crossStreamAckProbeRan", "crossStreamAckConfirmed"} \subseteq FieldSet("streaming_pull")
    BY FieldSets, Zenon
  <2>3. 6 \in 1 .. Len(FieldsOf("streaming_pull")) /\ "streaming_pull" \in AllKinds
    <3>1. 6 \in 1 .. 7
      OBVIOUS
    <3> QED BY <1>b, <3>1, Zenon DEF AllKinds
  <2> QED BY <1>b, <1>c, <2>1, <2>2, <2>3, ResetOrder
<1>4. Ordered("schema_enforce", "schemaEnforceProbeRan", "schemaEnforceConfirmed", 3)
  <2>1. /\ FieldsOf("schema_enforce")[3] = "schemaEnforceProbeRan"
        /\ \A i \in 1 .. 3 : FieldsOf("schema_enforce")[i] = "schemaEnforceConfirmed" => i < 3
    BY FieldLists
  <2>2. {"schemaEnforceProbeRan", "schemaEnforceConfirmed"} \subseteq FieldSet("schema_enforce")
    BY FieldSets, Zenon
  <2> QED BY <1>b, <1>c, <2>1, <2>2, ResetOrder DEF AllKinds
<1>5. Ordered("exactly_once", "invalidAckProbeRan", "exactlyOnceInvalidAckConfirmed", 4)
  <2>1. /\ FieldsOf("exactly_once")[4] = "invalidAckProbeRan"
        /\ \A i \in 1 .. 5 : FieldsOf("exactly_once")[i] = "exactlyOnceInvalidAckConfirmed" => i < 4
    BY FieldLists
  <2>2. {"invalidAckProbeRan", "exactlyOnceInvalidAckConfirmed"} \subseteq FieldSet("exactly_once")
    BY FieldSets, Zenon
  <2> QED BY <1>b, <1>c, <2>1, <2>2, ResetOrder DEF AllKinds
<1>6. Ordered("exactly_once", "confirmationsProbeRan", "exactlyOnceConfirmed", 5)
  <2>1. /\ FieldsOf("exactly_once")[5] = "confirmationsProbeRan"
        /\ \A i \in 1 .. 5 : FieldsOf("exactly_once")[i] = "exactlyOnceConfirmed" => i < 5
    BY FieldLists
  <2>2. {"confirmationsProbeRan", "exactlyOnceConfirmed"} \subseteq FieldSet("exactly_once")
    BY FieldSets, Zenon
  <2> QED BY <1>b, <1>c, <2>1, <2>2, ResetOrder DEF AllKinds
<1> QED BY <1>a, <1>1, <1>2, <1>3, <1>4, <1>5, <1>6 DEF ConfirmedInv, Confirmed

(* Outside the reset, and once it is over, no flag is left without its confirmation. *)
LEMMA ResetOver ==
    ASSUME CaptureInv, ConfirmedInv,
           phase = "resetting" => field > Len(FieldsOf(kind))
    PROVE  /\ value["leaseExtendProbeRan"] = 1 /\ value["leaseExtendRejectConfirmed"] = 0
              => probe = "lease_ran"
           /\ value["leaseExtendProbeRan"] = 1 /\ value["leaseExtendConfirmed"] = 0
              => probe \in {"lease_ran", "lease_extending"}
           /\ value["crossStreamAckProbeRan"] = 1 /\ value["crossStreamAckConfirmed"] = 0
              => probe = "cross_ran"
           /\ value["schemaEnforceProbeRan"] = 1 /\ value["schemaEnforceConfirmed"] = 0
              => probe = "schema_ran"
           /\ value["invalidAckProbeRan"] = 1 /\ value["exactlyOnceInvalidAckConfirmed"] = 0
              => probe = "invalid_ack_ran"
           /\ value["confirmationsProbeRan"] = 1 /\ value["exactlyOnceConfirmed"] = 0
              => Handled
<1>1. /\ Len(FieldsOf("streaming_pull")) = 7 /\ Len(FieldsOf("schema_enforce")) = 3
      /\ Len(FieldsOf("exactly_once")) = 5
  BY FieldLists, Zenon
<1>2. field \in Nat
  BY Zenon DEF CaptureInv
<1>3. /\ ~(phase = "resetting" /\ kind = "streaming_pull" /\ field <= 7)
      /\ ~(phase = "resetting" /\ kind = "streaming_pull" /\ field <= 6)
      /\ ~(phase = "resetting" /\ kind = "schema_enforce" /\ field <= 3)
      /\ ~(phase = "resetting" /\ kind = "exactly_once" /\ field <= 4)
      /\ ~(phase = "resetting" /\ kind = "exactly_once" /\ field <= 5)
  <2>a. \A n \in Nat : (n > 7 => ~(n <= 7) /\ ~(n <= 6)) /\ (n > 5 => ~(n <= 5) /\ ~(n <= 4))
    OBVIOUS
  <2>1. phase = "resetting" /\ kind = "streaming_pull" => ~(field <= 7) /\ ~(field <= 6)
    <3>1. phase = "resetting" /\ kind = "streaming_pull" => field > 7
      BY <1>1, Zenon
    <3> QED BY <1>2, <2>a, <3>1, Zenon
  <2>2. phase = "resetting" /\ kind = "schema_enforce" => ~(field <= 3)
    <3>1. phase = "resetting" /\ kind = "schema_enforce" => field > 3
      BY <1>1, Zenon
    <3> QED BY <1>2, <3>1
  <2>3. phase = "resetting" /\ kind = "exactly_once" => ~(field <= 4) /\ ~(field <= 5)
    <3>1. phase = "resetting" /\ kind = "exactly_once" => field > 5
      BY <1>1, Zenon
    <3> QED BY <1>2, <2>a, <3>1, Zenon
  <2> QED BY <2>1, <2>2, <2>3, Zenon
<1> QED BY <1>3, Zenon DEF ConfirmedInv, Confirmed

LEMMA CleanCapture ==
    ASSUME OwedInv, CaptureInv, HonestInv, ~erred, breaks = {}, NoneRefused,
           phase = "capturing", quiet, field > Len(FieldsOf(kind))
    PROVE  FailedGates(snap) = {}
<1>a. /\ kind \in AllKinds /\ field \in Nat /\ value \in [Fields -> Nat] /\ snap \in [Fields -> Nat]
      /\ Idle /\ handling \in [Messages -> Handling]
      /\ \A f \in Fields \ FieldSet(kind) : snap[f] = 0
      /\ \A i \in 1 .. Len(FieldsOf(kind)) : snap[FieldsOf(kind)[i]] = value[FieldsOf(kind)[i]]
  BY DEF CaptureInv
<1>b. \A f \in FieldSet(kind) : snap[f] = value[f]
  BY <1>a, Zenon DEF FieldSet
<1>c. ConfirmedInv /\ \A f \in Violations : snap[f] = 0
  BY Zenon DEF HonestInv
<1>d. probe \in Unopened /\ ~Handled
  BY <1>a, Zenon DEF Idle, Handled, NoneRefused
<1>e. /\ ~(value["leaseExtendProbeRan"] = 1 /\ value["leaseExtendRejectConfirmed"] = 0)
      /\ ~(value["leaseExtendProbeRan"] = 1 /\ value["leaseExtendConfirmed"] = 0)
      /\ ~(value["crossStreamAckProbeRan"] = 1 /\ value["crossStreamAckConfirmed"] = 0)
      /\ ~(value["schemaEnforceProbeRan"] = 1 /\ value["schemaEnforceConfirmed"] = 0)
      /\ ~(value["invalidAckProbeRan"] = 1 /\ value["exactlyOnceInvalidAckConfirmed"] = 0)
      /\ ~(value["confirmationsProbeRan"] = 1 /\ value["exactlyOnceConfirmed"] = 0)
  BY <1>c, <1>d, ResetOver, Zenon DEF Unopened
<1>1. /\ ~(snap["leaseExtendProbeRan"] = 1 /\ snap["leaseExtendRejectConfirmed"] = 0)
      /\ ~(snap["leaseExtendProbeRan"] = 1 /\ snap["leaseExtendConfirmed"] = 0)
      /\ ~(snap["crossStreamAckProbeRan"] = 1 /\ snap["crossStreamAckConfirmed"] = 0)
  <2>1. CASE kind = "streaming_pull"
    BY <1>b, <1>e, <2>1, FieldSets, Zenon
  <2>2. CASE kind # "streaming_pull"
    <3>1. "leaseExtendProbeRan" \notin FieldSet(kind) /\ "crossStreamAckProbeRan" \notin FieldSet(kind)
      <4>1. CASE kind = "exactly_once"
        BY <4>1, FieldSets, Zenon
      <4>2. CASE kind \in AllKinds \ {"streaming_pull", "exactly_once"}
        BY <4>2, FieldSets DEF AllKinds
      <4> QED BY <1>a, <2>2, <4>1, <4>2, Zenon
    <3>2. snap["leaseExtendProbeRan"] = 0 /\ snap["crossStreamAckProbeRan"] = 0
      BY <1>a, <3>1, Names, Zenon
    <3> QED BY <3>2
  <2> QED BY <2>1, <2>2, Zenon
<1>2. ~(snap["schemaEnforceProbeRan"] = 1 /\ snap["schemaEnforceConfirmed"] = 0)
  <2>1. CASE kind = "schema_enforce"
    BY <1>b, <1>e, <2>1, FieldSets, Zenon
  <2>2. CASE kind # "schema_enforce"
    <3>1. "schemaEnforceProbeRan" \notin FieldSet(kind)
      BY <1>a, <2>2, FieldSets, Zenon DEF AllKinds
    <3>2. snap["schemaEnforceProbeRan"] = 0
      BY <1>a, <3>1, Names, Zenon
    <3> QED BY <3>2
  <2> QED BY <2>1, <2>2, Zenon
<1>3. /\ ~(snap["invalidAckProbeRan"] = 1 /\ snap["exactlyOnceInvalidAckConfirmed"] = 0)
      /\ ~(snap["confirmationsProbeRan"] = 1 /\ snap["exactlyOnceConfirmed"] = 0)
  <2>1. CASE kind = "exactly_once"
    BY <1>b, <1>e, <2>1, FieldSets, Zenon
  <2>2. CASE kind # "exactly_once"
    <3>1. "invalidAckProbeRan" \notin FieldSet(kind) /\ "confirmationsProbeRan" \notin FieldSet(kind)
      <4>1. CASE kind = "streaming_pull"
        BY <4>1, FieldSets, Zenon
      <4>2. CASE kind \in AllKinds \ {"streaming_pull", "exactly_once"}
        BY <4>2, FieldSets DEF AllKinds
      <4> QED BY <1>a, <2>2, <4>1, <4>2, Zenon
    <3>2. snap["invalidAckProbeRan"] = 0 /\ snap["confirmationsProbeRan"] = 0
      BY <1>a, <3>1, Names, Zenon
    <3> QED BY <3>2
  <2> QED BY <2>1, <2>2, Zenon
<1>4. snap["exactlyOnceUnreconciled"] = 0
  <2>1. owed = {}
    BY <1>a, Zenon DEF OwedInv, Idle, NoneRefused
  <2>2. value["exactlyOnceUnreconciled"] <= Cardinality({})
    BY <2>1, Zenon DEF OwedInv, Unreconciled
  <2>c. Cardinality({}) = 0
    BY FS_EmptySet, Zenon
  <2>n. value["exactlyOnceUnreconciled"] \in Nat
    BY <1>a, Names, Zenon
  <2>3. value["exactlyOnceUnreconciled"] = 0
    BY <2>2, <2>c, <2>n
  <2> QED BY <1>a, <1>b, <2>3, Names, Zenon
<1>5. /\ snap["flowControlViolations"] = 0 /\ snap["schemaRejectViolations"] = 0
      /\ snap["batchAtomicityViolations"] = 0 /\ snap["deadLetterLost"] = 0
      /\ snap["interopDiverged"] = 0 /\ snap["inflightCapLost"] = 0
  BY <1>c, Zenon DEF Violations
<1>6. /\ ~NeverObserved(snap.leaseExtendProbeRan, snap.leaseExtendRejectConfirmed)
      /\ ~NeverObserved(snap.leaseExtendProbeRan, snap.leaseExtendConfirmed)
      /\ ~NeverObserved(snap.crossStreamAckProbeRan, snap.crossStreamAckConfirmed)
      /\ ~NeverObserved(snap.schemaEnforceProbeRan, snap.schemaEnforceConfirmed)
      /\ ~NeverObserved(snap.invalidAckProbeRan, snap.exactlyOnceInvalidAckConfirmed)
      /\ ~NeverObserved(snap.confirmationsProbeRan, snap.exactlyOnceConfirmed)
  BY <1>1, <1>2, <1>3, Zenon DEF NeverObserved
<1>7. /\ ~Present(snap.flowControlViolations) /\ ~Present(snap.schemaRejectViolations)
      /\ ~Present(snap.batchAtomicityViolations) /\ ~Present(snap.deadLetterLost)
      /\ ~Present(snap.interopDiverged) /\ ~Present(snap.inflightCapLost)
      /\ ~Present(snap.exactlyOnceUnreconciled)
  BY <1>4, <1>5 DEF Present
<1> QED BY <1>6, <1>7, Zenon DEF FailedGates

LEMMA HonestEngine ==
    ASSUME OwedInv, CaptureInv, HonestInv, Engine
    PROVE  HonestInv'
<1> SUFFICES ASSUME ~erred', breaks' = {}
             PROVE  /\ \A f \in Violations : value'[f] = 0 /\ snap'[f] = 0
                    /\ ConfirmedInv'
                    /\ phase' \in Captured /\ quiet' /\ NoneRefused' => FailedGates(snap') = {}
  BY Zenon DEF HonestInv
<1>a. UNCHANGED <<kind, breaks, erred, handling>>
  BY Zenon DEF Engine, Warmup, ResetStarts, ResetAfterWarmup, Measure, CaptureStarts,
         captureWorkerSnapshots, CaptureEnds, StopConsumers, computeVerdict, Cancel, ReturnCancelled
<1>b. /\ ~erred /\ breaks = {}
      /\ \A f \in Violations : value[f] = 0 /\ snap[f] = 0
      /\ ConfirmedInv
      /\ phase \in Captured /\ quiet /\ NoneRefused => FailedGates(snap) = {}
  BY <1>a, Zenon DEF HonestInv
<1>c. (Handled' <=> Handled) /\ (NoneRefused' <=> NoneRefused)
  BY <1>a, Zenon DEF Handled, NoneRefused
<1>d. value \in [Fields -> Nat] /\ snap \in [Fields -> Nat] /\ Violations \subseteq Fields
  BY Names, Zenon DEF CaptureInv, Violations
<1>1. CASE Warmup \/ ResetStarts \/ CaptureStarts
  <2>1. /\ UNCHANGED <<value, snap, probe>> /\ phase' \notin Captured /\ phase # "resetting"
    BY <1>1, Zenon DEF Warmup, ResetStarts, CaptureStarts, Advance, Captured
  <2>2. ConfirmedInv'
    BY <1>b, <1>c, <2>1, Zenon DEF ConfirmedInv, Confirmed
  <2> QED BY <1>b, <2>1, <2>2, Zenon
<1>2. CASE Cancel
  <2>1. UNCHANGED <<value, snap, probe, phase, field, quiet>>
    BY <1>2, Zenon DEF Cancel
  <2>2. ConfirmedInv'
    BY <1>a, <1>b, <1>c, <2>1, Zenon DEF ConfirmedInv, Confirmed
  <2> QED BY <1>b, <1>c, <2>1, <2>2, Zenon
<1>3. CASE ReturnCancelled
  <2>1. /\ UNCHANGED <<value, snap, probe>> /\ phase' \notin Captured
        /\ phase = "resetting" => field > Len(FieldsOf(kind))
    BY <1>3, Zenon DEF ReturnCancelled, Captured
  <2>2. ConfirmedInv'
    BY <1>b, <1>c, <2>1, ResetOver, Zenon DEF ConfirmedInv, Confirmed
  <2> QED BY <1>b, <2>1, <2>2, Zenon
<1>4. CASE ResetAfterWarmup
  <2>1. /\ phase' \notin Captured /\ UNCHANGED snap
        /\ value' = [value EXCEPT ![FieldsOf(kind)[field]] = 0]
    BY <1>4, Zenon DEF ResetAfterWarmup, Captured
  <2>2. \A f \in Violations : value'[f] = 0
    BY <1>b, <1>d, <2>1, Zenon
  <2> QED BY <1>b, <1>4, <2>1, <2>2, HonestReset, Zenon
<1>5. CASE Measure
  <2>1. /\ UNCHANGED <<value, snap>> /\ phase' \notin Captured /\ phase = "resetting"
        /\ field > Len(FieldsOf(kind)) /\ probe' = ProbeAtStart(kind)
    BY <1>5, Zenon DEF Measure, Advance, Captured
  <2>2. kind = "schema_enforce" => probe = "over"
    BY <2>1, Zenon DEF CaptureInv
  <2>3. probe' = probe \/ probe = "over"
    BY <2>1, <2>2, Zenon DEF ProbeAtStart
  <2>4. ConfirmedInv'
    BY <1>b, <1>c, <2>1, <2>3, ResetOver, Zenon DEF ConfirmedInv, Confirmed
  <2> QED BY <1>b, <2>1, <2>4, Zenon
<1>6. CASE captureWorkerSnapshots
  <2>1. /\ UNCHANGED <<value, probe, phase>> /\ phase' \notin Captured /\ phase # "resetting"
        /\ snap' = [snap EXCEPT ![FieldsOf(kind)[field]] = value[FieldsOf(kind)[field]]]
    BY <1>6, Zenon DEF captureWorkerSnapshots, Captured
  <2>2. \A f \in Violations : snap'[f] = 0
    BY <1>b, <1>d, <2>1, Zenon
  <2>3. ConfirmedInv'
    BY <1>b, <1>c, <2>1, Zenon DEF ConfirmedInv, Confirmed
  <2> QED BY <1>b, <2>1, <2>2, <2>3, Zenon
<1>7. CASE CaptureEnds
  <2>1. /\ UNCHANGED <<value, snap, probe, quiet>> /\ phase = "capturing"
        /\ field > Len(FieldsOf(kind))
    BY <1>7, Zenon DEF CaptureEnds, Advance
  <2>2. ConfirmedInv'
    BY <1>b, <1>c, <2>1, Zenon DEF ConfirmedInv, Confirmed
  <2>3. quiet' /\ NoneRefused' => FailedGates(snap') = {}
    BY <1>b, <1>c, <2>1, CleanCapture, Zenon
  <2> QED BY <1>b, <2>1, <2>2, <2>3, Zenon
<1>8. CASE StopConsumers \/ computeVerdict
  <2>1. /\ UNCHANGED <<value, snap, probe, quiet>> /\ phase \in Captured /\ phase # "resetting"
    BY <1>b, <1>8, Zenon DEF StopConsumers, computeVerdict, Advance, Captured
  <2>2. ConfirmedInv'
    BY <1>b, <1>c, <2>1, Zenon DEF ConfirmedInv, Confirmed
  <2> QED BY <1>b, <1>c, <2>1, <2>2, Zenon
<1> QED BY <1>1, <1>2, <1>3, <1>4, <1>5, <1>6, <1>7, <1>8, Zenon DEF Engine

LEMMA HonestStutter == HonestInv /\ UNCHANGED vars => HonestInv'
<1> SUFFICES ASSUME HonestInv, UNCHANGED vars PROVE HonestInv'
  BY Zenon
<1>1. UNCHANGED <<kind, breaks, phase, field, value, snap, probe, handling, erred, quiet>>
  BY Zenon DEF vars, engine
<1>2. ConfirmedInv <=> ConfirmedInv'
  BY <1>1 DEF ConfirmedInv, Confirmed, Handled
<1>3. NoneRefused <=> NoneRefused'
  BY <1>1, Zenon DEF NoneRefused
<1> QED BY <1>1, <1>2, <1>3, Zenon DEF HonestInv

(***************************************************************************)
(* For any number of deliveries, a verdict fails no gate of a connector    *)
(* that honours everything (verdict.go): the probes and handlers mark      *)
(* before they confirm and ResetAfterWarmup clears the counters before the *)
(* flags (worker.go:576-630), so a flag found without its confirmation     *)
(* belongs to a probe that is between the two.                             *)
(***************************************************************************)
THEOREM HonestPasses == Spec => []NoFalseFailure
<1> DEFINE I == OwedInv /\ CaptureInv /\ HonestInv
<1>1. Init => I
  BY OwedInit, CaptureInit, HonestInit, Zenon
<1>2. I /\ [Next]_vars => I'
  <2> SUFFICES ASSUME OwedInv, CaptureInv, HonestInv, [Next]_vars PROVE I'
    BY Zenon
  <2>1. OwedInv'
    BY OwedProbe, OwedHandler, OwedEngine, OwedStutter, Zenon DEF Next, Over
  <2>2. HonestInv'
    BY HonestProbe, HonestHandler, HonestEngine, HonestStutter, Zenon DEF Next, Over
  <2> QED BY <2>1, <2>2, CaptureStep, Zenon
<1>3. I => NoFalseFailure
  BY Zenon DEF CaptureInv, HonestInv, NoneRefused, Captured, NoFalseFailure
<1> QED BY <1>1, <1>2, <1>3, PTL DEF Spec

-----------------------------------------------------------------------------
LEMMA ObservedFields == \A e \in Observed : Ran[e] \in Fields /\ Conf[e] \in Fields
<1>1. /\ {"leaseExtendProbeRan", "crossStreamAckProbeRan", "schemaEnforceProbeRan"} \subseteq Fields
      /\ {"leaseExtendRejectConfirmed", "leaseExtendConfirmed"} \subseteq Fields
      /\ {"crossStreamAckConfirmed", "schemaEnforceConfirmed"} \subseteq Fields
  BY Names, Zenon
<1>2. \A e \in Observed : Ran[e] \in Fields
  BY <1>1 DEF Observed, Ran
<1>3. \A e \in Observed : Conf[e] \in Fields
  BY <1>1 DEF Observed, Conf
<1> QED BY <1>2, <1>3, Zenon

LEMMA BreachInit == Init => BreachInv
<1> SUFFICES ASSUME Init PROVE BreachInv
  OBVIOUS
<1>1. \A f \in Fields : value[f] = 0
  BY Zenon DEF Init
<1>2. \A e \in Observed : Conf[e] \in Fields
  BY ObservedFields, Zenon
<1>3. inWindow = {} /\ phase = "starting"
  BY Zenon DEF Init
<1> QED BY <1>1, <1>2, <1>3, Zenon DEF BreachInv, Captured

(* Which fields an expectation of the window is found in, by the worker's type. *)
LEMMA WindowFields ==
    ASSUME CaptureInv, BreachInv
    PROVE  /\ \A e \in Observed \cap inWindow : {Ran[e], Conf[e]} \subseteq FieldSet(kind)
           /\ "flow" \in inWindow => "flowControlViolations" \in FieldSet(kind)
           /\ "atomicity" \in inWindow => "batchAtomicityViolations" \in FieldSet(kind)
<1>1. kind \in AllKinds /\ inWindow \subseteq Expectations(kind)
  BY Zenon DEF CaptureInv, BreachInv
<1>2. /\ \A e \in {"flow", "lease_reject", "lease_extend", "cross"} :
            e \in inWindow => kind = "streaming_pull"
      /\ "schema" \in inWindow => kind = "schema_enforce"
      /\ "atomicity" \in inWindow => kind = "publish_pull_round_trip"
  BY <1>1, Zenon DEF AllKinds, Expectations
<1> QED BY <1>2, FieldSets DEF Observed, Ran, Conf

LEMMA FoundCapture ==
    ASSUME CaptureInv, BreachInv, ~erred, phase = "capturing", quiet, field > Len(FieldsOf(kind))
    PROVE  breaks \cap inWindow \subseteq FailedGates(snap)
<1>a. /\ kind \in AllKinds /\ field \in Nat /\ Idle
      /\ \A i \in 1 .. Len(FieldsOf(kind)) : snap[FieldsOf(kind)[i]] = value[FieldsOf(kind)[i]]
  BY DEF CaptureInv
<1>b. \A f \in FieldSet(kind) : snap[f] = value[f]
  BY <1>a, Zenon DEF FieldSet
<1>c. probe # "flow_ran"
  BY <1>a, Zenon DEF Idle, Unopened
<1>d. \A e \in Observed \cap inWindow \cap breaks : snap[Ran[e]] = 1 /\ snap[Conf[e]] = 0
  BY <1>b, WindowFields, Zenon DEF BreachInv
<1>e. /\ "flow" \in inWindow \cap breaks => snap["flowControlViolations"] > 0
      /\ "atomicity" \in inWindow \cap breaks => snap["batchAtomicityViolations"] > 0
  BY <1>b, <1>c, WindowFields, Zenon DEF BreachInv
<1> SUFFICES ASSUME NEW e \in breaks \cap inWindow PROVE e \in FailedGates(snap)
  BY Zenon
<1>f. e \in Observed \cup {"flow", "atomicity"}
  BY Zenon DEF BreachInv
<1>1. CASE e = "flow"
  BY <1>1, <1>e, Zenon DEF FailedGates, Present
<1>2. CASE e = "atomicity"
  BY <1>2, <1>e, Zenon DEF FailedGates, Present
<1>3. CASE e = "lease_reject"
  <2>1. snap["leaseExtendProbeRan"] = 1 /\ snap["leaseExtendRejectConfirmed"] = 0
    BY <1>3, <1>d DEF Observed, Ran, Conf
  <2> QED BY <1>3, <2>1, Zenon DEF FailedGates, NeverObserved
<1>4. CASE e = "lease_extend"
  <2>1. snap["leaseExtendProbeRan"] = 1 /\ snap["leaseExtendConfirmed"] = 0
    BY <1>4, <1>d DEF Observed, Ran, Conf
  <2> QED BY <1>4, <2>1, Zenon DEF FailedGates, NeverObserved
<1>5. CASE e = "cross"
  <2>1. snap["crossStreamAckProbeRan"] = 1 /\ snap["crossStreamAckConfirmed"] = 0
    BY <1>5, <1>d DEF Observed, Ran, Conf
  <2> QED BY <1>5, <2>1, Zenon DEF FailedGates, NeverObserved
<1>6. CASE e = "schema"
  <2>1. snap["schemaEnforceProbeRan"] = 1 /\ snap["schemaEnforceConfirmed"] = 0
    BY <1>6, <1>d DEF Observed, Ran, Conf
  <2> QED BY <1>6, <2>1, Zenon DEF FailedGates, NeverObserved
<1> QED BY <1>f, <1>1, <1>2, <1>3, <1>4, <1>5, <1>6, Zenon DEF Observed

(* What a step of the probes adds to the window it has marked. *)
LEMMA ProbeWindow ==
    ASSUME CaptureInv, BreachInv, Probe
    PROVE  /\ inWindow' \subseteq Expectations(kind) \cap (Observed \cup {"flow", "atomicity"})
           /\ inWindow' # inWindow => phase = "measuring"
           /\ \A e \in inWindow' \ inWindow :
                 /\ e # "atomicity"
                 /\ e = "flow" => probe' = "flow_ran"
                 /\ e \in Observed => value' = Mark(Ran[e])
<1>a. probe \in ProbesOf(kind) /\ kind \in AllKinds
      /\ inWindow \subseteq Expectations(kind) \cap (Observed \cup {"flow", "atomicity"})
  BY Zenon DEF CaptureInv, BreachInv
<1>1. CASE runProbes \/ ProbeErrs
  <2>1. inWindow' = inWindow
    BY <1>1, Zenon DEF runProbes, ProbeErrs, ProbeStep, Tested
  <2> QED BY <1>a, <2>1, Zenon
<1>2. CASE runInvalidAckProbe \/ runAtomicityProbe
  <2>1. inWindow' = inWindow
    BY <1>2, Zenon DEF runInvalidAckProbe, runAtomicityProbe, ProbeStep, Tested
  <2> QED BY <1>a, <2>1
<1>3. CASE flowControlProbe
  <2>1. \/ inWindow' = inWindow
        \/ /\ phase = "measuring" /\ inWindow' = inWindow \cup {"flow"}
           /\ probe = "flow" /\ probe' = "flow_ran"
    BY <1>3, Zenon DEF flowControlProbe, ProbeStep, Tested
  <2>2. probe = "flow" => kind = "streaming_pull"
    BY <1>a, Zenon DEF ProbesOf
  <2> QED BY <1>a, <2>1, <2>2, Zenon DEF Expectations, Observed
<1>4. CASE leaseExtendProbe
  <2>1. \/ inWindow' = inWindow
        \/ /\ phase = "measuring" /\ inWindow' = inWindow \cup {"lease_reject", "lease_extend"}
           /\ probe = "lease" /\ value' = Mark("leaseExtendProbeRan")
    BY <1>4, Zenon DEF leaseExtendProbe, ProbeStep, Tested
  <2>2. probe = "lease" => kind = "streaming_pull"
    BY <1>a, Zenon DEF ProbesOf
  <2> QED BY <1>a, <2>1, <2>2 DEF Expectations, Observed, Ran
<1>5. CASE crossStreamAckProbe
  <2>1. \/ inWindow' = inWindow
        \/ /\ phase = "measuring" /\ inWindow' = inWindow \cup {"cross"}
           /\ probe = "cross" /\ value' = Mark("crossStreamAckProbeRan")
    BY <1>5, Zenon DEF crossStreamAckProbe, ProbeStep, Tested
  <2>2. probe = "cross" => kind = "streaming_pull"
    BY <1>a, Zenon DEF ProbesOf
  <2> QED BY <1>a, <2>1, <2>2 DEF Expectations, Observed, Ran
<1>6. CASE runNonConformingProbe
  <2>1. \/ inWindow' = inWindow
        \/ /\ phase = "measuring" /\ inWindow' = inWindow \cup {"schema"}
           /\ probe = "schema" /\ value' = Mark("schemaEnforceProbeRan")
    BY <1>6, Zenon DEF runNonConformingProbe, ProbeStep, Tested
  <2>2. probe = "schema" => kind = "schema_enforce"
    BY <1>a, Zenon DEF ProbesOf
  <2> QED BY <1>a, <2>1, <2>2 DEF Expectations, Observed, Ran
<1> QED BY <1>1, <1>2, <1>3, <1>4, <1>5, <1>6, Zenon DEF Probe

(* Counters never shrink and flags are never cleared by a probe; a broken expectation is *)
(* not confirmed, and a breach of flow control is counted.                               *)
LEMMA ProbeEvidence ==
    ASSUME CaptureInv, Probe
    PROVE  /\ \A e \in Observed : value[Ran[e]] = 1 => value'[Ran[e]] = 1
           /\ \A f \in Violations : value[f] > 0 => value'[f] > 0
           /\ ~erred' => \A e \in Observed \cap breaks : value'[Conf[e]] = value[Conf[e]]
           /\ "flow" \in breaks /\ probe = "flow_ran" =>
                 value'["flowControlViolations"] > 0
<1>a. value \in [Fields -> Nat] /\ probe \in ProbesOf(kind)
  BY Zenon DEF CaptureInv
<1>b. \A f \in Fields : /\ Increment(f)[f] = value[f] + 1 /\ Mark(f)[f] = 1
                        /\ \A g \in Fields \ {f} : Increment(f)[g] = value[g] /\ Mark(f)[g] = value[g]
  BY <1>a, Stored, Zenon
<1>c. \A e \in Observed : Ran[e] \in Fields /\ Conf[e] \in Fields
  BY ObservedFields, Zenon
<1>d. Violations \subseteq Fields
  BY Names, Zenon DEF Violations
<1> DEFINE Counted == {"flowControlViolations", "batchAtomicityViolations", "schemaRejectViolations",
                       "leaseExtendConfirmed", "leaseExtendRejectConfirmed",
                       "crossStreamAckConfirmed", "exactlyOnceInvalidAckConfirmed",
                       "schemaEnforceConfirmed"}
           Marks == {"flowControlProbeRan", "leaseExtendProbeRan", "crossStreamAckProbeRan",
                     "invalidAckProbeRan", "schemaEnforceProbeRan"}
<1>1. \/ value' = value \/ (\E f \in Counted : value' = Increment(f))
      \/ (\E f \in Marks : value' = Mark(f))
  <2>1. CASE runProbes \/ flowControlProbe \/ leaseExtendProbe \/ crossStreamAckProbe
    BY <2>1, Zenon DEF runProbes, flowControlProbe, leaseExtendProbe, crossStreamAckProbe, ProbeStep,
                Broken, Honoured
  <2>2. CASE runInvalidAckProbe \/ runAtomicityProbe \/ runNonConformingProbe
    BY <2>2 DEF runInvalidAckProbe, runAtomicityProbe, runNonConformingProbe, ProbeStep,
                Broken, Honoured
  <2>3. CASE ProbeErrs
    BY <2>3, Zenon DEF ProbeErrs
  <2> QED BY <2>1, <2>2, <2>3, Zenon DEF Probe
<1>2. Counted \subseteq Fields /\ Marks \subseteq Fields
  BY Names, Zenon
<1>3. \A e \in Observed : value[Ran[e]] = 1 => value'[Ran[e]] = 1
  <2>1. \A e \in Observed : Ran[e] \notin Counted
    BY DEF Observed, Ran
  <2> QED BY <1>b, <1>c, <1>1, <1>2, <2>1
<1>4. \A f \in Violations : value[f] > 0 => value'[f] > 0
  <2>1. \A f \in Violations : f \notin Marks
    BY Zenon DEF Violations
  <2> QED BY <1>a, <1>b, <1>d, <1>1, <1>2, <2>1
<1>5. ASSUME ~erred', NEW e \in Observed \cap breaks PROVE value'[Conf[e]] = value[Conf[e]]
  <2>1. ASSUME NEW f \in Fields, f # Conf[e], value' = Increment(f) \/ value' = Mark(f)
        PROVE  value'[Conf[e]] = value[Conf[e]]
    BY <1>b, <1>c, <2>1
  <2>2. Conf[e] \notin Marks \cup {"flowControlViolations", "batchAtomicityViolations",
                                   "schemaRejectViolations", "exactlyOnceInvalidAckConfirmed"}
    BY DEF Observed, Conf
  <2>3. /\ e # "lease_reject" => Conf[e] # "leaseExtendRejectConfirmed"
        /\ e # "lease_extend" => Conf[e] # "leaseExtendConfirmed"
        /\ e # "cross" => Conf[e] # "crossStreamAckConfirmed"
        /\ e # "schema" => Conf[e] # "schemaEnforceConfirmed"
    BY DEF Observed, Conf
  <2>4. \/ value' = value
        \/ \E f \in Marks : value' = Mark(f)
        \/ \E f \in Counted : value' = Increment(f) /\ f # Conf[e]
    BY <1>5, <2>2, <2>3, ProbeMoves, Zenon DEF Move, Honoured, Broken
  <2> QED BY <1>2, <2>1, <2>2, <2>4, Zenon
<1>6. ASSUME "flow" \in breaks, probe = "flow_ran" PROVE value'["flowControlViolations"] > 0
  <2>1. value' = Increment("flowControlViolations")
    BY <1>6, Zenon DEF Probe, runProbes, flowControlProbe, leaseExtendProbe, crossStreamAckProbe,
       runInvalidAckProbe, runAtomicityProbe, runNonConformingProbe, ProbeErrs, ProbeStep,
       ReturnsTo, Broken
  <2> QED BY <1>a, <1>b, <2>1, Names
<1> QED BY <1>3, <1>4, <1>5, <1>6, Zenon

LEMMA BreachProbe ==
    ASSUME CaptureInv, BreachInv, Probe
    PROVE  BreachInv'
<1>a. /\ UNCHANGED <<kind, breaks, phase, snap>> /\ (quiet' => quiet)
      /\ value \in [Fields -> Nat]
  BY ProbeFacts, Zenon DEF CaptureInv
<1>b. erred => erred'
  BY Zenon DEF Probe, runProbes, flowControlProbe, leaseExtendProbe, crossStreamAckProbe,
         runInvalidAckProbe, runAtomicityProbe, runNonConformingProbe, ProbeErrs, ProbeStep
<1>1. inWindow' \subseteq Expectations(kind) \cap (Observed \cup {"flow", "atomicity"})
      /\ (inWindow' # {} => phase \in {"measuring", "capturing"} \cup Captured)
  BY ProbeWindow, Zenon DEF BreachInv
<1>2. ~erred' => \A e \in Observed \cap breaks : value'[Conf[e]] = 0
  BY <1>b, ProbeEvidence, Zenon DEF BreachInv
<1>3. ASSUME phase \in {"measuring", "capturing"}
      PROVE  /\ \A e \in Observed \cap inWindow' : value'[Ran[e]] = 1
             /\ "flow" \in inWindow' \cap breaks =>
                   value'["flowControlViolations"] > 0 \/ probe' = "flow_ran"
             /\ "atomicity" \in inWindow' \cap breaks => value'["batchAtomicityViolations"] > 0
  <2>1. ASSUME NEW e \in Observed \cap inWindow' PROVE value'[Ran[e]] = 1
    <3>1. CASE e \in inWindow
      BY <1>3, <2>1, <3>1, ProbeEvidence, Zenon DEF BreachInv
    <3>2. CASE e \notin inWindow
      <4>1. value' = Mark(Ran[e]) /\ Ran[e] \in Fields
        BY <2>1, <3>2, ProbeWindow, ObservedFields, Zenon
      <4> QED BY <1>a, <4>1, Stored, Zenon
    <3> QED BY <3>1, <3>2, Zenon
  <2>2. ASSUME "flow" \in inWindow' \cap breaks
        PROVE  value'["flowControlViolations"] > 0 \/ probe' = "flow_ran"
    BY <1>3, <2>2, ProbeEvidence, ProbeWindow, Zenon DEF BreachInv, Violations
  <2>3. ASSUME "atomicity" \in inWindow' \cap breaks PROVE value'["batchAtomicityViolations"] > 0
    BY <1>3, <2>3, ProbeEvidence, ProbeWindow, Zenon DEF BreachInv, Violations
  <2> QED BY <2>1, <2>2, <2>3, Zenon
<1>4. phase \in Captured /\ quiet' /\ ~erred' => breaks \cap inWindow' \subseteq FailedGates(snap)
  BY <1>a, <1>b, ProbeWindow, Zenon DEF BreachInv, Captured
<1> QED BY <1>a, <1>1, <1>2, <1>3, <1>4, Zenon DEF BreachInv

LEMMA BreachHandler ==
    ASSUME CaptureInv, BreachInv, NEW m \in Messages, Handler(m)
    PROVE  BreachInv'
<1>a. /\ UNCHANGED <<kind, breaks, phase, snap, probe, erred>> /\ (quiet' => quiet)
      /\ value \in [Fields -> Nat]
  BY HandlerFacts, Zenon DEF CaptureInv
<1> DEFINE E == {"exactlyOnceConfirmed", "confirmationsProbeRan", "exactlyOnceUnreconciled",
                 "batchAtomicityViolations"}
<1>1. \A g \in Fields \ E : value'[g] = value[g]
  <2>1. \A f \in E : \A g \in Fields \ {f} : Increment(f)[g] = value[g] /\ Mark(f)[g] = value[g]
    BY <1>a, Stored, Names
  <2>2. CASE RetrySucceeds(m) \/ RetryFails(m)
    BY <1>a, <2>2, Zenon DEF RetrySucceeds, RetryFails, HandlerStep
  <2>3. CASE handleMessage(m) \/ AckSucceeds(m) \/ AckFails(m) \/ RetryConfirmed(m)
             \/ ProbeMessageDelivered(m)
    BY <2>1, <2>3, Zenon DEF handleMessage, AckSucceeds, AckFails, RetryConfirmed, ProbeMessageDelivered,
                      HandlerStep
  <2> QED BY <2>2, <2>3, Zenon DEF Handler
<1>2. /\ \A e \in Observed : value'[Ran[e]] = value[Ran[e]] /\ value'[Conf[e]] = value[Conf[e]]
      /\ value'["flowControlViolations"] = value["flowControlViolations"]
  <2>1. \A e \in Observed : Ran[e] \notin E /\ Conf[e] \notin E
    BY DEF Observed, Ran, Conf
  <2>2. "flowControlViolations" \in Fields \ E
    BY Names, Zenon
  <2> HIDE DEF E
  <2> QED BY <1>1, <2>1, <2>2, ObservedFields, Zenon
<1>3. \/ /\ inWindow' = inWindow
         /\ value["batchAtomicityViolations"] > 0 => value'["batchAtomicityViolations"] > 0
      \/ /\ kind = "publish_pull_round_trip" /\ value'["batchAtomicityViolations"] > 0
         /\ inWindow' = Tested({"atomicity"})
  <2>1. CASE ProbeMessageDelivered(m)
    BY <1>a, <2>1, Stored, Names DEF ProbeMessageDelivered, HandlerStep
  <2>2. CASE RetrySucceeds(m) \/ RetryFails(m)
    <3>1. value'["batchAtomicityViolations"] = value["batchAtomicityViolations"]
      BY <1>a, <2>2, Names, Zenon DEF RetrySucceeds, RetryFails, HandlerStep
    <3> QED BY <2>2, <3>1, Zenon DEF RetrySucceeds, RetryFails
  <2>3. CASE handleMessage(m) \/ AckSucceeds(m) \/ AckFails(m) \/ RetryConfirmed(m)
    <3>1. \A f \in E \ {"batchAtomicityViolations"} :
             /\ Increment(f)["batchAtomicityViolations"] = value["batchAtomicityViolations"]
             /\ Mark(f)["batchAtomicityViolations"] = value["batchAtomicityViolations"]
      BY <1>a, Stored, Names
    <3>a. \E f \in E \ {"batchAtomicityViolations"} : value' = Increment(f) \/ value' = Mark(f)
      BY <2>3, Zenon DEF handleMessage, AckSucceeds, AckFails, RetryConfirmed, HandlerStep
    <3>2. value'["batchAtomicityViolations"] = value["batchAtomicityViolations"]
      BY <3>1, <3>a
    <3> QED BY <2>3, <3>2, Zenon DEF handleMessage, AckSucceeds, AckFails, RetryConfirmed
  <2> QED BY <2>1, <2>2, <2>3, Zenon DEF Handler
<1>4. CASE /\ inWindow' = inWindow
           /\ value["batchAtomicityViolations"] > 0 => value'["batchAtomicityViolations"] > 0
  BY <1>a, <1>2, <1>4, Zenon DEF BreachInv
<1>5. CASE /\ kind = "publish_pull_round_trip" /\ value'["batchAtomicityViolations"] > 0
           /\ inWindow' = Tested({"atomicity"})
  <2>1. inWindow' \subseteq inWindow \cup {"atomicity"} /\ "atomicity" \in Expectations(kind)
        /\ (inWindow' # inWindow => phase = "measuring")
    BY <1>5, Zenon DEF Tested, Expectations
  <2>2. \A e \in Observed : e # "atomicity"
    BY Zenon DEF Observed
  <2> QED BY <1>a, <1>2, <1>5, <2>1, <2>2, Zenon DEF BreachInv, Captured
<1> QED BY <1>3, <1>4, <1>5, Zenon

LEMMA BreachEngine ==
    ASSUME CaptureInv, BreachInv, Engine
    PROVE  BreachInv'
<1>a. UNCHANGED <<kind, breaks, erred, inWindow>>
  BY Zenon DEF Engine, Warmup, ResetStarts, ResetAfterWarmup, Measure, CaptureStarts,
         captureWorkerSnapshots, CaptureEnds, StopConsumers, computeVerdict, Cancel, ReturnCancelled
<1>b. value \in [Fields -> Nat] /\ kind \in AllKinds /\ \A e \in Observed : Conf[e] \in Fields
  BY ObservedFields, Zenon DEF CaptureInv
<1>1. CASE Warmup \/ ResetStarts \/ ReturnCancelled \/ Measure
  <2>1. UNCHANGED value /\ phase \in {"starting", "warmup", "resetting"} /\ phase' \notin Captured
    BY <1>1, Zenon DEF Warmup, ResetStarts, ReturnCancelled, Measure, Advance, Captured
  <2>2. inWindow = {}
    BY <2>1, Zenon DEF BreachInv, Captured
  <2> QED BY <1>a, <2>1, <2>2, Zenon DEF BreachInv
<1>2. CASE ResetAfterWarmup
  <2>1. value' = [value EXCEPT ![FieldsOf(kind)[field]] = 0] /\ phase = "resetting" /\ phase' = phase
    BY <1>2, Zenon DEF ResetAfterWarmup
  <2>2. inWindow = {} /\ phase' \notin Captured
    BY <2>1, Zenon DEF BreachInv, Captured
  <2>3. \A e \in Observed : value[Conf[e]] = 0 => value'[Conf[e]] = 0
    BY <1>b, <2>1, Zenon
  <2> QED BY <1>a, <2>1, <2>2, <2>3, Zenon DEF BreachInv
<1>3. CASE Cancel \/ CaptureStarts \/ captureWorkerSnapshots
  <2>1. UNCHANGED <<value, probe>> /\ phase' \notin Captured
        /\ (phase' = phase \/ (phase = "measuring" /\ phase' = "capturing"))
    BY <1>3, Zenon DEF Cancel, CaptureStarts, captureWorkerSnapshots, Advance, Captured
  <2> QED BY <1>a, <2>1, Zenon DEF BreachInv
<1>4. CASE CaptureEnds
  <2>1. /\ UNCHANGED <<value, snap, quiet>> /\ phase = "capturing" /\ phase' = "stopping"
        /\ field > Len(FieldsOf(kind))
    BY <1>4, Zenon DEF CaptureEnds, Advance
  <2>2. quiet' /\ ~erred' => breaks \cap inWindow \subseteq FailedGates(snap)
    BY <1>a, <2>1, FoundCapture, Zenon
  <2> QED BY <1>a, <2>1, <2>2, Zenon DEF BreachInv, Captured
<1>5. CASE StopConsumers
  <2>1. /\ UNCHANGED <<snap, quiet>> /\ phase = "stopping" /\ phase' = "judging"
        /\ value' = value \/ value' = Increment(Counters[kind][1])
    BY <1>5, Zenon DEF StopConsumers, Advance
  <2>2. Counters[kind][1] \in Fields /\ \A e \in Observed : Conf[e] # Counters[kind][1]
    <3>1. Counters[kind][1] \in {"flowControlViolations", "exactlyOnceConfirmed",
             "schemaRejectViolations", "batchAtomicityViolations", "deadLetterLost",
             "interopDiverged", "inflightCapLost"}
      BY <1>b, SMTT(15) DEF Counters, AllKinds
    <3>2. Counters[kind][1] \in Fields
      BY <3>1, Names, Zenon
    <3>3. \A e \in Observed : Conf[e] # Counters[kind][1]
      BY <3>1, SMTT(15) DEF Observed, Conf
    <3> QED BY <3>2, <3>3, Zenon
  <2>3. \A e \in Observed : value'[Conf[e]] = value[Conf[e]]
    BY <1>b, <2>1, <2>2, Stored
  <2> QED BY <1>a, <2>1, <2>3, Zenon DEF BreachInv, Captured
<1>6. CASE computeVerdict
  <2>1. /\ UNCHANGED <<value, snap, quiet>> /\ phase = "judging" /\ phase' = "judged"
    BY <1>6, Zenon DEF computeVerdict, Advance
  <2> QED BY <1>a, <2>1, Zenon DEF BreachInv, Captured
<1> QED BY <1>1, <1>2, <1>3, <1>4, <1>5, <1>6, Zenon DEF Engine

LEMMA BreachStutter == BreachInv /\ UNCHANGED vars => BreachInv'
  BY DEF BreachInv, vars, engine

(***************************************************************************)
(* For any number of deliveries, what the connector breaks is among the    *)
(* failed gates when it was put to the test after the reset, by probes     *)
(* that meet no error and rest during the capture (verdict.go, worker.go): *)
(* a broken expectation is never confirmed, and no later step clears a     *)
(* flag the window has set.                                                *)
(***************************************************************************)
THEOREM BreachFound == Spec => []TestedIsJudged
<1> DEFINE I == CaptureInv /\ BreachInv
<1>1. Init => I
  BY CaptureInit, BreachInit, Zenon
<1>2. I /\ [Next]_vars => I'
  <2> SUFFICES ASSUME CaptureInv, BreachInv, [Next]_vars PROVE I'
    BY Zenon
  <2>1. BreachInv'
    BY BreachProbe, BreachHandler, BreachEngine, BreachStutter, Zenon DEF Next, Over
  <2> QED BY <2>1, CaptureStep, Zenon
<1>3. I => TestedIsJudged
  BY Zenon DEF CaptureInv, BreachInv, Captured, TestedIsJudged
<1> QED BY <1>1, <1>2, <1>3, PTL DEF Spec
=============================================================================
