---------------------------- MODULE Measurement ----------------------------
(***************************************************************************)
(* How a worker's evidence reaches the verdict.  One worker runs from      *)
(* Start to computeVerdict; its one-shot probes, its message handlers and  *)
(* its final reconciliation record evidence in counters and probe-ran      *)
(* flags (src/burnin/worker), which ResetAfterWarmup clears and            *)
(* captureWorkerSnapshots reads one by one while probes and handlers run,  *)
(* and which the gates of computeVerdict judge (src/burnin/engine).        *)
(***************************************************************************)
EXTENDS Integers, FiniteSets, Sequences

CONSTANTS
    Kinds,      \* the worker types explored
    Messages    \* bound: deliveries whose handling is followed

AllKinds == {"streaming_pull", "exactly_once", "schema_enforce", "publish_pull_round_trip",
             "dead_letter", "cross_protocol_interop", "inflight_cap"}

ASSUME MeasurementAssumption ==
    /\ Kinds \subseteq AllKinds
    /\ IsFiniteSet(Messages)

(* The counters and flags of BaseWorker that a type's gates read, in the order *)
(* in which ResetAfterWarmup stores them and captureWorkerSnapshots loads them. *)
Counters ==
    [streaming_pull |-> <<"flowControlViolations", "leaseExtendConfirmed",
                          "leaseExtendRejectConfirmed", "crossStreamAckConfirmed">>,
     exactly_once |-> <<"exactlyOnceConfirmed", "exactlyOnceUnreconciled",
                        "exactlyOnceInvalidAckConfirmed">>,
     schema_enforce |-> <<"schemaRejectViolations", "schemaEnforceConfirmed">>,
     publish_pull_round_trip |-> <<"batchAtomicityViolations">>,
     dead_letter |-> <<"deadLetterLost">>,
     cross_protocol_interop |-> <<"interopDiverged">>,
     inflight_cap |-> <<"inflightCapLost">>]

Flags ==
    [k \in AllKinds |->
        CASE k = "streaming_pull" -> <<"flowControlProbeRan", "crossStreamAckProbeRan",
                                       "leaseExtendProbeRan">>
          [] k = "exactly_once" -> <<"invalidAckProbeRan", "confirmationsProbeRan">>
          [] k = "schema_enforce" -> <<"schemaEnforceProbeRan">>
          [] OTHER -> <<>>]

(* Wrong: the flags come before the counters. *)
FlagsFirst(k) == Flags[k] \o Counters[k]

FieldsOf(k) == Counters[k] \o Flags[k]

Fields == UNION {{FieldsOf(k)[i] : i \in 1 .. Len(FieldsOf(k))} : k \in AllKinds}

(* What the connector may or may not honour, by the type that looks at it. *)
Expectations(k) ==
    CASE k = "streaming_pull" -> {"flow", "lease_reject", "lease_extend", "cross"}
      [] k = "exactly_once" -> {"invalid_ack"}
      [] k = "schema_enforce" -> {"schema"}
      [] k = "publish_pull_round_trip" -> {"atomicity"}
      [] OTHER -> {"delivery"}

(* Where the one-shot probes are: about to run one, in the middle of one, over, or switched off. *)
Unopened == {"flow", "lease", "cross", "invalid_ack", "schema", "atomicity", "over", "off"}
ProbeLabels == Unopened \cup {"flow_ran", "lease_ran", "lease_extending", "cross_ran",
                              "invalid_ack_ran", "schema_ran"}

Phases == {"starting", "warmup", "resetting", "measuring", "capturing", "stopping", "judging",
           "judged", "ended"}
Handling == {"none", "marked", "failed", "reconciled", "done", "refused"}

VARIABLES
    kind,       \* the worker's type
    breaks,     \* the expectations the connector does not meet
    phase,      \* where the engine is with this worker
    field,      \* the field the reset or the capture is at
    cancelled,  \* the run's context is cancelled
    value,      \* the counters, and the flags as 0 and 1
    snap,       \* the WorkerSnapshot
    probe,      \* where the probes are
    handling,   \* per message: where its handler is
    failed,     \* the gates the verdict failed
    \* History, read by no action:
    erred,      \* a probe met a transport error or was cancelled
    inWindow,   \* the expectations put to the test after the reset
    quiet,      \* no probe or handler was at work during the capture
    owed        \* messages whose failed ack was counted since the reset and not taken back

engine == <<phase, field, cancelled, snap, failed>>
vars == <<kind, breaks, engine, value, probe, handling, erred, inWindow, quiet, owed>>

FirstProbe(k) ==
    CASE k = "streaming_pull" -> "flow"
      [] k = "exactly_once" -> "invalid_ack"
      [] k = "schema_enforce" -> "schema"
      [] k = "publish_pull_round_trip" -> "atomicity"
      [] OTHER -> "over"

Init ==
    /\ kind \in Kinds
    /\ breaks \in SUBSET Expectations(kind)
    /\ phase = "starting" /\ field = 1 /\ cancelled = FALSE
    /\ value = [f \in Fields |-> 0]
    /\ snap = [f \in Fields |-> 0]
    /\ \/ probe = FirstProbe(kind)
       \/ kind \in {"exactly_once", "publish_pull_round_trip"} /\ probe = "off"
    /\ handling = [m \in Messages |-> "none"]
    /\ failed = {}
    /\ erred = FALSE /\ inWindow = {} /\ quiet = TRUE /\ owed = {}

Increment(f) == [value EXCEPT ![f] = @ + 1]
Mark(f) == [value EXCEPT ![f] = 1]
Honoured(e, f) == IF e \in breaks THEN value ELSE Increment(f)
Broken(e, f) == IF e \in breaks THEN Increment(f) ELSE value

-----------------------------------------------------------------------------
(* The probes.                                                             *)

Tested(es) == IF phase = "measuring" THEN inWindow \cup es ELSE inWindow

(* A step of the probes, at any time their goroutine runs. *)
ProbeStep(from, to, v, es) ==
    /\ probe = from
    /\ probe' = to
    /\ value' = v
    /\ inWindow' = Tested(es)
    /\ quiet' = (quiet /\ phase # "capturing")
    /\ UNCHANGED <<kind, breaks, engine, handling, erred, owed>>

(* runProbes of streaming_pull: a goroutine of its own, one probe after the other. *)
flowControlProbe ==
    \/ ProbeStep("flow", "flow_ran", Mark("flowControlProbeRan"), {"flow"})
    \/ ProbeStep("flow_ran", "lease", Broken("flow", "flowControlViolations"), {})

leaseExtendProbe ==
    \/ ProbeStep("lease", "lease_ran", Mark("leaseExtendProbeRan"), {"lease_reject", "lease_extend"})
    \/ ProbeStep("lease_ran", "lease_extending",
                 Honoured("lease_reject", "leaseExtendRejectConfirmed"), {})
    \/ ProbeStep("lease_extending", "cross", Honoured("lease_extend", "leaseExtendConfirmed"), {})

crossStreamAckProbe ==
    \/ ProbeStep("cross", "cross_ran", Mark("crossStreamAckProbeRan"), {"cross"})
    \/ ProbeStep("cross_ran", "over", Honoured("cross", "crossStreamAckConfirmed"), {})

(* exactly_once and publish_pull_round_trip probe in Start; schema_enforce in StartProducers. *)
runInvalidAckProbe ==
    /\ phase = "starting"
    /\ \/ ProbeStep("invalid_ack", "invalid_ack_ran", Mark("invalidAckProbeRan"), {"invalid_ack"})
       \/ ProbeStep("invalid_ack_ran", "over",
                    Honoured("invalid_ack", "exactlyOnceInvalidAckConfirmed"), {})

(* A broken batch is accepted, or rejected although a part of it is enqueued. *)
runAtomicityProbe ==
    /\ phase = "starting"
    /\ \E v \in {value, Broken("atomicity", "batchAtomicityViolations")} :
          ProbeStep("atomicity", "over", v, {"atomicity"})

runNonConformingProbe ==
    /\ phase \in {"warmup", "measuring"}
    /\ \/ ProbeStep("schema", "schema_ran", Mark("schemaEnforceProbeRan"), {"schema"})
       \/ ProbeStep("schema_ran", "over",
                    IF "schema" \in breaks THEN Increment("schemaRejectViolations")
                                           ELSE Increment("schemaEnforceConfirmed"), {})

(***************************************************************************)
(* An RPC of a probe fails, or its context is cancelled.  Before the probe *)
(* is marked it is skipped; after, it returns without its confirmation,    *)
(* except that a failed last Pull passes for a message not redelivered.    *)
(* An atomicity probe that is not rejected as invalid counts a violation.  *)
(***************************************************************************)
ReturnsTo ==
    [flow |-> "lease", lease |-> "cross", lease_ran |-> "lease_extending",
     lease_extending |-> "cross", cross |-> "over", cross_ran |-> "over",
     invalid_ack |-> "over", invalid_ack_ran |-> "over", schema_ran |-> "over",
     atomicity |-> "over"]

ProbeErrs ==
    /\ probe \in DOMAIN ReturnsTo
    /\ probe' = ReturnsTo[probe]
    /\ \/ probe # "atomicity" /\ value' = value
       \/ probe = "atomicity" /\ value' = Increment("batchAtomicityViolations")
       \/ probe = "lease_extending" /\ value' = Increment("leaseExtendConfirmed")
       \/ probe = "cross_ran" /\ value' = Increment("crossStreamAckConfirmed")
    /\ erred' = TRUE
    /\ quiet' = (quiet /\ phase # "capturing")
    /\ UNCHANGED <<kind, breaks, engine, handling, inWindow, owed>>

(* A probe of streaming_pull is switched off. *)
runProbes ==
    \/ ProbeStep("flow", "lease", value, {})
    \/ ProbeStep("lease", "cross", value, {})
    \/ ProbeStep("cross", "over", value, {})

Probe == runProbes \/ flowControlProbe \/ leaseExtendProbe \/ crossStreamAckProbe \/ runInvalidAckProbe
         \/ runAtomicityProbe \/ runNonConformingProbe \/ ProbeErrs

-----------------------------------------------------------------------------
(* The message handlers of exactly_once and publish_pull_round_trip.       *)

Receiving == phase \in {"starting", "warmup", "resetting", "measuring", "capturing", "stopping"}

(* A step of m's handler, in a callback goroutine of its own. *)
HandlerStep(m, from, to, v) ==
    /\ Receiving
    /\ handling[m] = from
    /\ handling' = [handling EXCEPT ![m] = to]
    /\ value' = v
    /\ quiet' = (quiet /\ phase # "capturing")
    /\ UNCHANGED <<kind, breaks, engine, probe, erred>>

handleMessage(m) ==
    /\ kind = "exactly_once"
    /\ probe \in {"over", "off"}
    /\ HandlerStep(m, "none", "marked", Mark("confirmationsProbeRan"))
    /\ UNCHANGED <<inWindow, owed>>

(* ackWithReconciliation: an ack, and one retry. *)
AckSucceeds(m) ==
    /\ HandlerStep(m, "marked", "done", Increment("exactlyOnceConfirmed"))
    /\ UNCHANGED <<inWindow, owed>>

AckFails(m) ==
    /\ HandlerStep(m, "marked", "failed", Increment("exactlyOnceUnreconciled"))
    /\ owed' = owed \cup {m}
    /\ UNCHANGED inWindow

(* Wrong: reconcileExactlyOnce does not look for zero. *)
ReconciledBelowZero(n) == n - 1

Reconciled(n) == IF n = 0 THEN 0 ELSE n - 1

RetrySucceeds(m) ==
    /\ HandlerStep(m, "failed", "reconciled",
                   [value EXCEPT !["exactlyOnceUnreconciled"] = Reconciled(@)])
    /\ owed' = owed \ {m}
    /\ UNCHANGED inWindow

RetryConfirmed(m) ==
    /\ HandlerStep(m, "reconciled", "done", Increment("exactlyOnceConfirmed"))
    /\ UNCHANGED <<inWindow, owed>>

RetryFails(m) ==
    /\ HandlerStep(m, "failed", "refused", value)
    /\ UNCHANGED <<inWindow, owed>>

(* A message of the probe's batch is delivered although the batch was invalid. *)
ProbeMessageDelivered(m) ==
    /\ kind = "publish_pull_round_trip"
    /\ "atomicity" \in breaks
    /\ probe # "off"
    /\ HandlerStep(m, "none", "done", Increment("batchAtomicityViolations"))
    /\ inWindow' = Tested({"atomicity"})
    /\ UNCHANGED owed

Handler(m) == handleMessage(m) \/ AckSucceeds(m) \/ AckFails(m) \/ RetrySucceeds(m)
              \/ RetryConfirmed(m) \/ RetryFails(m) \/ ProbeMessageDelivered(m)

-----------------------------------------------------------------------------
(* The engine.                                                             *)

Idle == probe \in Unopened /\ \A m \in Messages : handling[m] \in {"none", "done", "refused"}

Advance(from, to) ==
    /\ phase = from
    /\ phase' = to
    /\ field' = 1

(* Start has returned and the receivers are ready: the warmup starts the producers. *)
Warmup ==
    /\ kind \in {"exactly_once", "publish_pull_round_trip"} => probe \in {"over", "off"}
    /\ ~cancelled
    /\ Advance("starting", "warmup")
    /\ UNCHANGED <<kind, breaks, cancelled, value, snap, probe, handling, failed, erred, inWindow,
                   quiet, owed>>

(* StartProducers of schema_enforce returns when its probe has. *)
ProducersStarted == kind = "schema_enforce" => probe = "over"

ResetStarts ==
    /\ ProducersStarted
    /\ Advance("warmup", "resetting")
    /\ UNCHANGED <<kind, breaks, cancelled, value, snap, probe, handling, failed, erred, inWindow,
                   quiet, owed>>

(* ResetAfterWarmup stores zero in one field after the other. *)
ResetAfterWarmup ==
    /\ phase = "resetting"
    /\ field <= Len(FieldsOf(kind))
    /\ value' = [value EXCEPT ![FieldsOf(kind)[field]] = 0]
    /\ owed' = IF FieldsOf(kind)[field] = "exactlyOnceUnreconciled" THEN {} ELSE owed
    /\ field' = field + 1
    /\ UNCHANGED <<kind, breaks, phase, cancelled, snap, probe, handling, failed, erred, inWindow,
                   quiet>>

(* Wrong: the probe of schema_enforce is not run again. *)
NoProbeAtStart(k) == probe

ProbeAtStart(k) == IF k = "schema_enforce" THEN "schema" ELSE probe

Measure ==
    /\ field > Len(FieldsOf(kind))
    /\ ~cancelled
    /\ Advance("resetting", "measuring")
    /\ probe' = ProbeAtStart(kind)
    /\ UNCHANGED <<kind, breaks, cancelled, value, snap, handling, failed, erred, inWindow, quiet,
                   owed>>

(* The duration is over or the run is cancelled; the producers are stopped and drained. *)
CaptureStarts ==
    /\ ProducersStarted
    /\ Advance("measuring", "capturing")
    /\ quiet' = Idle
    /\ UNCHANGED <<kind, breaks, cancelled, value, snap, probe, handling, failed, erred, inWindow,
                   owed>>

(* captureWorkerSnapshots loads one field after the other. *)
captureWorkerSnapshots ==
    /\ phase = "capturing"
    /\ field <= Len(FieldsOf(kind))
    /\ snap' = [snap EXCEPT ![FieldsOf(kind)[field]] = value[FieldsOf(kind)[field]]]
    /\ field' = field + 1
    /\ UNCHANGED <<kind, breaks, phase, cancelled, value, probe, handling, failed, erred, inWindow,
                   quiet, owed>>

CaptureEnds ==
    /\ field > Len(FieldsOf(kind))
    /\ Advance("capturing", "stopping")
    /\ UNCHANGED <<kind, breaks, cancelled, value, snap, probe, handling, failed, erred, inWindow,
                   quiet, owed>>

(* StopConsumers of dead_letter, cross_protocol_interop and inflight_cap reconciles its loss. *)
StopConsumers ==
    /\ Advance("stopping", "judging")
    /\ value' = IF "delivery" \in breaks THEN Increment(Counters[kind][1]) ELSE value
    /\ UNCHANGED <<kind, breaks, cancelled, snap, probe, handling, failed, erred, inWindow, quiet,
                   owed>>

(* Wrong: one violation is let through. *)
PresentTwice(n) == n > 1

(* The two forms of a gate: a violation is present; a probe ran and was never confirmed. *)
Present(n) == n > 0
NeverObserved(ran, n) == ran = 1 /\ n = 0

FailedGates(s) ==
    {g \in {"flow", "schema", "atomicity", "delivery", "unreconciled"} :
        CASE g = "flow" -> Present(s.flowControlViolations)
          [] g = "schema" -> Present(s.schemaRejectViolations)
          [] g = "atomicity" -> Present(s.batchAtomicityViolations)
          [] g = "delivery" -> \/ Present(s.deadLetterLost)
                               \/ Present(s.interopDiverged)
                               \/ Present(s.inflightCapLost)
          [] g = "unreconciled" -> Present(s.exactlyOnceUnreconciled)}
    \cup
    {g \in {"lease_reject", "lease_extend", "cross", "schema", "invalid_ack", "confirmations"} :
        CASE g = "lease_reject" -> NeverObserved(s.leaseExtendProbeRan, s.leaseExtendRejectConfirmed)
          [] g = "lease_extend" -> NeverObserved(s.leaseExtendProbeRan, s.leaseExtendConfirmed)
          [] g = "cross" -> NeverObserved(s.crossStreamAckProbeRan, s.crossStreamAckConfirmed)
          [] g = "schema" -> NeverObserved(s.schemaEnforceProbeRan, s.schemaEnforceConfirmed)
          [] g = "invalid_ack" -> NeverObserved(s.invalidAckProbeRan,
                                                s.exactlyOnceInvalidAckConfirmed)
          [] g = "confirmations" -> NeverObserved(s.confirmationsProbeRan, s.exactlyOnceConfirmed)}

computeVerdict ==
    /\ Advance("judging", "judged")
    /\ failed' = FailedGates(snap)
    /\ UNCHANGED <<kind, breaks, cancelled, value, snap, probe, handling, erred, inWindow, quiet,
                   owed>>

(* StopRun or GracefulShutdown; before the measurement a cancelled run just returns. *)
Cancel ==
    /\ phase \in {"starting", "warmup", "resetting", "measuring"}
    /\ cancelled' = TRUE
    /\ UNCHANGED <<kind, breaks, phase, field, value, snap, probe, handling, failed, erred,
                   inWindow, quiet, owed>>

ReturnCancelled ==
    /\ cancelled
    /\ \/ phase = "starting"
       \/ phase = "warmup" /\ ProducersStarted
       \/ phase = "resetting" /\ field > Len(FieldsOf(kind))
    /\ phase' = "ended"
    /\ UNCHANGED <<kind, breaks, field, cancelled, value, snap, probe, handling, failed, erred,
                   inWindow, quiet, owed>>

Engine == Warmup \/ ResetStarts \/ ResetAfterWarmup \/ Measure \/ CaptureStarts
          \/ captureWorkerSnapshots \/ CaptureEnds \/ StopConsumers \/ computeVerdict
          \/ Cancel \/ ReturnCancelled

Over == phase \in {"judged", "ended"} /\ UNCHANGED vars

Next == Probe \/ (\E m \in Messages : Handler(m)) \/ Engine \/ Over

Spec == Init /\ [][Next]_vars

-----------------------------------------------------------------------------
(* Type correctness: counters are never negative, flags are 0 or 1. *)
TypeOK ==
    /\ kind \in Kinds
    /\ breaks \subseteq Expectations(kind)
    /\ phase \in Phases
    /\ field \in 1 .. (Len(FieldsOf(kind)) + 1)
    /\ cancelled \in BOOLEAN
    /\ value \in [Fields -> Nat]
    /\ snap \in [Fields -> Nat]
    /\ probe \in ProbeLabels
    /\ handling \in [Messages -> Handling]
    /\ failed \subseteq Expectations(kind) \cup {"unreconciled", "confirmations"}
    /\ erred \in BOOLEAN /\ quiet \in BOOLEAN
    /\ inWindow \subseteq Expectations(kind)
    /\ owed \subseteq Messages

(***************************************************************************)
(* A verdict fails no gate of a connector that honours everything, however *)
(* the probes and handlers straddle the reset: they mark before they       *)
(* confirm, and the reset clears the counters before the flags.  It takes  *)
(* probes that meet no transport error and rest while the snapshot is      *)
(* captured.                                                               *)
(***************************************************************************)
NoFalseFailure ==
    phase = "judged" /\ quiet /\ ~erred /\ breaks = {}
        /\ (\A m \in Messages : handling[m] # "refused")
    => failed = {}

(***************************************************************************)
(* What the connector breaks is found when it is put to the test after the *)
(* reset, by probes that meet no error and rest during the capture.        *)
(***************************************************************************)
TestedIsJudged ==
    phase = "judged" /\ quiet /\ ~erred => breaks \cap inWindow \subseteq failed

(***************************************************************************)
(* Every verdict on schema_enforce judges a probe of the measurement       *)
(* window, as its StartProducers intends.                                  *)
(***************************************************************************)
SchemaAlwaysJudged ==
    kind = "schema_enforce" /\ phase = "judged"
    => "schema" \in inWindow /\ snap.schemaEnforceProbeRan = 1

(***************************************************************************)
(* exactlyOnceUnreconciled never counts more than the failed acks still    *)
(* owed, nor wraps below zero: a retry that succeeds takes its failure     *)
(* back, whatever resets and other retries come between (worker.go:378).   *)
(***************************************************************************)
UnreconciledNotOvercounted ==
    value["exactlyOnceUnreconciled"] \in 0 .. Cardinality(owed)

(***************************************************************************)
(* What worker.go:378 says: the surviving unreconciled count is the        *)
(* genuine failure, so no failed ack still owed is missing from it.        *)
(***************************************************************************)
UnreconciledNotHidden ==
    Cardinality(owed) <= value["exactlyOnceUnreconciled"]

(***************************************************************************)
(* What exactly_once.go:156 says: the verdict hard-fails when the invalid- *)
(* ack probe ran without seeing the expected status.                       *)
(***************************************************************************)
InvalidAckJudged ==
    phase = "judged" /\ ~erred /\ probe = "over" /\ "invalid_ack" \in breaks
    => "invalid_ack" \in failed

(***************************************************************************)
(* What dead_letter.go:44 says: the verdict gate is no dead-letter loss.   *)
(***************************************************************************)
DeadLetterLossJudged ==
    phase = "judged" /\ value["deadLetterLost"] > 0 => "delivery" \in failed

(***************************************************************************)
(* What streaming_pull.go:244 says: a probe that errors is skipped and     *)
(* cannot fail the verdict of a connector that honours everything.         *)
(***************************************************************************)
ErrorCannotFail ==
    phase = "judged" /\ quiet /\ kind = "streaming_pull" /\ breaks = {} => failed = {}
=============================================================================
