------------------------------ MODULE Verdict ------------------------------
(***************************************************************************)
(* From the counters of a run's channels to its two verdicts.  A run is    *)
(* started with a validated configuration (src/burnin/config,              *)
(* src/burnin/api); captureWorkerSnapshots merges the channels of every    *)
(* worker type and computeVerdict judges the result (src/burnin/engine);   *)
(* RunReport (src/burnin/main.go) reads snapshots, configuration, memory   *)
(* and verdict one by one while another run may be started, judges the     *)
(* snapshots again (src/burnin/report) and reconciles the two verdicts.    *)
(*                                                                         *)
(* Percentages and factors are in tenths; what a channel counts is taken   *)
(* from the few readings that put a gate on either side of its threshold.  *)
(***************************************************************************)
EXTENDS Integers, FiniteSets, FiniteSetsExt

CONSTANTS
    Kinds,          \* the worker types explored
    StartupKinds,   \* those the startup configuration enables
    NumChannels,    \* channels of a worker type
    MaxRuns,        \* bound: runs started
    EnabledSets,    \* bound, per run: the sets of worker types it may enable
    MaxDeviations   \* bound, per run: channels whose reading is not the normal one

AllWorkerNames ==
    {"publish_pull_round_trip", "streaming_pull", "ordering_keys", "exactly_once", "dead_letter",
     "fan_out", "cross_protocol_interop", "nack_redelivery", "filtering", "schema_enforce",
     "seek_snapshot", "inflight_cap"}

ASSUME VerdictAssumption ==
    /\ Kinds \subseteq AllWorkerNames /\ StartupKinds \in (SUBSET Kinds) \ {{}}
    /\ NumChannels \in Nat \ {0} /\ MaxRuns \in Nat
    /\ EnabledSets \in [1 .. MaxRuns -> SUBSET SUBSET Kinds]
    /\ MaxDeviations \in [1 .. MaxRuns -> Nat]

Channels == 1 .. NumChannels
Percentiles == {"p50", "p95", "p99", "p999"}
None == "none"      \* no verdict
NoReport == [of |-> 0]

-----------------------------------------------------------------------------
(* Configuration.                                                          *)

IsLatencyGateExempt(k) ==
    k \in {"dead_letter", "inflight_cap", "seek_snapshot", "publish_pull_round_trip"}

IsDuplicationGateExempt(k) == IsLatencyGateExempt(k) \/ k = "nack_redelivery"

(* The workers without a throughput gate. *)
IsThroughputGateExempt(k) == k \in {"dead_letter", "seek_snapshot", "filtering"}

Duration == 2   \* of the measurement, in seconds

StartupConfig ==
    [enabled |-> StartupKinds, rate |-> 100,
     maxLoss |-> 0, maxDup |-> 1, maxErrors |-> 10, minThroughput |-> 800, maxGrowth |-> 20,
     maxLatency |-> [p \in Percentiles |-> 2]]

Whole == 1000   \* a hundred per cent, in tenths

(* Wrong: a latency threshold of zero is let through. *)
ValidateNoLatency(c) ==
    /\ c.enabled # {} /\ c.rate > 0
    /\ {c.maxLoss, c.maxDup, c.maxErrors} \subseteq 0 .. Whole
    /\ c.minThroughput \in 1 .. Whole
    /\ c.maxGrowth >= 10

Validate(c) ==
    /\ c.enabled # {} /\ c.rate > 0
    /\ {c.maxLoss, c.maxDup, c.maxErrors} \subseteq 0 .. Whole
    /\ \A p \in Percentiles : c.maxLatency[p] > 0
    /\ c.minThroughput \in 1 .. Whole
    /\ c.maxGrowth >= 10

(***************************************************************************)
(* The body of POST /run/start.  A block left out is empty; within a block *)
(* that is given, a field left out is zero.                                *)
(***************************************************************************)
RunConfigs(sets) ==
    [workers : {<<>>} \cup {[enabled |-> w, rate |-> r] :
                   w \in sets, r \in {0, 100}},
     thresholds : {<<>>} \cup
        {[maxLoss |-> l, maxDup |-> 1, maxErrors |-> 10, minThroughput |-> 800, maxGrowth |-> g,
          maxLatency |-> [p \in Percentiles |-> IF p = "p99" THEN m ELSE 2]] :
              l \in {0, 10}, g \in {0, 20}, m \in {0, 2}}]

(* ToInternalConfig: the blocks given replace those of the base. *)
Overlay(base, rc) ==
    [f \in DOMAIN base |-> IF f \in DOMAIN rc.workers THEN rc.workers[f]
                           ELSE IF f \in DOMAIN rc.thresholds THEN rc.thresholds[f] ELSE base[f]]

Accepts(c) == Validate(c)

-----------------------------------------------------------------------------
(* What a channel has counted when it is captured.                         *)

(* The probes that may be marked as run after the warmup reset, with their confirmations. *)
Probes(k) ==
    CASE k = "streaming_pull" -> {"lease_extend", "lease_reject", "cross"}
      [] k = "exactly_once" -> {"confirmations"}
      [] k = "schema_enforce" -> {"schema"}
      [] OTHER -> {}

(* The workers that count violations of their own before the capture, each in one counter. *)
CountsViolations(k) ==
    k \in {"ordering_keys", "exactly_once", "publish_pull_round_trip", "streaming_pull",
           "filtering", "schema_enforce", "seek_snapshot"}

Latency(p50, tail) == [p \in Percentiles |-> IF p = "p50" THEN p50 ELSE tail]

Normal(k) ==
    [sent |-> 200, received |-> 200, lost |-> 0, duplicated |-> 0, corrupted |-> 0, errors |-> 0,
     violations |-> 0, republished |-> IF k = "dead_letter" THEN 1 ELSE 0,
     attempts |-> IF k = "dead_letter" THEN 5 ELSE 0,
     ran |-> Probes(k), confirmed |-> [p \in Probes(k) |-> 1],
     samples |-> 200, latency |-> Latency(1, 2)]

Deviations(k) ==
    {"normal", "idle", "slow_producer", "boundary_loss", "loss", "duplicate", "corrupted",
     "errors", "slow_tail", "few_slow"}
    \cup (IF CountsViolations(k) THEN {"violation"} ELSE {})
    \cup Probes(k)
    \cup (IF k = "dead_letter" THEN {"attempts"} ELSE {})

AllDeviations == UNION {Deviations(k) : k \in AllWorkerNames}

Reading(k, d) ==
    LET n == Normal(k) IN
    CASE d = "normal" -> n
      [] d = "idle" -> [n EXCEPT !.sent = 0, !.received = 0, !.samples = 0,
                                 !.latency = Latency(0, 0), !.republished = 0, !.attempts = 0,
                                 !.ran = {}, !.confirmed = [p \in Probes(k) |-> 0]]
      [] d = "slow_producer" -> [n EXCEPT !.sent = 100, !.received = 100, !.samples = 100]
      [] d = "boundary_loss" -> [n EXCEPT !.lost = 1]
      [] d = "loss" -> [n EXCEPT !.lost = 3]
      [] d = "duplicate" -> [n EXCEPT !.duplicated = 1]
      [] d = "corrupted" -> [n EXCEPT !.corrupted = 1]
      [] d = "errors" -> [n EXCEPT !.errors = 5]
      [] d = "slow_tail" -> [n EXCEPT !.latency = Latency(1, 3)]
      [] d = "few_slow" -> [n EXCEPT !.latency = Latency(3, 3), !.samples = 1]
      [] d = "violation" -> [n EXCEPT !.violations = 1]
      [] d = "attempts" -> [n EXCEPT !.attempts = 0]
      [] d \in Probes(k) -> [n EXCEPT !.confirmed[d] = 0]

-----------------------------------------------------------------------------
(* captureWorkerSnapshots, for one worker type.                            *)

(* A counter added up over the channels, one after the other. *)
Total(f) ==
    LET upTo[n \in 0 .. NumChannels] == IF n = 0 THEN 0 ELSE upTo[n - 1] + f[n]
    IN  upTo[NumChannels]

Added(r, counter) == Total([c \in Channels |-> r[c][counter]])

(* The channel with the most latency samples, the first of them on a tie. *)
MostSamples(r) ==
    CHOOSE c \in Channels :
        \A d \in Channels : r[d].samples < r[c].samples \/ (r[d].samples = r[c].samples /\ c <= d)

(* Wrong: a confirmation missing on one channel ends up missing in the group. *)
LeastConfirmed(k, r) == [p \in Probes(k) |-> Min({r[c].confirmed[p] : c \in Channels})]

Confirmed(k, r) == [p \in Probes(k) |-> Total([c \in Channels |-> r[c].confirmed[p]])]

Snapshot(k, r) ==
    LET lost == Added(r, "lost")
        violations == Added(r, "violations")
    IN  [sent |-> Added(r, "sent"),
         received |-> Added(r, "received"),
         lost |-> IF k = "fan_out" THEN 0 ELSE lost,
         duplicated |-> Added(r, "duplicated"),
         corrupted |-> Added(r, "corrupted"),
         errors |-> Added(r, "errors"),
         violations |-> IF k = "fan_out" THEN violations + lost ELSE violations,
         republished |-> Added(r, "republished"),
         attempts |-> Max({r[c].attempts : c \in Channels}),
         ran |-> UNION {r[c].ran : c \in Channels},
         confirmed |-> Confirmed(k, r),
         samples |-> r[MostSamples(r)].samples,
         latency |-> r[MostSamples(r)].latency]

-----------------------------------------------------------------------------
(* The engine's gates, and the report's.                                   *)

Exceeds(part, whole, limit) == part * 1000 > whole * limit

BoundaryLoss == 5

(* Wrong: a violation is judged as a share of the traffic. *)
PresentShare(s, c) == Exceeds(s.violations, s.sent, 10)

(* A worker type's own violations fail it by their presence. *)
Present(s, c) == s.violations > 0

Gates(k, s, c) ==
    [corruption |-> s.corrupted > 0,
     loss |-> /\ s.sent > 0
              /\ Exceeds(s.lost, s.sent, c.maxLoss) /\ Exceeds(s.lost, s.sent, BoundaryLoss),
     duplication |-> /\ s.received > 0 /\ ~IsDuplicationGateExempt(k)
                     /\ Exceeds(s.duplicated, s.received, c.maxDup),
     latency |-> /\ ~IsLatencyGateExempt(k)
                 /\ \E p \in Percentiles : /\ s.latency[p] > 0 /\ c.maxLatency[p] > 0
                                           /\ s.latency[p] > c.maxLatency[p],
     errors |-> /\ s.sent + s.received > 0
                /\ Exceeds(s.errors, s.sent + s.received, c.maxErrors),
     throughput |-> /\ s.sent > 0 /\ ~IsThroughputGateExempt(k)
                    /\ s.sent * 1000 < c.minThroughput * c.rate * Duration,
     violations |-> Present(s, c),
     attempts |-> k = "dead_letter" /\ s.republished > 0 /\ s.attempts = 0]

(* A probe that ran and was never confirmed is a gate of its own. *)
Unconfirmed(s) == {p \in s.ran : s.confirmed[p] = 0}

Failures(k, s, c) == {g \in DOMAIN Gates(k, s, c) : Gates(k, s, c)[g]} \cup Unconfirmed(s)

MemoryGrown(m, c) == m.baseline > 0 /\ m.peak > m.baseline /\ m.peak * 10 > m.baseline * c.maxGrowth

(* The snapshots are a set of pairs of a worker type and its snapshot. *)
EngineVerdict(ss, m, c) ==
    LET failed == \E s \in ss : Failures(s.kind, s.snap, c) # {}
    IN  IF failed THEN "FAILED"
        ELSE IF MemoryGrown(m, c) THEN "PASSED_WITH_WARNINGS" ELSE "PASSED"

lossGateThreshold(base) == Max({base, BoundaryLoss})

(* The workers whose own violations the report judges too. *)
ReportsViolations(k) ==
    k \in {"ordering_keys", "exactly_once", "dead_letter", "fan_out", "cross_protocol_interop"}

(* The checks of the report that a worker type fails, and the warnings it gets. *)
addHard(k, s, c) ==
    \/ /\ s.sent > 0 /\ k # "fan_out"
       /\ Exceeds(s.lost, s.sent, lossGateThreshold(c.maxLoss))
    \/ /\ s.received > 0 /\ ~IsDuplicationGateExempt(k)
       /\ Exceeds(s.duplicated, s.received, c.maxDup)
    \/ /\ s.latency["p99"] > 0 /\ ~IsLatencyGateExempt(k)
       /\ s.latency["p99"] > c.maxLatency["p99"]
    \/ s.sent + s.received > 0 /\ Exceeds(s.errors, s.sent + s.received, c.maxErrors)
    \/ ReportsViolations(k) /\ s.violations > 0
    \/ s.corrupted > 0

Warned(k, s, c) ==
    \/ /\ s.received > 0 /\ IsDuplicationGateExempt(k)
       /\ Exceeds(s.duplicated, s.received, c.maxDup)
    \/ s.latency["p99"] > c.maxLatency["p99"] /\ IsLatencyGateExempt(k)

GenerateVerdict(ss, m, c) ==
    IF \E s \in ss : addHard(s.kind, s.snap, c) THEN "FAILED"
    ELSE IF \/ \E s \in ss : Warned(s.kind, s.snap, c)
            \/ m.baseline > 0 /\ m.peak * 10 > m.baseline * c.maxGrowth
         THEN "PASSED_WITH_WARNINGS"
    ELSE "PASSED"

(* The engine's verdict is authoritative, when there is one. *)
Reconcile(own, ev) ==
    CASE ev = "FAILED" -> "FAILED"
      [] ev = "PASSED_WITH_WARNINGS" /\ own = "PASSED" -> "PASSED_WITH_WARNINGS"
      [] OTHER -> own

-----------------------------------------------------------------------------
VARIABLES
    phase,      \* where the engine is: idle, running, captured or stopped
    runs,       \* runs started
    runCfg,     \* e.runCfg
    snaps,      \* e.workerSnapshots, empty when nil
    memory,     \* e.baselineRSS and e.peakRSS
    verdict,    \* e.verdictResult, None when nil
    rep,        \* the RunReport in progress: what it has read, and what it reads next
    report,     \* the last RunReport
    \* History, read by no action:
    captured,   \* per enabled worker type: the readings of its channels
    outcome     \* per run: the verdict the engine gave it

engine == <<phase, runs, runCfg, snaps, memory, verdict>>
vars == <<engine, rep, report, captured, outcome>>

NoMemory == [baseline |-> 0, peak |-> 0]
Idle == [at |-> "snapshots"]

Init ==
    /\ phase = "idle" /\ runs = 0 /\ runCfg = StartupConfig
    /\ snaps = {} /\ memory = NoMemory /\ verdict = None
    /\ rep = Idle /\ report = NoReport
    /\ captured = <<>> /\ outcome = [r \in 1 .. MaxRuns |-> None]

(* StartRun of the adapter: an overlay of the startup configuration, refused when invalid. *)
StartRun(rc) ==
    LET c == Overlay(StartupConfig, rc) IN
    /\ phase \in {"idle", "stopped"}
    /\ Accepts(c)
    /\ phase' = "running" /\ runs' = runs + 1 /\ runCfg' = c
    /\ snaps' = {} /\ memory' = NoMemory /\ verdict' = None
    /\ captured' = <<>>
    /\ UNCHANGED <<rep, report, outcome>>

(* The run is cancelled or fails before its producers have been measured. *)
RunEndsEarly ==
    /\ phase = "running"
    /\ phase' = "stopped"
    /\ UNCHANGED <<runs, runCfg, snaps, memory, verdict, rep, report, captured, outcome>>

(* memoryTracker keeps the peak at or above the baseline. *)
Memories == {[baseline |-> 10, peak |-> 10], [baseline |-> 10, peak |-> 30]}

captureWorkerSnapshots ==
    /\ phase = "running"
    /\ \E m \in Memories : memory' = m
    /\ \E D \in UNION {kSubset(n, runCfg.enabled \X Channels) : n \in 0 .. MaxDeviations[runs]} :
          \E d \in [D -> AllDeviations \ {"normal"}] :
             /\ \A x \in D : d[x] \in Deviations(x[1])
             /\ captured' = [k \in runCfg.enabled |->
                   [c \in Channels |->
                       Reading(k, IF <<k, c>> \in D THEN d[<<k, c>>] ELSE "normal")]]
    /\ snaps' = {[kind |-> k, snap |-> Snapshot(k, captured'[k])] : k \in runCfg.enabled}
    /\ phase' = "captured"
    /\ UNCHANGED <<runs, runCfg, verdict, rep, report, outcome>>

computeVerdict ==
    /\ phase = "captured"
    /\ verdict' = EngineVerdict(snaps, memory, runCfg)
    /\ outcome' = [outcome EXCEPT ![runs] = verdict']
    /\ phase' = "stopped"
    /\ UNCHANGED <<runs, runCfg, snaps, memory, rep, report, captured>>

(***************************************************************************)
(* RunReport, for GET /run/report or at the end of main: each accessor     *)
(* takes the engine's lock for itself.  "read" collects the runs read      *)
(* from.                                                                   *)
(***************************************************************************)
ReadSnapshots ==
    /\ rep = Idle /\ report = NoReport   \* bound: one report is followed
    /\ snaps # {}
    /\ rep' = [at |-> "config", snaps |-> snaps, of |-> runs, read |-> {runs}]
    /\ UNCHANGED <<engine, report, captured, outcome>>

ReadConfig ==
    /\ rep.at = "config"
    /\ rep' = [at |-> "memory", snaps |-> {s \in rep.snaps : s.kind \in runCfg.enabled},
               cfg |-> runCfg, of |-> rep.of, read |-> rep.read \cup {runs}]
    /\ UNCHANGED <<engine, report, captured, outcome>>

ReadMemory ==
    /\ rep.at = "memory"
    /\ rep' = [at |-> "verdict", own |-> GenerateVerdict(rep.snaps, memory, rep.cfg),
               of |-> rep.of, read |-> rep.read \cup {runs}]
    /\ UNCHANGED <<engine, report, captured, outcome>>

ReadVerdict ==
    /\ rep.at = "verdict"
    /\ report' = [result |-> Reconcile(rep.own, verdict), own |-> rep.own, seen |-> verdict,
                  of |-> rep.of, read |-> rep.read \cup {runs}]
    /\ rep' = Idle
    /\ UNCHANGED <<engine, captured, outcome>>

RunReport == ReadSnapshots \/ ReadConfig \/ ReadMemory \/ ReadVerdict

Next ==
    \/ runs < MaxRuns /\ \E rc \in RunConfigs(EnabledSets[runs + 1]) : StartRun(rc)
    \/ RunEndsEarly \/ captureWorkerSnapshots \/ computeVerdict
    \/ RunReport

Spec == Init /\ [][Next]_vars

-----------------------------------------------------------------------------
Results == {"PASSED", "PASSED_WITH_WARNINGS", "FAILED"}

(* Type correctness; a report is never put together from no snapshots. *)
TypeOK ==
    /\ phase \in {"idle", "running", "captured", "stopped"}
    /\ runs \in 0 .. MaxRuns
    /\ Validate(runCfg)
    /\ verdict \in Results \cup {None}
    /\ rep.at \in {"snapshots", "config", "memory", "verdict"}
    /\ report # NoReport => report.result \in Results
    /\ phase = "captured" => snaps # {} /\ DOMAIN captured = runCfg.enabled

(* What a channel would fail if it were the only one of its worker type. *)
FailuresAlone(k, c) ==
    LET r == captured[k][c]
    IN  Failures(k, [r EXCEPT !.lost = IF k = "fan_out" THEN 0 ELSE @,
                              !.violations = IF k = "fan_out" THEN @ + r.lost ELSE @], runCfg)

GroupFailures(k) == UNION {Failures(k, s.snap, runCfg) : s \in {t \in snaps : t.kind = k}}

(***************************************************************************)
(* No gate fails a worker type that none of its channels fails alone:      *)
(* adding up counters and percentages of the channels invents no failure.  *)
(***************************************************************************)
FailureHasCause ==
    phase = "captured" =>
        \A k \in DOMAIN captured :
            GroupFailures(k) \subseteq UNION {FailuresAlone(k, c) : c \in Channels}

(***************************************************************************)
(* A violation on one channel of one worker type fails the run, however    *)
(* well the other channels and workers do; and so does a gate that every   *)
(* channel of a worker type fails.  Throughput is left out: the target is  *)
(* the rate of one channel and the messages sent are those of all.         *)
(***************************************************************************)
NothingMasked ==
    verdict \in {"PASSED", "PASSED_WITH_WARNINGS"} =>
        \A k \in DOMAIN captured :
            /\ \A c \in Channels : FailuresAlone(k, c) \cap {"corruption", "violations"} = {}
            /\ \A g \in (DOMAIN Gates(k, Normal(k), runCfg) \ {"throughput"}) \cup Probes(k) :
                  \E c \in Channels : g \notin FailuresAlone(k, c)

(***************************************************************************)
(* A report put together within one run after its verdict says what the    *)
(* exit code says: the report fails on no ground of its own ("mirrors the  *)
(* engine verdict", report.go:94), which takes a validated configuration,  *)
(* and passes no run the engine failed.                                    *)
(***************************************************************************)
ReportAgrees ==
    report # NoReport /\ report.seen # None /\ report.read = {report.of} =>
        /\ report.own = "FAILED" => outcome[report.of] = "FAILED"
        /\ report.result = "FAILED" <=> outcome[report.of] = "FAILED"
        /\ outcome[report.of] = "PASSED_WITH_WARNINGS" => report.result = "PASSED_WITH_WARNINGS"

(***************************************************************************)
(* What main.go:270 says: the engine's verdict is authoritative, so no     *)
(* report passes a run that the engine failed.                             *)
(***************************************************************************)
EngineAuthoritative ==
    report # NoReport /\ outcome[report.of] = "FAILED" => report.result = "FAILED"
=============================================================================
