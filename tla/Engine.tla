------------------------------- MODULE Engine -------------------------------
(***************************************************************************)
(* The run lifecycle of the burn-in harness: the engine's state machine    *)
(* and runLoop goroutine (src/burnin/engine/engine.go), the control API    *)
(* that starts and stops runs and serves reports (src/burnin/server), and  *)
(* the main goroutine that shuts the engine down and chooses the exit code *)
(* (src/burnin/main.go).                                                   *)
(*                                                                         *)
(* Fields of Engine guarded by e.mu are read and written in one action per *)
(* critical section.  Workers appear only as "their receivers run" and     *)
(* "their producers run"; what they count is the subject of other modules. *)
(***************************************************************************)
EXTENDS Integers, FiniteSets

CONSTANTS
    NumGroups,    \* enabled worker types, in the order of config.AllWorkerNames
    MaxRuns,      \* bound: runs started in the life of the process
    HastyClient   \* may a run be started at any moment the engine accepts it?

ASSUME EngineAssumption ==
    /\ NumGroups \in Nat \ {0}
    /\ MaxRuns \in Nat \ {0}
    /\ HastyClient \in BOOLEAN
    \* After a hasty restart two run loops can be live; a third is not explored.
    /\ HastyClient => MaxRuns <= 2

Groups == 1 .. NumGroups
Runs == 1 .. MaxRuns

States == {"idle", "starting", "running", "stopping", "stopped", "error"}
Verdicts == {"PASSED", "PASSED_WITH_WARNINGS", "FAILED"}

(* Where a runLoop goroutine is. *)
Labels == {"none", "consumers", "ready", "warming", "settling", "warm", "producing",
           "running", "halting", "stopping", "draining", "drained", "captured",
           "judging", "ending", "closing", "done"}

(* Where the main goroutine is. *)
MainLabels == {"init", "waiting", "reading", "cancelling", "blocked", "reporting", "serverStopped",
               "exited"}

VARIABLES
    state,       \* e.state
    run,         \* the run whose ctx and channel are in e.runCancel, e.runDone (0: none)
    verdict,     \* e.verdictResult: "none" or its Result
    snapshots,   \* e.workerSnapshots: 0 (nil) or the run they were captured from
    cancelled,   \* per run: its context is cancelled
    bounded,     \* per run: its duration is positive
    pc,          \* per run: where its runLoop is
    next,        \* per run: the group its current loop over the groups is at
    closes,      \* per run: how often its runDone channel was closed
    closing,     \* per run: the run whose channel its deferred function will close
    receivers,   \* per run: groups whose receivers were started and not stopped
    producers,   \* per run: groups whose producers were started and not stopped
    runFlag,     \* the -run flag was given
    timed,       \* the startup configuration's duration is positive
    main,        \* where main is
    awaited,     \* the run GracefulShutdown cancels and waits for (0: none)
    passed,      \* what GracefulShutdown returned
    exitCode,    \* the process's exit status, -1 while it runs
    report,      \* the last /run/report answer: the state it was served in, or "none"
    \* History, read by no action:
    outcome,     \* per run: the verdict its loop computed, or "none"
    errored,     \* per run: its loop called setError
    timedOut,    \* GracefulShutdown gave up after 120 s
    leftIn       \* the state GracefulShutdown first read

engine == <<state, run, verdict, snapshots>>
loops == <<cancelled, bounded, pc, next, closes, closing, receivers, producers>>
mainVars == <<main, awaited, passed, exitCode, timedOut, leftIn>>
history == <<outcome, errored>>

vars == <<engine, loops, runFlag, timed, mainVars, report, history>>

Init ==
    /\ state = "idle" /\ run = 0 /\ verdict = "none" /\ snapshots = 0
    /\ cancelled = [r \in Runs |-> FALSE]
    /\ bounded = [r \in Runs |-> FALSE]
    /\ pc = [r \in Runs |-> "none"]
    /\ next = [r \in Runs |-> 1]
    /\ closes = [r \in Runs |-> 0]
    /\ closing = [r \in Runs |-> 0]
    /\ receivers = [r \in Runs |-> {}]
    /\ producers = [r \in Runs |-> {}]
    /\ runFlag \in BOOLEAN
    /\ timed \in BOOLEAN
    /\ main = "init" /\ awaited = 0 /\ passed = FALSE /\ exitCode = -1
    /\ report = "none"
    /\ outcome = [r \in Runs |-> "none"]
    /\ errored = [r \in Runs |-> FALSE]
    /\ timedOut = FALSE /\ leftIn = "none"

Alive == exitCode = -1

-----------------------------------------------------------------------------
(* The control API, and main's own start of a run.                         *)

(* Deliberately wrong variants like this one show that a property can fail: *)
(* here a run may also start while the previous one is stopping.            *)
CanStartWhileStopping == state \in {"idle", "stopping", "stopped", "error"}

CanStart == state \in {"idle", "stopped", "error"}

FreshSnapshots == 0

(***************************************************************************)
(* StartRunFromConfig: accepted in idle, stopped and error.  It takes a    *)
(* fresh context and runDone channel and launches runLoop.  handleRunStart *)
(* checks the same three states first.                                     *)
(***************************************************************************)
StartRunFromConfig(b) ==
    /\ CanStart
    /\ run < MaxRuns
    /\ run' = run + 1
    /\ state' = "starting"
    /\ verdict' = "none"
    /\ snapshots' = FreshSnapshots
    /\ bounded' = [bounded EXCEPT ![run + 1] = b]
    /\ pc' = [pc EXCEPT ![run + 1] = "consumers"]
    /\ UNCHANGED <<cancelled, next, closes, closing, receivers, producers>>

(***************************************************************************)
(* Orderly starts: the goroutine of a failed run has ended before the next *)
(* run starts, and a client starts none once main has stopped waiting.     *)
(***************************************************************************)
Orderly == ~ \E r \in Runs : pc[r] = "ending" /\ errored[r]

(* The HTTP server is up from before the run that -run starts until srv.Stop. *)
Serving == Alive /\ main # "serverStopped"

(* POST /run/start, whose body may override the duration.  Bound: one run is left for main. *)
handleRunStart ==
    /\ Serving
    /\ main = "init" /\ runFlag => run + 1 < MaxRuns
    /\ HastyClient \/ (Orderly /\ main \in {"init", "waiting"})
    /\ \E b \in BOOLEAN : StartRunFromConfig(b)
    /\ UNCHANGED <<runFlag, timed, mainVars, report, history>>

(* POST /run/stop: StopRun, which only cancels the context. *)
handleRunStop ==
    /\ Serving
    /\ state \in {"starting", "running"}
    /\ cancelled' = [cancelled EXCEPT ![run] = TRUE]
    /\ UNCHANGED <<engine, bounded, pc, next, closes, closing, receivers, producers,
                   runFlag, timed, mainVars, report, history>>

(* GET /run/report: RunReport answers whenever there are snapshots. *)
handleRunReport ==
    /\ Serving
    /\ snapshots # 0
    /\ report' = state
    /\ UNCHANGED <<engine, loops, runFlag, timed, mainVars, history>>

-----------------------------------------------------------------------------
(* runLoop, from launch to the measurement window.                         *)

(* The step of r's loop from one label to another. *)
Goto(r, from, to) ==
    /\ Alive
    /\ pc[r] = from
    /\ pc' = [pc EXCEPT ![r] = to]

(* What no step of a run loop touches. *)
LoopFrame == UNCHANGED <<run, bounded, runFlag, timed, mainVars, report>>

(* A step that changes nothing but where the loop is. *)
Step(r, from, to) ==
    /\ Goto(r, from, to)
    /\ UNCHANGED <<state, verdict, snapshots, cancelled, next, closes, closing, receivers,
                   producers, history>>
    /\ LoopFrame

(* A step that starts or stops producers. *)
SetProducers(r, from, to, groups) ==
    /\ Goto(r, from, to)
    /\ producers' = [producers EXCEPT ![r] = groups]
    /\ UNCHANGED <<state, verdict, snapshots, cancelled, next, closes, closing, receivers,
                   history>>
    /\ LoopFrame

(* setError, then return: the deferred function is still to run. *)
SetError(r, from) ==
    /\ Goto(r, from, "ending")
    /\ state' = "error"
    /\ errored' = [errored EXCEPT ![r] = TRUE]
    /\ UNCHANGED <<verdict, snapshots, cancelled, next, closes, closing, producers, outcome>>
    /\ LoopFrame

MoreGroups(r) == next[r] <= NumGroups

(***************************************************************************)
(* StartConsumers of the next group.  When it fails the group's earlier    *)
(* workers may have been started; nothing stops them.                      *)
(***************************************************************************)
StartConsumers(r) ==
    /\ MoreGroups(r)
    /\ Goto(r, "consumers", "consumers")
    /\ receivers' = [receivers EXCEPT ![r] = @ \cup {next[r]}]
    /\ next' = [next EXCEPT ![r] = @ + 1]
    /\ UNCHANGED <<state, verdict, snapshots, cancelled, closes, closing, producers, history>>
    /\ LoopFrame

StartConsumersFails(r) ==
    /\ MoreGroups(r)
    /\ SetError(r, "consumers")
    /\ \E some \in SUBSET {next[r]} : receivers' = [receivers EXCEPT ![r] = @ \cup some]

ConsumersStarted(r) ==
    /\ ~MoreGroups(r)
    /\ Goto(r, "consumers", "ready")
    /\ next' = [next EXCEPT ![r] = 1]
    /\ UNCHANGED <<state, verdict, snapshots, cancelled, closes, closing, receivers,
                   producers, history>>
    /\ LoopFrame

(***************************************************************************)
(* WaitForConsumerReady of the next group: ready, or 30 s have passed.  It *)
(* does not watch the context.                                             *)
(***************************************************************************)
WaitForConsumerReady(r) ==
    /\ MoreGroups(r)
    /\ Goto(r, "ready", "ready")
    /\ next' = [next EXCEPT ![r] = @ + 1]
    /\ UNCHANGED <<state, verdict, snapshots, cancelled, closes, closing, receivers,
                   producers, history>>
    /\ LoopFrame

ConsumerReadyTimeout(r) ==
    /\ MoreGroups(r)
    /\ SetError(r, "ready")
    /\ UNCHANGED receivers

(* ctx.Err() != nil: return; nothing is stopped and no verdict is computed. *)
ReturnCancelled(r) ==
    /\ cancelled[r]
    /\ \/ ~MoreGroups(r) /\ Step(r, "ready", "ending")
       \/ Step(r, "settling", "ending")
       \/ Step(r, "warm", "ending")

(* warmup: all producers start ... *)
WarmupStart(r) ==
    /\ ~cancelled[r]
    /\ ~MoreGroups(r)
    /\ SetProducers(r, "ready", "warming", Groups)

(* Wrong: a cancelled warmup leaves its producers running. *)
WarmupStopUnlessCancelled(r) ==
    SetProducers(r, "warming", "settling", IF cancelled[r] THEN producers[r] ELSE {})

(* ... until the warmup time is over or the context is cancelled, and are stopped ... *)
WarmupStop(r) == SetProducers(r, "warming", "settling", {})

(* ... and one second later the workers' counters are reset. *)
WarmupReset(r) == Step(r, "settling", "warm")

StartProducers(r) ==
    /\ ~cancelled[r]
    /\ SetProducers(r, "warm", "producing", Groups)

-----------------------------------------------------------------------------
(* The measurement window and the two-phase shutdown.                      *)

SetState(r, from, to, st) ==
    /\ Goto(r, from, to)
    /\ state' = st
    /\ UNCHANGED <<verdict, snapshots, cancelled, next, closes, closing, receivers, producers,
                   history>>
    /\ LoopFrame

SetRunning(r) == SetState(r, "producing", "running", "running")

(* Wrong: the select does not watch the context. *)
RunEndsOnTimeOnly(r) == bounded[r] /\ Step(r, "running", "halting")

(* The select: cancelled, or a positive duration has elapsed. *)
RunEnds(r) ==
    /\ cancelled[r] \/ bounded[r]
    /\ Step(r, "running", "halting")

(* The periodic tasks have ended. *)
SetStopping(r) == SetState(r, "halting", "stopping", "stopping")

(* Wrong: the drain starts with the producers still running. *)
StopNoProducers(r) == Step(r, "stopping", "draining")

(* shutdownWorkers, phase one: stop the producers, drain, look for gaps ... *)
StopProducers(r) == SetProducers(r, "stopping", "draining", {})

drainToQuiescence(r) == Step(r, "draining", "drained")

(* Wrong: the verdict is computed without snapshots. *)
CaptureNothing(r) == Step(r, "drained", "captured")

(* ... and capture the snapshots; phase two: stop the consumers. *)
captureWorkerSnapshots(r) ==
    /\ Goto(r, "drained", "captured")
    /\ snapshots' = r
    /\ UNCHANGED <<state, verdict, cancelled, next, closes, closing, receivers, producers,
                   history>>
    /\ LoopFrame

StopConsumers(r) ==
    /\ Goto(r, "captured", "judging")
    /\ receivers' = [receivers EXCEPT ![r] = {}]
    /\ UNCHANGED <<state, verdict, snapshots, cancelled, next, closes, closing, producers,
                   history>>
    /\ LoopFrame

(* The gates of computeVerdict are abstracted to the result they can have. *)
computeVerdict(r) ==
    /\ Goto(r, "judging", "ending")
    /\ \E v \in Verdicts : verdict' = v /\ outcome' = [outcome EXCEPT ![r] = v]
    /\ UNCHANGED <<state, snapshots, cancelled, next, closes, closing, receivers, producers,
                   errored>>
    /\ LoopFrame

(***************************************************************************)
(* runLoop's deferred function: under the lock, stopped unless error, and  *)
(* read the channel in e.runDone; then close that channel.  Closing it a   *)
(* second time panics, and a Go panic ends the process with status 2.      *)
(***************************************************************************)
DeferLocked(r) ==
    /\ Goto(r, "ending", "closing")
    /\ state' = IF state = "error" THEN "error" ELSE "stopped"
    /\ closing' = [closing EXCEPT ![r] = run]
    /\ UNCHANGED <<verdict, snapshots, cancelled, next, closes, receivers, producers, history>>
    /\ LoopFrame

(* The run whose channel r's deferred function closes. *)
DoneOf(r) == closing[r]

CloseDone(r) ==
    /\ Goto(r, "closing", "done")
    /\ closes' = [closes EXCEPT ![DoneOf(r)] = @ + 1]
    /\ exitCode' = IF closes[DoneOf(r)] = 0 THEN exitCode ELSE 2
    /\ UNCHANGED <<engine, cancelled, bounded, next, closing, receivers, producers, runFlag,
                   timed, main, awaited, passed, timedOut, leftIn, report, history>>

runLoop(r) ==
    \/ StartConsumers(r) \/ StartConsumersFails(r) \/ ConsumersStarted(r)
    \/ WaitForConsumerReady(r) \/ ConsumerReadyTimeout(r) \/ ReturnCancelled(r)
    \/ WarmupStart(r) \/ WarmupStop(r) \/ WarmupReset(r) \/ StartProducers(r)
    \/ SetRunning(r) \/ RunEnds(r) \/ SetStopping(r) \/ StopProducers(r)
    \/ drainToQuiescence(r) \/ captureWorkerSnapshots(r) \/ StopConsumers(r)
    \/ computeVerdict(r) \/ DeferLocked(r) \/ CloseDone(r)

-----------------------------------------------------------------------------
(* main.                                                                   *)

MainStep(from, to) ==
    /\ Alive
    /\ main = from
    /\ main' = to

(* A step that changes nothing but where main is. *)
MainMove(from, to) ==
    /\ MainStep(from, to)
    /\ UNCHANGED <<engine, loops, runFlag, timed, awaited, passed, exitCode, timedOut, leftIn,
                   report, history>>

(* With -run, start the run of the startup configuration; failing that, exit 1. *)
MainStart ==
    /\ MainStep("init", "waiting")
    /\ IF runFlag THEN (HastyClient \/ Orderly) /\ StartRunFromConfig(timed)
                  ELSE UNCHANGED <<engine, loops>>
    /\ UNCHANGED <<runFlag, timed, awaited, passed, exitCode, timedOut, leftIn, report, history>>

MainStartFails ==
    /\ MainStep("init", "exited")
    /\ runFlag /\ ~CanStart
    /\ exitCode' = 1
    /\ UNCHANGED <<engine, loops, runFlag, timed, awaited, passed, timedOut, leftIn, report,
                   history>>

(* waitForExit: SIGTERM or SIGINT at any time ... *)
Signal == MainMove("waiting", "reading")

(* ... or, for a bounded -run, the poll sees that the run is over. *)
PollSeesEnd ==
    /\ runFlag /\ timed
    /\ state \in {"stopped", "error"}
    /\ MainMove("waiting", "reading")

(* Wrong: a run that is still starting is not waited for. *)
ActiveRunning == state = "running"

Active == state \in {"running", "starting"}

(* GracefulShutdown reads the state, the cancel function and the channel. *)
ShutdownReads ==
    /\ \/ Active /\ MainStep("reading", "cancelling") /\ awaited' = run
       \/ ~Active /\ MainStep("reading", "blocked") /\ awaited' = 0
    /\ leftIn' = state
    /\ UNCHANGED <<engine, loops, runFlag, timed, passed, exitCode, timedOut, report, history>>

ShutdownCancels ==
    /\ MainStep("cancelling", "blocked")
    /\ cancelled' = [cancelled EXCEPT ![awaited] = TRUE]
    /\ UNCHANGED <<engine, bounded, pc, next, closes, closing, receivers, producers, runFlag,
                   timed, awaited, passed, exitCode, timedOut, leftIn, report, history>>

(* Wrong: it starts over until there is a verdict. *)
ShutdownAwaitsVerdict ==
    /\ MainStep("blocked", IF verdict = "none" THEN "reading" ELSE "reporting")
    /\ timedOut' = (awaited # 0 /\ closes[awaited] = 0)
    /\ passed' = (verdict \in {"PASSED", "PASSED_WITH_WARNINGS"})
    /\ UNCHANGED <<engine, loops, runFlag, timed, awaited, exitCode, leftIn, report, history>>

(* It returns once the channel is closed, or after 120 s. *)
ShutdownReturns ==
    /\ MainStep("blocked", "reporting")
    /\ timedOut' = (awaited # 0 /\ closes[awaited] = 0)
    /\ passed' = (verdict \in {"PASSED", "PASSED_WITH_WARNINGS"})
    /\ UNCHANGED <<engine, loops, runFlag, timed, awaited, exitCode, leftIn, report, history>>

(* The report is printed and the server stopped ... *)
StopServer == MainMove("reporting", "serverStopped")

(* Wrong: warnings are never reported. *)
HasNoWarnings == FALSE

HasWarnings == verdict = "PASSED_WITH_WARNINGS"

(* ... and HasWarnings is read for the exit code. *)
Exit ==
    /\ MainStep("serverStopped", "exited")
    /\ exitCode' = IF ~passed THEN 1 ELSE IF HasWarnings THEN 2 ELSE 0
    /\ UNCHANGED <<engine, loops, runFlag, timed, awaited, passed, timedOut, leftIn, report,
                   history>>

Main == MainStart \/ MainStartFails \/ Signal \/ PollSeesEnd \/ ShutdownReads
        \/ ShutdownCancels \/ ShutdownReturns \/ StopServer \/ Exit

(* The process has exited. *)
Terminated == ~Alive /\ UNCHANGED vars

Next ==
    \/ handleRunStart \/ handleRunStop \/ handleRunReport
    \/ \E r \in Runs : runLoop(r)
    \/ Main
    \/ Terminated

Spec == Init /\ [][Next]_vars

(***************************************************************************)
(* Fairness: goroutines are scheduled, timers fire, and every wait of      *)
(* runLoop has a timeout (30 s for a receiver, 15 s for a stop, the drain  *)
(* timeout).  Signals and API calls may never come.                        *)
(***************************************************************************)
Fairness ==
    /\ \A r \in Runs : WF_vars(runLoop(r))
    /\ WF_vars(MainStart \/ MainStartFails \/ PollSeesEnd \/ ShutdownReads \/ ShutdownCancels
               \/ ShutdownReturns \/ StopServer \/ Exit)

FairSpec == Spec /\ Fairness

-----------------------------------------------------------------------------
(* Type correctness of the engine, its run loops and main. *)
TypeOK ==
    /\ state \in States
    /\ run \in 0 .. MaxRuns
    /\ verdict \in Verdicts \cup {"none"}
    /\ snapshots \in 0 .. MaxRuns
    /\ cancelled \in [Runs -> BOOLEAN]
    /\ bounded \in [Runs -> BOOLEAN]
    /\ pc \in [Runs -> Labels]
    /\ next \in [Runs -> 1 .. (NumGroups + 1)]
    /\ closes \in [Runs -> Nat]
    /\ closing \in [Runs -> 0 .. MaxRuns]
    /\ receivers \in [Runs -> SUBSET Groups]
    /\ producers \in [Runs -> SUBSET Groups]
    /\ runFlag \in BOOLEAN /\ timed \in BOOLEAN
    /\ main \in MainLabels
    /\ awaited \in 0 .. MaxRuns
    /\ passed \in BOOLEAN
    /\ exitCode \in -1 .. 2
    /\ report \in States \cup {"none"}
    /\ outcome \in [Runs -> Verdicts \cup {"none"}]
    /\ errored \in [Runs -> BOOLEAN]
    /\ timedOut \in BOOLEAN
    /\ leftIn \in States \cup {"none"}

(* A loop that can still write the engine's fields; one that still has workers to run. *)
Live(r) == pc[r] \notin {"none", "closing", "done"}
Working(r) == Live(r) /\ pc[r] # "ending"

(***************************************************************************)
(* At most one run loop can write the engine's fields, it is the one whose *)
(* context and channel the engine holds, and when the state allows a new   *)
(* run to start no loop has workers to run: the guard on e.state in        *)
(* StartRunFromConfig is enough to keep runs apart.                        *)
(***************************************************************************)
RunsKeptApart ==
    /\ \A r \in Runs : Live(r) => r = run
    /\ state \in {"idle", "stopped", "error"} => \A r \in Runs : ~Working(r)

(***************************************************************************)
(* Each run's channel is closed once, by the loop of that run: close(done) *)
(* in runLoop's deferred function cannot panic, and nobody who waits for a *)
(* run is woken by the end of another.                                     *)
(***************************************************************************)
DoneClosedByOwner ==
    \A r \in Runs : closes[r] = IF pc[r] = "done" THEN 1 ELSE 0

(***************************************************************************)
(* The verdict the engine shows is the current run's own, computed from    *)
(* snapshots of that run: StartRunFromConfig leaves nothing of the run     *)
(* before, and no late writer brings it back.                              *)
(***************************************************************************)
VerdictIsOwn ==
    verdict # "none" => run # 0 /\ verdict = outcome[run] /\ snapshots = run

(***************************************************************************)
(* A run that ended without a verdict failed or was cancelled: the early   *)
(* returns of runLoop are the only way around computeVerdict.              *)
(***************************************************************************)
NoVerdictExplained ==
    \A r \in Runs : pc[r] = "done" /\ outcome[r] = "none" => errored[r] \/ cancelled[r]

(***************************************************************************)
(* When a run is over none of its producers run, and its receivers have    *)
(* been stopped or their context is cancelled, except after setError,      *)
(* which leaves the receivers already started running.                     *)
(***************************************************************************)
WorkersStopped ==
    \A r \in Runs : pc[r] = "done" =>
        producers[r] = {} /\ (receivers[r] = {} \/ cancelled[r] \/ errored[r])

(***************************************************************************)
(* Unless the run was cancelled, the drain and the snapshots happen with   *)
(* every receiver up and every producer stopped (shutdownWorkers).         *)
(***************************************************************************)
DrainsWithReceivers ==
    \A r \in Runs : pc[r] \in {"draining", "drained"} /\ ~cancelled[r] =>
        receivers[r] = Groups /\ producers[r] = {}

(***************************************************************************)
(* The exit codes of main.go:8: status 0 only for a run that PASSED, and   *)
(* status 2 only for one that PASSED_WITH_WARNINGS.                        *)
(***************************************************************************)
ExitCodeTruthful ==
    /\ exitCode = 0 => run # 0 /\ outcome[run] = "PASSED"
    /\ exitCode = 2 => run # 0 /\ outcome[run] = "PASSED_WITH_WARNINGS"

(* GracefulShutdown has returned without giving up. *)
ShutDown == main \in {"reporting", "serverStopped", "exited"} /\ leftIn # "none" /\ ~timedOut

(***************************************************************************)
(* If GracefulShutdown found the engine in any state but stopping, no run  *)
(* has work left when it returns, and it returns that run's outcome.       *)
(***************************************************************************)
ShutdownWaitsForRun ==
    ShutDown /\ leftIn # "stopping" =>
        /\ \A r \in Runs : ~Working(r)
        /\ run # 0 => (passed <=> outcome[run] \in {"PASSED", "PASSED_WITH_WARNINGS"})

(***************************************************************************)
(* What comment engine.go:251 says: GracefulShutdown cancels any active    *)
(* run and waits, so no run is at work when it returns.                    *)
(***************************************************************************)
ShutdownWaits ==
    ShutDown => \A r \in Runs : ~Working(r)

(***************************************************************************)
(* A report is given only once the current run's snapshots are captured:   *)
(* RunReport, which looks at e.workerSnapshots alone, answers neither in   *)
(* the states before nor with what an earlier run has left.                *)
(***************************************************************************)
ReportAfterCapture == report \in {"none", "stopping", "stopped"}

(***************************************************************************)
(* A run that is cancelled or has a bounded duration ends, whatever phase  *)
(* it is in: every wait of runLoop is bounded or watches the context.      *)
(***************************************************************************)
RunsEnd ==
    \A r \in Runs : (Live(r) /\ (cancelled[r] \/ bounded[r])) ~> (pc[r] = "done" \/ ~Alive)

(* Once main stops waiting, the process exits. *)
ShutdownEnds == (main = "reading") ~> ~Alive

(***************************************************************************)
(* The engine and main implement Lifecycle.  A run is over when its        *)
(* verdict is there or its deferred function has run.                      *)
(***************************************************************************)
Status(r) ==
    IF pc[r] = "none" THEN "none"
    ELSE IF outcome[r] # "none" \/ pc[r] \in {"closing", "done"} THEN "over" ELSE "active"

L == INSTANCE Lifecycle WITH
        status <- [r \in Runs |-> Status(r)], result <- outcome, exit <- exitCode

(***************************************************************************)
(* What the goroutines of StartRunFromConfig, runLoop, GracefulShutdown    *)
(* and main do together is what Lifecycle promises: no run starts before   *)
(* the last is over, no run that is over comes back or changes its         *)
(* verdict, and the process exits once, with the last run's verdict.       *)
(***************************************************************************)
ImplementsLifecycle == L!Spec
=============================================================================
