---------------------------- MODULE ReceiveLoop ----------------------------
(***************************************************************************)
(* The receiving side of one worker: a receiveLoop goroutine per           *)
(* subscription (src/burnin/worker/fan_out.go; the other workers have the  *)
(* same loop over one subscription), the watchDisconnect goroutine beside  *)
(* each open stream (worker/util.go), the forced-disconnect manager        *)
(* (src/burnin/disconnect) and the stop that waits at most 15 s            *)
(* (worker/worker.go).                                                     *)
(*                                                                         *)
(* transport.Receive is external: it hands messages to callbacks until its *)
(* context is cancelled or the stream fails, and returns once the          *)
(* callbacks it started have returned.                                     *)
(***************************************************************************)
EXTENDS Integers, FiniteSetsExt

CONSTANTS
    Subs,            \* the worker's subscriptions, one loop each
    MaxDisconnects,  \* bound: forced disconnects
    MaxFailures      \* bound: failures of each loop's stream

ASSUME ReceiveLoopAssumption ==
    /\ IsFiniteSet(Subs)
    /\ MaxDisconnects \in Nat
    /\ MaxFailures \in Nat

VARIABLES
    pc,             \* per loop: where it is
    gen,            \* per loop: the generation it captured
    first,          \* per loop: no stream opened yet
    cut,            \* per loop: watchDisconnect cancelled its recvCtx
    failing,        \* per loop: its Receive will return an error
    busy,           \* per loop: a callback is in handleMessage
    ready,          \* the consumerReady channel is closed
    reconnections,  \* the worker's counter
    errors,         \* the worker's counter
    disconnectGen,  \* the worker's disconnect generation
    manager,        \* where disconnect.Manager.Run is
    periodic,       \* the periodic tasks' context is live
    cancelled,      \* consumerCtx, or its parent the run's context, is cancelled
    stop,           \* where StopConsumers is
    gaveUp,         \* waitWGTimeout returned false
    \* History, read by no action:
    failures        \* per loop: how often its stream has failed (bounded)

loopVars == <<pc, gen, first, cut, failing, busy, ready, reconnections, errors, failures>>
stopVars == <<cancelled, stop, gaveUp>>
vars == <<loopVars, disconnectGen, manager, periodic, stopVars>>

Labels == {"none", "launched", "top", "receiving", "returned", "checking", "backoff", "ended"}

Init ==
    /\ pc = [s \in Subs |-> "none"]
    /\ gen = [s \in Subs |-> 0]
    /\ first = [s \in Subs |-> TRUE]
    /\ cut = [s \in Subs |-> FALSE]
    /\ failing = [s \in Subs |-> FALSE]
    /\ busy = [s \in Subs |-> FALSE]
    /\ ready = FALSE /\ reconnections = 0 /\ errors = 0
    /\ failures = [s \in Subs |-> 0]
    /\ disconnectGen = 0
    /\ manager = "none" /\ periodic = FALSE
    /\ cancelled = FALSE /\ stop = "no" /\ gaveUp = FALSE

-----------------------------------------------------------------------------
(* Start provisions the topic and every subscription before it launches any loop; *)
(* a step that fails launches none.                                               *)
Start ==
    /\ stop = "no" /\ \A s \in Subs : pc[s] = "none"
    /\ \E outcome \in {"launched", "ended"} : pc' = [s \in Subs |-> outcome]
    /\ UNCHANGED <<gen, first, cut, failing, busy, ready, reconnections, errors, failures,
                   disconnectGen, manager, periodic, stopVars>>

(* The goroutine of s is scheduled and captures the generation. *)
Launch(s) ==
    /\ pc[s] = "launched"
    /\ pc' = [pc EXCEPT ![s] = "top"]
    /\ gen' = [gen EXCEPT ![s] = disconnectGen]
    /\ UNCHANGED <<first, cut, failing, busy, ready, reconnections, errors, failures,
                   disconnectGen, manager, periodic, stopVars>>

(* recordReconnection, on every iteration but the first. *)
Reconnection(s) == IF first[s] THEN 0 ELSE 1

(* The head of the loop: return when cancelled; otherwise signal ready and call Receive. *)
Enter(s) ==
    /\ pc[s] = "top"
    /\ IF cancelled
       THEN /\ pc' = [pc EXCEPT ![s] = "ended"]
            /\ UNCHANGED <<first, cut, ready, reconnections>>
       ELSE /\ pc' = [pc EXCEPT ![s] = "receiving"]
            /\ reconnections' = reconnections + Reconnection(s)
            /\ first' = [first EXCEPT ![s] = FALSE]
            /\ ready' = TRUE
            /\ cut' = [cut EXCEPT ![s] = FALSE]
    /\ UNCHANGED <<gen, failing, busy, errors, failures, disconnectGen, manager, periodic,
                   stopVars>>

(* Wrong: the comparison is the other way round. *)
DisconnectedBefore(s) == disconnectGen < gen[s]

(* genFn() != gen *)
Disconnected(s) == disconnectGen # gen[s]

(* watchDisconnect: on a tick, cancel the open Receive if the generation has advanced. *)
watchDisconnect(s) ==
    /\ pc[s] = "receiving" /\ ~cut[s] /\ ~cancelled
    /\ Disconnected(s)
    /\ cut' = [cut EXCEPT ![s] = TRUE]
    /\ UNCHANGED <<pc, gen, first, failing, busy, ready, reconnections, errors, failures,
                   disconnectGen, manager, periodic, stopVars>>

(* The stream fails, or the connector closes it. *)
StreamFails(s) ==
    /\ pc[s] = "receiving" /\ ~failing[s]
    /\ failures[s] < MaxFailures
    /\ failures' = [failures EXCEPT ![s] = @ + 1]
    /\ failing' = [failing EXCEPT ![s] = TRUE]
    /\ UNCHANGED <<pc, gen, first, cut, busy, ready, reconnections, errors, disconnectGen,
                   manager, periodic, stopVars>>

(* The stream of s takes no new messages. *)
Closed(s) == cut[s] \/ failing[s] \/ cancelled

(* A callback starts; one at a time, MaxOutstanding being a matter of the SDK. *)
handleMessage(s) ==
    /\ pc[s] = "receiving" /\ ~Closed(s) /\ ~busy[s]
    /\ busy' = [busy EXCEPT ![s] = TRUE]
    /\ UNCHANGED <<pc, gen, first, cut, failing, ready, reconnections, errors, failures,
                   disconnectGen, manager, periodic, stopVars>>

MessageHandled(s) ==
    /\ busy[s]
    /\ busy' = [busy EXCEPT ![s] = FALSE]
    /\ UNCHANGED <<pc, gen, first, cut, failing, ready, reconnections, errors, failures,
                   disconnectGen, manager, periodic, stopVars>>

(* transport.Receive returns. *)
Receive(s) ==
    /\ pc[s] = "receiving" /\ Closed(s) /\ ~busy[s]
    /\ pc' = [pc EXCEPT ![s] = "returned"]
    /\ UNCHANGED <<gen, first, cut, failing, busy, ready, reconnections, errors, failures,
                   disconnectGen, manager, periodic, stopVars>>

(* Wrong: the loop keeps the generation it captured at the start. *)
KeepGeneration(s) ==
    /\ pc[s] = "returned"
    /\ pc' = [pc EXCEPT ![s] = "checking"]
    /\ UNCHANGED <<gen, first, cut, failing, busy, ready, reconnections, errors, failures,
                   disconnectGen, manager, periodic, stopVars>>

(* gen = w.disconnectGeneration(), after Receive has returned. *)
Recapture(s) ==
    /\ pc[s] = "returned"
    /\ pc' = [pc EXCEPT ![s] = "checking"]
    /\ gen' = [gen EXCEPT ![s] = disconnectGen]
    /\ UNCHANGED <<first, cut, failing, busy, ready, reconnections, errors, failures,
                   disconnectGen, manager, periodic, stopVars>>

(* Return when cancelled; after an error count it and back off; otherwise go round. *)
Check(s) ==
    /\ pc[s] = "checking"
    /\ failing' = [failing EXCEPT ![s] = FALSE]
    /\ pc' = [pc EXCEPT ![s] = IF cancelled THEN "ended"
                               ELSE IF failing[s] THEN "backoff" ELSE "top"]
    /\ errors' = IF ~cancelled /\ failing[s] THEN errors + 1 ELSE errors
    /\ UNCHANGED <<gen, first, cut, busy, ready, reconnections, failures, disconnectGen,
                   manager, periodic, stopVars>>

(* Wrong: the backoff does not watch the context. *)
SleepThrough(s) ==
    /\ pc[s] = "backoff" /\ ~cancelled
    /\ pc' = [pc EXCEPT ![s] = "top"]
    /\ UNCHANGED <<gen, first, cut, failing, busy, ready, reconnections, errors, failures,
                   disconnectGen, manager, periodic, stopVars>>

(* sleepCtx: the reconnect interval, cut short by cancellation. *)
sleepCtx(s) ==
    /\ pc[s] = "backoff"
    /\ \/ pc' = [pc EXCEPT ![s] = "top"]
       \/ cancelled /\ pc' = [pc EXCEPT ![s] = "ended"]
    /\ UNCHANGED <<gen, first, cut, failing, busy, ready, reconnections, errors, failures,
                   disconnectGen, manager, periodic, stopVars>>

receiveLoop(s) == Enter(s) \/ Receive(s) \/ Recapture(s) \/ Check(s) \/ sleepCtx(s)

-----------------------------------------------------------------------------
(* startPeriodicTasks, once the consumers are ready: the manager's ticker starts. *)
startPeriodicTasks ==
    /\ ready /\ stop = "no" /\ manager = "none" /\ ~cancelled
    /\ manager' = "ticking" /\ periodic' = TRUE
    /\ UNCHANGED <<loopVars, disconnectGen, stopVars>>

(* Manager.Run, a tick: DisconnectConsumers on every target, then hold for the duration. *)
DisconnectConsumers ==
    /\ manager = "ticking"
    /\ disconnectGen < MaxDisconnects
    /\ disconnectGen' = disconnectGen + 1
    /\ manager' = "holding"
    /\ UNCHANGED <<loopVars, periodic, stopVars>>

(* Manager.Run: the duration has passed, or the context is done. *)
ManagerResumes ==
    /\ manager = "holding"
    /\ manager' = "ticking"
    /\ UNCHANGED <<loopVars, disconnectGen, periodic, stopVars>>

ManagerReturns ==
    /\ manager \in {"ticking", "holding"} /\ ~periodic
    /\ manager' = "ended"
    /\ UNCHANGED <<loopVars, disconnectGen, periodic, stopVars>>

(* The run is cancelled: consumerCtx and periodicCtx are children of its context. *)
Cancel ==
    /\ ~cancelled /\ stop = "no" /\ \E s \in Subs : pc[s] # "none"
    /\ cancelled' = TRUE /\ periodic' = FALSE
    /\ UNCHANGED <<loopVars, disconnectGen, manager, stop, gaveUp>>

(* The duration is over: periodicCancel. *)
PeriodicCancel ==
    /\ periodic
    /\ periodic' = FALSE
    /\ UNCHANGED <<loopVars, disconnectGen, manager, stopVars>>

(* Wrong: shutdownWorkers does not wait for the periodic tasks. *)
PeriodicOver == manager # "none" /\ ~periodic

(* periodicWG.Wait() has returned. *)
PeriodicDone == manager = "ended"

(* StopConsumers, called by shutdownWorkers: cancel, then wait. *)
StopConsumers ==
    /\ stop = "no" /\ PeriodicDone
    /\ cancelled' = TRUE
    /\ stop' = "waiting"
    /\ UNCHANGED <<loopVars, disconnectGen, manager, periodic, gaveUp>>

(* Wrong: it waits for the loops that are receiving only. *)
NoneReceiving == \A s \in Subs : pc[s] # "receiving"

(* consumerWG is zero. *)
AllDone == \A s \in Subs : pc[s] = "ended"

(* waitWGTimeout: the loops have ended, or 15 s have passed. *)
waitWGTimeout ==
    /\ stop = "waiting"
    /\ \/ AllDone /\ gaveUp' = FALSE
       \/ ~AllDone /\ gaveUp' = TRUE
    /\ stop' = "stopped"
    /\ UNCHANGED <<loopVars, disconnectGen, manager, periodic, cancelled>>

Next ==
    \/ Start \/ startPeriodicTasks \/ DisconnectConsumers \/ ManagerResumes \/ ManagerReturns
    \/ Cancel \/ PeriodicCancel \/ StopConsumers \/ waitWGTimeout
    \/ \E s \in Subs :
          \/ Launch(s) \/ watchDisconnect(s) \/ StreamFails(s)
          \/ handleMessage(s) \/ MessageHandled(s) \/ receiveLoop(s)

(* Scheduled goroutines run and callbacks return; streams need not fail, messages need *)
(* not come, and nobody need disconnect, cancel or stop.                               *)
Fairness ==
    /\ WF_vars(ManagerReturns) /\ WF_vars(waitWGTimeout)
    /\ \A s \in Subs :
          /\ WF_vars(Launch(s)) /\ WF_vars(watchDisconnect(s))
          /\ WF_vars(MessageHandled(s)) /\ WF_vars(receiveLoop(s))

Spec == Init /\ [][Next]_vars /\ Fairness

-----------------------------------------------------------------------------
(* Type correctness; no loop captures a generation that was never reached. *)
TypeOK ==
    /\ pc \in [Subs -> Labels]
    /\ gen \in [Subs -> 0..MaxDisconnects]
    /\ first \in [Subs -> BOOLEAN] /\ cut \in [Subs -> BOOLEAN]
    /\ failing \in [Subs -> BOOLEAN] /\ busy \in [Subs -> BOOLEAN]
    /\ failures \in [Subs -> 0..MaxFailures]
    /\ ready \in BOOLEAN /\ periodic \in BOOLEAN /\ cancelled \in BOOLEAN /\ gaveUp \in BOOLEAN
    /\ reconnections \in Nat /\ errors \in Nat
    /\ disconnectGen \in 0..MaxDisconnects
    /\ manager \in {"none", "ticking", "holding", "ended"}
    /\ stop \in {"no", "waiting", "stopped"}

Failed == MapThenSumSet(LAMBDA s : failures[s], Subs)

(***************************************************************************)
(* One disconnect costs each stream at most one reconnection, and every    *)
(* other reconnection answers a failure of the stream: the generation is   *)
(* captured again once Receive has returned, so the same disconnect cannot *)
(* tear down the stream that replaced the one it was meant for             *)
(* (fan_out.go:116).                                                       *)
(***************************************************************************)
ReconnectionsJustified ==
    reconnections <= Cardinality(Subs) * disconnectGen + Failed

(***************************************************************************)
(* Once StopConsumers has returned without giving up, no callback is       *)
(* running: the client it closes next is no longer used.  Only the 15 s    *)
(* timeout leaves a straggler (worker.go:673-680, fan_out.go:196-204).     *)
(***************************************************************************)
StragglersOnlyAfterTimeout ==
    stop = "stopped" /\ ~gaveUp => \A s \in Subs : pc[s] = "ended" /\ ~busy[s]

(***************************************************************************)
(* No disconnect is injected once the consumers are being stopped: the run *)
(* waits for the manager before it shuts the workers down                  *)
(* (engine.go:387-394).                                                    *)
(***************************************************************************)
NoChurnDuringStop ==
    [][stop # "no" => disconnectGen' = disconnectGen]_vars

(***************************************************************************)
(* The churn is survived: however disconnects, failures of the streams and *)
(* callbacks interleave, in the end every loop is on a stream opened at    *)
(* the current generation, or has ended because of a cancellation          *)
(* (fan_out.go:95-128, util.go:79-93).                                     *)
(***************************************************************************)
Reestablished ==
    <>[](\A s \in Subs : \/ pc[s] \in {"none", "ended"}
                         \/ pc[s] = "receiving" /\ gen[s] = disconnectGen /\ ~cut[s])

(***************************************************************************)
(* A cancellation ends every loop, from whatever line it is at: receiving, *)
(* with a callback running, recapturing, or backing off after an error     *)
(* (fan_out.go:99, :118, :123).                                            *)
(***************************************************************************)
CancellationEndsLoops ==
    cancelled ~> \A s \in Subs : pc[s] = "ended" /\ ~busy[s]
=============================================================================
