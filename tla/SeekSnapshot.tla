---------------------------- MODULE SeekSnapshot ----------------------------
(***************************************************************************)
(* The seek_snapshot worker (src/burnin/worker/seek_snapshot.go): one      *)
(* goroutine drives rounds of publishing, draining, seeking back and       *)
(* counting what is delivered again, while the engine warms the worker up, *)
(* resets and stops it, and the connector loses messages and lets leases   *)
(* run out.                                                                *)
(*                                                                         *)
(* The worker counts messages and looks at nothing else in them but their  *)
(* round, so the topic is its length and the subscription a number of      *)
(* messages.  The sequence tracker is left out: a round has fewer messages *)
(* than the reorder window, so it never reports a loss here.               *)
(***************************************************************************)
EXTENDS Integers, FiniteSetsExt

CONSTANTS
    SeekReplayCount,  \* gcp.seek_replay_count
    PullBatch,        \* drainPullBatch
    MaxRounds,        \* bound: rounds of the warmup, and of the measurement
    MaxFaults         \* bound: failed calls and breaches of the connector

ASSUME SeekAssumption ==
    /\ SeekReplayCount \in Int /\ PullBatch \in Nat \ {0}
    /\ MaxRounds \in Nat /\ MaxFaults \in Nat

VARIABLES
    phase,      \* the engine's: warmup, settling, measuring, draining, stopped
    cancelled,  \* producerCtx is cancelled
    pc,         \* where runRound is
    round,
    done,       \* messages published, or received, in this step of the round
    held,       \* messages pulled and not acknowledged yet
    cursor,     \* what the round seeks to: the first message of the topic to replay
    errors, expected, observed, mismatch,   \* the counters of BaseWorker
    \* The connector's:
    topic,      \* the number of messages in the topic's log
    queue,      \* messages ready for delivery
    leased,     \* messages delivered and not acknowledged
    snapshot,   \* the snapshot exists
    faults,     \* bound
    \* History, read by no step:
    extra,      \* replays of this round delivered twice, less the ones lost
    deviant,    \* judged rounds, since the reset, whose replay was off by more than tolerated
    conflict,   \* CreateSnapshot met a snapshot
    undeleted   \* a DeleteSnapshot failed

worker == <<pc, round, done, held, cursor, errors, expected, observed, mismatch>>
connector == <<topic, queue, leased, snapshot, faults>>
history == <<extra, deviant, conflict, undeleted>>
vars == <<phase, cancelled, worker, connector, history>>

-----------------------------------------------------------------------------
replayCount == Max({SeekReplayCount, 1})
baselineCount == Max({replayCount \div 10, 5})

(* 0.5 percent, rounded down, and two. *)
Tolerance == (replayCount * 5) \div 1000 + 2

useTime == round % 2 = 0

Fault == faults < MaxFaults /\ faults' = faults + 1

(* What a step asks for, and the step that follows it. *)
Wanted == IF pc \in {"baseline", "drainBaseline"} THEN baselineCount ELSE replayCount
Following ==
    CASE pc = "baseline" -> "drainBaseline"
      [] pc = "drainBaseline" -> "cursor"
      [] pc = "cursor" -> "replaySet"
      [] pc = "replaySet" -> "drainReplaySet"
      [] pc = "drainReplaySet" -> "seek"
      [] pc = "seek" -> "drainReplay"
      [] pc = "drainReplay" -> "assert"

Advance == pc' = Following /\ done' = 0

(* runRound returns an error; roundLoop backs off and starts the next round. *)
Abort == pc' = "next" /\ done' = 0 /\ held' = 0

(* The cancelled context ends every call but the last of a round; a publish it cuts off may *)
(* have been accepted.                                                                      *)
Cancelled ==
    /\ cancelled /\ pc \notin {"next", "over", "assert"}
    /\ Abort
    /\ leased' = leased + held
    /\ \E n \in {0} \cup {k \in {1} : pc \in {"baseline", "replaySet"}} :
          topic' = topic + n /\ queue' = queue + n
    /\ UNCHANGED <<phase, cancelled, round, cursor, errors, expected, observed, mismatch,
                   snapshot, faults, history>>

(* Wrong: the loop looks at its context only after a round that failed. *)
roundLoopUnchecked ==
    /\ pc = "next" /\ round < MaxRounds
    /\ pc' = "baseline" /\ round' = round + 1 /\ extra' = 0
    /\ UNCHANGED <<phase, cancelled, done, held, cursor, errors, expected, observed, mismatch,
                   connector, deviant, conflict, undeleted>>

roundLoop ==
    /\ pc = "next"
    /\ \/ cancelled /\ pc' = "over" /\ UNCHANGED <<round, extra>>
       \/ /\ ~cancelled /\ round < MaxRounds
          /\ pc' = "baseline" /\ round' = round + 1 /\ extra' = 0
    /\ UNCHANGED <<phase, cancelled, done, held, cursor, errors, expected, observed, mismatch,
                   connector, deviant, conflict, undeleted>>

-----------------------------------------------------------------------------
(* A message of the baseline or of the replay set; one whose publish fails may have been *)
(* accepted all the same.                                                                *)
publishOne ==
    /\ pc \in {"baseline", "replaySet"} /\ ~cancelled
    /\ \/ /\ topic' = topic + 1 /\ queue' = queue + 1
          /\ IF done + 1 = Wanted THEN Advance ELSE done' = done + 1 /\ UNCHANGED pc
          /\ UNCHANGED <<held, errors, faults>>
       \/ /\ Fault /\ Abort
          /\ errors' = errors + 1
          /\ \E n \in {0, 1} : topic' = topic + n /\ queue' = queue + n
    /\ UNCHANGED <<phase, cancelled, round, cursor, expected, observed, mismatch, leased, snapshot,
                   history>>

Draining == pc \in {"drainBaseline", "drainReplaySet", "drainReplay"} /\ ~cancelled

(* The most a pull returns: MaxMessages. *)
Batch == Min({queue, PullBatch})

(* A batch is pulled and consumeReceived is called for each message of it; whose round it *)
(* is makes no difference to the count.                                                   *)
pullOnce ==
    /\ Draining /\ held = 0
    /\ \/ \E n \in 1 .. Batch :
             /\ queue' = queue - n /\ held' = n /\ done' = done + n
             /\ UNCHANGED <<pc, errors, faults>>
       \/ Fault /\ Abort /\ errors' = errors + 1 /\ UNCHANGED queue
    /\ UNCHANGED <<phase, cancelled, round, cursor, expected, observed, mismatch, topic, leased,
                   snapshot, history>>

(* drainQuiescentPolls empty answers in a row: the subscription is drained.  Messages out *)
(* on a lease of an earlier round do not show.                                            *)
Quiescent ==
    /\ Draining /\ held = 0 /\ queue = 0
    /\ IF pc = "drainReplay" THEN pc' = Following /\ UNCHANGED done ELSE Advance
    /\ UNCHANGED <<phase, cancelled, round, held, cursor, errors, expected, observed, mismatch,
                   connector, history>>

(* Wrong: the replay is drained like the rest, until enough has come. *)
EnoughAlways == done >= Wanted

(* drainAck stops once it has what it wants; drainReplay does not. *)
Enough == pc # "drainReplay" /\ done >= Wanted

ack ==
    /\ Draining /\ held > 0
    /\ \/ /\ held' = 0
          /\ IF ~Enough THEN UNCHANGED <<pc, done>>
             ELSE IF pc = "drainReplay" THEN pc' = Following /\ UNCHANGED done ELSE Advance
          /\ UNCHANGED <<errors, leased, faults>>
       \/ Fault /\ Abort /\ errors' = errors + 1 /\ leased' = leased + held
    /\ UNCHANGED <<phase, cancelled, round, cursor, expected, observed, mismatch, topic, queue,
                   snapshot, history>>

(* DeleteSnapshot: a failure is logged and no more. *)
DeleteSnapshot(left) ==
    \/ left = FALSE /\ UNCHANGED <<faults, undeleted>>
    \/ left = snapshot /\ Fault /\ undeleted' = TRUE

(* Wrong: a snapshot of an earlier round is not deleted first. *)
SnapshotKept(left) == left = snapshot /\ UNCHANGED <<faults, undeleted>>

(* Before CreateSnapshot, which is not idempotent, what is left is deleted. *)
DeleteBeforeCreate(left) == DeleteSnapshot(left)

(* An instant after the baseline, or a snapshot at the last message of the topic. *)
TakeCursor ==
    /\ pc = "cursor" /\ ~cancelled
    /\ \/ /\ useTime
          /\ cursor' = topic + 1 /\ Advance
          /\ UNCHANGED <<held, errors, snapshot, faults, conflict, undeleted>>
       \/ /\ ~useTime
          /\ \E left \in BOOLEAN :
                /\ DeleteBeforeCreate(left)
                /\ IF left THEN /\ Abort /\ snapshot' = TRUE /\ conflict' = TRUE
                                /\ UNCHANGED cursor
                           ELSE /\ Advance /\ snapshot' = TRUE /\ cursor' = topic
                                /\ UNCHANGED <<held, conflict>>
          /\ UNCHANGED errors
       \/ /\ ~useTime                           \* CreateSnapshot fails
          /\ Fault /\ Abort /\ snapshot' \in BOOLEAN
          /\ UNCHANGED <<cursor, errors, conflict, undeleted>>
    /\ UNCHANGED <<phase, cancelled, round, expected, observed, mismatch, topic, queue, leased,
                   extra, deviant>>

(* SeekToTime or SeekToSnapshot: the connector empties the subscription, drops its leases *)
(* and delivers the topic again from the cursor on.                                       *)
Seek ==
    /\ pc = "seek" /\ ~cancelled
    /\ \/ Advance /\ queue' = topic - cursor + 1 /\ leased' = 0 /\ UNCHANGED <<held, faults>>
       \/ Fault /\ Abort /\ UNCHANGED <<queue, leased>>
    /\ UNCHANGED <<phase, cancelled, round, cursor, errors, expected, observed, mismatch, topic,
                   snapshot, history>>

Off(n) == IF n >= replayCount THEN n - replayCount ELSE replayCount - n

(* recordSeekReplay..., assertReplayCount, and the snapshot of the round is deleted, unless  *)
(* the context is cancelled.  The replay of a snapshot begins with the message at the     *)
(* cursor.                                                                                *)
assertReplayCount ==
    /\ pc = "assert"
    /\ expected' = expected + replayCount /\ observed' = observed + done
    /\ mismatch' = mismatch + (IF Off(done) > Tolerance THEN 1 ELSE 0)
    /\ deviant' = deviant +
          (IF Off(replayCount + extra + (IF useTime THEN 0 ELSE 1)) > Tolerance THEN 1 ELSE 0)
    /\ pc' = "next" /\ done' = 0
    /\ \/ useTime /\ UNCHANGED <<snapshot, faults, undeleted>>
       \/ ~useTime /\ snapshot' \in BOOLEAN /\ DeleteSnapshot(snapshot')
       \/ ~useTime /\ cancelled /\ UNCHANGED <<snapshot, faults, undeleted>>
    /\ UNCHANGED <<phase, cancelled, round, held, cursor, errors, topic, queue, leased, extra,
                   conflict>>

-----------------------------------------------------------------------------
(* The connector: leases run out, also those the worker still holds; messages are lost. *)
LeaseExpires ==
    /\ \/ /\ leased > 0 /\ leased' = leased - 1 /\ queue' = queue + 1
          /\ UNCHANGED <<faults, extra>>
       \/ /\ Fault
          /\ \E n \in 1 .. held :
                /\ queue' = queue + n
                /\ extra' = IF pc = "drainReplay" THEN extra + n ELSE extra
          /\ UNCHANGED leased
    /\ UNCHANGED <<phase, cancelled, worker, topic, snapshot, deviant, conflict, undeleted>>

Lose ==
    /\ Fault
    /\ \E n \in 1 .. queue :
          /\ queue' = queue - n
          /\ extra' = IF pc = "drainReplay" THEN extra - n ELSE extra
    /\ UNCHANGED <<phase, cancelled, worker, topic, leased, snapshot, deviant, conflict, undeleted>>

(* The engine: StopProducers cancels the context and waits for the loop; the reset; the *)
(* second start of the producers, with rounds numbered from 1 again.                    *)
StopProducers ==
    /\ phase \in {"warmup", "measuring"}
    /\ cancelled' = TRUE
    /\ phase' = IF phase = "warmup" THEN "settling" ELSE "draining"
    /\ UNCHANGED <<worker, connector, history>>

ResetAfterWarmup ==
    /\ phase = "settling" /\ pc = "over"
    /\ phase' = "measuring" /\ cancelled' = FALSE
    /\ pc' = "next" /\ round' = 0
    /\ errors' = 0 /\ expected' = 0 /\ observed' = 0 /\ mismatch' = 0 /\ deviant' = 0
    /\ UNCHANGED <<done, held, cursor, connector, extra, conflict, undeleted>>

StopConsumers ==
    /\ phase = "draining" /\ pc = "over"
    /\ phase' = "stopped"
    /\ snapshot' \in BOOLEAN /\ DeleteSnapshot(snapshot')
    /\ UNCHANGED <<cancelled, worker, topic, queue, leased, extra, deviant, conflict>>

-----------------------------------------------------------------------------
Init ==
    /\ phase = "warmup" /\ cancelled = FALSE
    /\ pc = "next" /\ round = 0 /\ done = 0 /\ held = 0 /\ cursor = 0
    /\ errors = 0 /\ expected = 0 /\ observed = 0 /\ mismatch = 0
    /\ topic = 0 /\ queue = 0 /\ leased = 0 /\ snapshot = FALSE /\ faults = 0
    /\ extra = 0 /\ deviant = 0 /\ conflict = FALSE /\ undeleted = FALSE

runRound == publishOne \/ pullOnce \/ Quiescent \/ ack \/ TakeCursor \/ Seek \/ assertReplayCount

Next ==
    \/ roundLoop \/ runRound \/ Cancelled
    \/ LeaseExpires \/ Lose
    \/ StopProducers \/ ResetAfterWarmup \/ StopConsumers

Spec == Init /\ [][Next]_vars

(* The goroutine runs; nobody has to stop the worker, and nothing has to fail. *)
FairSpec == Spec /\ WF_vars(roundLoop) /\ WF_vars(runRound) /\ WF_vars(Cancelled)
-----------------------------------------------------------------------------
(***************************************************************************)
(* The counts of the round driver and of the connector's queue stay        *)
(* natural numbers, and a batch is never larger than asked for.            *)
(***************************************************************************)
TypeOK ==
    /\ phase \in {"warmup", "settling", "measuring", "draining", "stopped"}
    /\ {round, done, cursor, errors, expected, observed, mismatch, topic, queue, leased} \subseteq Nat
    /\ held \in 0 .. PullBatch
    /\ {cancelled, snapshot, conflict, undeleted} \subseteq BOOLEAN

(***************************************************************************)
(* The mismatches the verdict fails on (seek_snapshot.go:283-303) are the  *)
(* rounds in which the connector delivered too much or too little for the  *)
(* seek, and no others: what an aborted round, the warmup or a failed      *)
(* acknowledgement left in the subscription never enters the count.        *)
(***************************************************************************)
MismatchExact == mismatch = deviant

(***************************************************************************)
(* No snapshot stands in the way of a round, and none is left behind when  *)
(* the worker stops, wherever rounds were cut off, unless deleting it      *)
(* failed (seek_snapshot.go:209-215, 264-270, 484-494).                    *)
(***************************************************************************)
SnapshotsCleanedUp == conflict \/ (phase = "stopped" /\ snapshot) => undeleted

(***************************************************************************)
(* A round driver that is told to stop does, from wherever it is in a      *)
(* round: StopProducers does not run into its timeout because of it        *)
(* (seek_snapshot.go:144-161).                                             *)
(***************************************************************************)
DriverStops == cancelled ~> (pc = "over" \/ ~cancelled)
=============================================================================
