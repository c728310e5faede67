-------------------------- MODULE SeekSnapshotProofs --------------------------
(***************************************************************************)
(* Theorems about the seek_snapshot worker, for every replay count, batch  *)
(* size and number of rounds and faults.                                   *)
(***************************************************************************)
EXTENDS SeekSnapshot, TLAPS

Phases == {"warmup", "settling", "measuring", "draining", "stopped"}
Published == {"drainReplaySet", "seek"}
Before == {"baseline", "drainBaseline", "cursor", "replaySet"} \cup Published
Labels == {"next", "over", "drainReplay", "assert"} \cup Before

(* The replay of a snapshot begins one message earlier. *)
Shift == IF useTime THEN 0 ELSE 1

(* What is counted, and what is not. *)
Numbers ==
    /\ round \in Nat /\ done \in Nat /\ held \in 0 .. PullBatch /\ cursor \in Nat
    /\ errors \in Nat /\ expected \in Nat /\ observed \in Nat /\ mismatch \in Nat
    /\ topic \in Nat /\ queue \in Nat /\ leased \in Nat /\ faults \in Nat
    /\ extra \in Int /\ deviant \in Nat

Modes ==
    /\ phase \in Phases /\ pc \in Labels
    /\ cancelled \in BOOLEAN /\ snapshot \in BOOLEAN /\ conflict \in BOOLEAN
    /\ undeleted \in BOOLEAN

(***************************************************************************)
(* The messages from the cursor on are the ones published since, and once  *)
(* the seek has put them back into the subscription what is drained and    *)
(* what is left of them add up, but for what the connector added or lost.  *)
(***************************************************************************)
Replay ==
    /\ pc \in Before => extra = 0
    /\ pc = "replaySet" => topic + 1 - cursor = done + Shift /\ done < replayCount
    /\ pc \in Published => topic + 1 - cursor = replayCount + Shift
    /\ pc = "drainReplay" => leased = 0 /\ done + queue = replayCount + extra + Shift
    /\ pc = "assert" => done = replayCount + extra + Shift

Snapshots ==
    /\ conflict => undeleted
    /\ phase = "stopped" => pc = "over" /\ (snapshot => undeleted)

IInv == Numbers /\ Modes /\ Replay /\ MismatchExact /\ Snapshots

-----------------------------------------------------------------------------
LEMMA ReplayCountPositive == replayCount \in Nat /\ replayCount > 0
<1> DEFINE S == {SeekReplayCount, 1}
<1>1. \E x \in S : \A y \in S : x >= y
  BY SeekAssumption
<1>2. Max(S) \in S /\ \A y \in S : Max(S) >= y
  BY <1>1, Zenon DEF Max
<1>3. replayCount \in Int /\ replayCount >= 1
  BY <1>2, SeekAssumption DEF replayCount
<1> QED BY <1>3

LEMMA BaselinePositive == baselineCount \in Int
<1> DEFINE S == {replayCount \div 10, 5}
<1>1. replayCount \div 10 \in Int
  BY ReplayCountPositive
<1>2. \E x \in S : \A y \in S : x >= y
  BY <1>1
<1>3. Max(S) \in S
  BY <1>2, Zenon DEF Max
<1> QED BY <1>1, <1>3 DEF baselineCount

(* A pull takes no more than there is, and no more than asked for. *)
LEMMA BatchBounded ==
    ASSUME queue \in Nat
    PROVE  Batch \in Nat /\ Batch <= queue /\ Batch <= PullBatch
<1> DEFINE S == {queue, PullBatch}
<1>1. \E x \in S : \A y \in S : x <= y
  BY SeekAssumption
<1>2. Min(S) \in S /\ \A y \in S : Min(S) <= y
  BY <1>1, Zenon DEF Min
<1> QED BY <1>2, SeekAssumption, Zenon DEF Batch

LEMMA SameShift == round' = round => Shift' = Shift
  BY Zenon DEF Shift, useTime

LEMMA ShiftType == Shift \in Nat /\ Shift <= 1
  BY DEF Shift

LEMMA InitInductive == Init => IInv
<1> SUFFICES ASSUME Init PROVE IInv
  BY Zenon
<1>1. Numbers
  BY SeekAssumption DEF Init, Numbers
<1>2. Modes
  BY Zenon DEF Init, Modes, Phases, Labels
<1>3. Replay /\ MismatchExact /\ Snapshots
  BY Zenon DEF Init, Replay, MismatchExact, Snapshots, Before, Published
<1> QED BY <1>1, <1>2, <1>3, Zenon DEF IInv

-----------------------------------------------------------------------------
(* The driver between rounds, and a round that is cut off. *)
LEMMA RoundStep ==
    ASSUME IInv, roundLoop \/ Cancelled
    PROVE  IInv'
<1>a. Numbers /\ Modes /\ Replay /\ MismatchExact /\ Snapshots /\ 0 \in 0 .. PullBatch
  BY SeekAssumption DEF IInv
<1> USE DEF connector, history, Abort
<1>1. CASE roundLoop
  <2>1. Numbers'
    BY <1>1, <1>a DEF roundLoop, Numbers
  <2>4. Modes'
    BY <1>1, <1>a, Zenon DEF roundLoop, Modes, Labels, Before
  <2>2. Replay'
    BY <1>1, <1>a, Zenon DEF roundLoop, Replay, Before, Published
  <2>3. MismatchExact' /\ Snapshots'
    BY <1>1, <1>a, Zenon DEF roundLoop, MismatchExact, Snapshots
  <2> QED BY <2>1, <2>2, <2>3, <2>4, Zenon DEF IInv
<1>2. CASE Cancelled
  <2>0. PICK n \in {0, 1} : topic' = topic + n /\ queue' = queue + n
    BY <1>2, Zenon DEF Cancelled
  <2>1. Numbers'
    BY <1>2, <1>a, <2>0 DEF Cancelled, Numbers
  <2>4. Modes'
    BY <1>2, <1>a, Zenon DEF Cancelled, Modes, Labels
  <2>2. Replay'
    BY <1>2, Zenon DEF Cancelled, Replay, Before, Published
  <2>3. MismatchExact' /\ Snapshots'
    BY <1>2, <1>a, Zenon DEF Cancelled, MismatchExact, Snapshots
  <2> QED BY <2>1, <2>2, <2>3, <2>4, Zenon DEF IInv
<1> QED BY <1>1, <1>2, Zenon

LEMMA PublishStep ==
    ASSUME IInv, publishOne
    PROVE  IInv'
<1>a. Numbers /\ Modes /\ Replay /\ MismatchExact /\ Snapshots /\ 0 \in 0 .. PullBatch
  BY SeekAssumption DEF IInv
<1>b. Shift' = Shift /\ Shift \in Nat /\ replayCount \in Nat
  BY SameShift, ShiftType, ReplayCountPositive, Zenon DEF publishOne
<1> USE DEF history
<1>1. CASE pc' = "next"
  <2>1. Abort /\ faults' \in Nat /\ errors' \in Nat /\ topic' \in Nat /\ queue' \in Nat
    BY <1>1, <1>a DEF publishOne, Fault, Numbers, Advance, Following
  <2>2. Numbers'
    BY <1>a, <2>1, Zenon DEF publishOne, Abort, Numbers
  <2>4. Modes'
    BY <1>a, <2>1, Zenon DEF publishOne, Abort, Modes, Labels
  <2>3. Replay' /\ MismatchExact' /\ Snapshots'
    BY <1>1, <1>a, Zenon DEF publishOne, Replay, MismatchExact, Snapshots, Before, Published
  <2> QED BY <2>2, <2>3, <2>4, Zenon DEF IInv
<1>2. CASE pc' # "next"
  <2>1. /\ topic' = topic + 1 /\ queue' = queue + 1
        /\ IF done + 1 = Wanted THEN Advance ELSE done' = done + 1 /\ UNCHANGED pc
        /\ UNCHANGED <<held, errors, faults>>
    BY <1>2, Zenon DEF publishOne, Abort
  <2>2. Numbers'
    BY <1>a, <2>1 DEF publishOne, Advance, Numbers
  <2>8. Modes'
    BY <1>a, <2>1, Zenon DEF publishOne, Advance, Following, Modes, Labels, Before, Published
  <2>7. Replay'
    <3>0. pc \in {"baseline", "replaySet"}
      BY Zenon DEF publishOne
    <3>1. CASE pc = "baseline"
      BY <1>a, <2>1, <3>1, Zenon DEF publishOne, Advance, Following, Replay, Before, Published
    <3>2. CASE pc = "replaySet"
      <4>1. Wanted = replayCount /\ extra' = extra /\ extra = 0 /\ cursor' = cursor
        BY <1>a, <3>2, Zenon DEF Wanted, publishOne, Replay, Before
      <4>2. topic' + 1 - cursor' = (done + 1) + Shift
        BY <1>a, <1>b, <2>1, <3>2, <4>1 DEF Replay, Numbers
      <4>3. CASE done + 1 = Wanted
        <5>1. pc' = "drainReplaySet"
          BY <2>1, <3>2, <4>3, Zenon DEF Advance, Following
        <5> QED BY <1>b, <4>1, <4>2, <4>3, <5>1, Zenon DEF Replay, Before, Published
      <4>4. CASE done + 1 # Wanted
        <5>1. pc' = "replaySet" /\ done' = done + 1 /\ done + 1 < replayCount
          BY <1>a, <1>b, <2>1, <3>2, <4>1, <4>4 DEF Replay, Numbers
        <5> QED BY <1>b, <4>1, <4>2, <5>1, ReplayCountPositive, Zenon
                DEF Replay, Before, Published, replayCount
      <4> QED BY <4>3, <4>4, Zenon
    <3> QED BY <3>0, <3>1, <3>2, Zenon
  <2>5. MismatchExact' /\ Snapshots'
    BY <1>a, Zenon DEF publishOne, MismatchExact, Snapshots
  <2> QED BY <2>2, <2>5, <2>7, <2>8, Zenon DEF IInv
<1> QED BY <1>1, <1>2, Zenon

-----------------------------------------------------------------------------
(* The drains: what is pulled moves from the queue to the count. *)
LEMMA PullStep ==
    ASSUME IInv, pullOnce
    PROVE  IInv'
<1>a. Numbers /\ Modes /\ Replay /\ MismatchExact /\ Snapshots /\ 0 \in 0 .. PullBatch
  BY SeekAssumption DEF IInv
<1>b. Shift' = Shift /\ Shift \in Nat /\ replayCount \in Nat
  BY SameShift, ShiftType, ReplayCountPositive, Zenon DEF pullOnce
<1> USE DEF history
<1>1. MismatchExact' /\ Snapshots'
  BY <1>a, Zenon DEF pullOnce, MismatchExact, Snapshots, Draining
<1>2. ASSUME Fault, Abort, errors' = errors + 1, UNCHANGED queue
      PROVE  IInv'
  <2>1. Numbers'
    BY <1>a, <1>2 DEF pullOnce, Fault, Abort, Numbers
  <2>2. Modes'
    BY <1>a, <1>2, Zenon DEF pullOnce, Abort, Modes, Labels
  <2>3. Replay'
    BY <1>2, Zenon DEF Abort, Replay, Before, Published
  <2> QED BY <1>1, <2>1, <2>2, <2>3, Zenon DEF IInv
<1>3. ASSUME NEW n \in 1 .. Batch,
             queue' = queue - n, held' = n, done' = done + n, UNCHANGED <<pc, errors, faults>>
      PROVE  IInv'
  <2>0. n \in Nat /\ n <= queue /\ n <= PullBatch /\ PullBatch \in Nat
    BY <1>a, BatchBounded, SeekAssumption DEF Numbers
  <2>1. Numbers'
    BY <1>a, <1>3, <2>0 DEF pullOnce, Numbers
  <2>2. Modes'
    BY <1>a, <1>3, Zenon DEF pullOnce, Modes
  <2>4. pc \notin {"replaySet", "assert"} /\ UNCHANGED <<pc, topic, cursor, leased, extra>>
    BY <1>3, Zenon DEF pullOnce, Draining
  <2>3. Replay'
    BY <1>a, <1>b, <1>3, <2>0, <2>4, ReplayCountPositive
       DEF Numbers, Replay, Before, Published, replayCount
  <2> QED BY <1>1, <2>1, <2>2, <2>3, Zenon DEF IInv
<1> QED BY <1>2, <1>3, Zenon DEF pullOnce

LEMMA QuiescentStep ==
    ASSUME IInv, Quiescent
    PROVE  IInv'
<1>a. Numbers /\ Modes /\ Replay /\ MismatchExact /\ Snapshots
  BY Zenon DEF IInv
<1>b. Shift' = Shift /\ Shift \in Nat /\ replayCount \in Nat
  BY SameShift, ShiftType, ReplayCountPositive, Zenon DEF Quiescent
<1> USE DEF history, connector
<1>1. MismatchExact' /\ Snapshots'
  BY <1>a, Zenon DEF Quiescent, MismatchExact, Snapshots, Draining
<1>2. Numbers'
  BY <1>a, Zenon DEF Quiescent, Advance, Numbers
<1>3. /\ pc = "drainBaseline" => pc' = "cursor"
      /\ pc = "drainReplaySet" => pc' = "seek"
      /\ pc = "drainReplay" => pc' = "assert" /\ done' = done
      /\ pc \in {"drainBaseline", "drainReplaySet", "drainReplay"}
  BY Zenon DEF Quiescent, Draining, Advance, Following
<1>4. Modes'
  BY <1>a, <1>3, Zenon DEF Quiescent, Modes, Labels, Before, Published
<1>5. queue = 0 /\ UNCHANGED <<topic, cursor, extra>>
  BY Zenon DEF Quiescent
<1>6. Replay'
  <2>1. CASE pc = "drainBaseline"
    BY <1>a, <1>3, <1>5, <2>1, Zenon DEF Replay, Before, Published
  <2>2. CASE pc = "drainReplaySet"
    BY <1>a, <1>b, <1>3, <1>5, <2>2, ReplayCountPositive, Zenon
       DEF Replay, Before, Published, replayCount
  <2>3. CASE pc = "drainReplay"
    <3>1. done = replayCount + extra + Shift
      BY <1>a, <1>b, <1>5, <2>3 DEF Replay, Numbers
    <3> QED BY <1>b, <1>3, <1>5, <2>3, <3>1, ReplayCountPositive, Zenon
            DEF Replay, Before, Published, replayCount
  <2> QED BY <1>3, <2>1, <2>2, <2>3, Zenon
<1> QED BY <1>1, <1>2, <1>4, <1>6 DEF IInv

LEMMA AckStep ==
    ASSUME IInv, ack
    PROVE  IInv'
<1>a. Numbers /\ Modes /\ Replay /\ MismatchExact /\ Snapshots /\ 0 \in 0 .. PullBatch
  BY SeekAssumption DEF IInv
<1>b. Shift' = Shift /\ Shift \in Nat /\ replayCount \in Nat
  BY SameShift, ShiftType, ReplayCountPositive, Zenon DEF ack
<1> USE DEF history
<1>1. MismatchExact' /\ Snapshots'
  BY <1>a, Zenon DEF ack, MismatchExact, Snapshots, Draining
<1>2. Numbers'
  BY <1>a DEF ack, Advance, Abort, Fault, Numbers
<1>3. /\ pc' # "next" /\ pc' # pc =>
            \/ pc = "drainBaseline" /\ pc' = "cursor"
            \/ pc = "drainReplaySet" /\ pc' = "seek"
      /\ pc' = pc => done' = done /\ leased' = leased
      /\ pc \in {"drainBaseline", "drainReplaySet", "drainReplay"}
  BY Zenon DEF ack, Draining, Enough, Advance, Abort, Following
<1>4. Modes'
  BY <1>a, <1>3, Zenon DEF ack, Modes, Labels, Before, Published
<1>5. UNCHANGED <<topic, cursor, extra, queue>>
  BY Zenon DEF ack
<1>6. Replay'
  <2>1. CASE pc' = "next"
    BY <2>1, Zenon DEF Replay, Before, Published
  <2>2. CASE pc' # "next"
    BY <1>a, <1>b, <1>3, <1>5, <2>2, ReplayCountPositive, Zenon
       DEF Replay, Before, Published, replayCount
  <2> QED BY <2>1, <2>2, Zenon
<1> QED BY <1>1, <1>2, <1>4, <1>6 DEF IInv

-----------------------------------------------------------------------------
(* The cursor is set at the end of the topic, and the seek goes back to it. *)
LEMMA CursorStep ==
    ASSUME IInv, TakeCursor
    PROVE  IInv'
<1>a. Numbers /\ Modes /\ Replay /\ MismatchExact /\ Snapshots /\ 0 \in 0 .. PullBatch
  BY SeekAssumption DEF IInv
<1>b. Shift' = Shift /\ replayCount \in Nat /\ replayCount > 0
  BY SameShift, ReplayCountPositive, Zenon DEF TakeCursor
<1>1. MismatchExact'
  BY <1>a, Zenon DEF TakeCursor, MismatchExact
<1>2. Snapshots'
  BY <1>a DEF TakeCursor, Snapshots, DeleteBeforeCreate, DeleteSnapshot
<1>3. Numbers'
  BY <1>a DEF TakeCursor, DeleteBeforeCreate, DeleteSnapshot, Fault, Abort, Advance, Numbers
<1>4. Modes'
  BY <1>a, Zenon DEF TakeCursor, DeleteBeforeCreate, DeleteSnapshot, Abort, Advance, Following, Modes,
              Labels, Before
<1>5. Replay'
  <2>1. CASE pc' = "next"
    BY <2>1 DEF Replay, Before, Published
  <2>2. CASE pc' # "next"
    <3>1. /\ pc' = "replaySet" /\ done' = 0 /\ topic' = topic /\ extra' = extra
          /\ cursor' = IF useTime THEN topic + 1 ELSE topic
      BY <2>2, Zenon DEF TakeCursor, Abort, Advance, Following
    <3>2. topic' + 1 - cursor' = done' + Shift'
      BY <1>a, <1>b, <3>1 DEF Shift, Numbers
    <3>3. extra' = 0
      BY <1>a, <3>1, Zenon DEF TakeCursor, Replay, Before
    <3> QED BY <1>b, <3>1, <3>2, <3>3, Zenon DEF Replay, Before, Published, replayCount
  <2> QED BY <2>1, <2>2
<1> QED BY <1>1, <1>2, <1>3, <1>4, <1>5, Zenon DEF IInv

LEMMA SeekStep ==
    ASSUME IInv, Seek
    PROVE  IInv'
<1>a. Numbers /\ Modes /\ Replay /\ MismatchExact /\ Snapshots /\ 0 \in 0 .. PullBatch
  BY SeekAssumption DEF IInv
<1>b. Shift' = Shift /\ Shift \in Nat /\ replayCount \in Nat
  BY SameShift, ShiftType, ReplayCountPositive, Zenon DEF Seek
<1> USE DEF history
<1>1. MismatchExact' /\ Snapshots'
  BY <1>a, Zenon DEF Seek, MismatchExact, Snapshots
<1>2. topic - cursor + 1 = replayCount + Shift /\ extra = 0
  BY <1>a, <1>b DEF Seek, Replay, Numbers, Before, Published
<1>3. Numbers'
  BY <1>a, <1>b, <1>2 DEF Seek, Fault, Abort, Advance, Numbers
<1>4. Modes'
  BY <1>a, Zenon DEF Seek, Abort, Advance, Following, Modes, Labels
<1>5. Replay'
  <2>1. CASE pc' = "next"
    BY <2>1 DEF Replay, Before, Published
  <2>2. CASE pc' # "next"
    <3>1. /\ pc' = "drainReplay" /\ done' = 0 /\ leased' = 0 /\ extra' = extra
          /\ queue' = topic - cursor + 1
      BY <2>2, Zenon DEF Seek, Abort, Advance, Following
    <3>2. done' + queue' = replayCount + extra' + Shift'
      BY <1>b, <1>2, <3>1
    <3> QED BY <3>1, <3>2, Zenon DEF Replay, Before, Published, replayCount
  <2> QED BY <2>1, <2>2
<1> QED BY <1>1, <1>3, <1>4, <1>5 DEF IInv

(* A round is counted as a mismatch when its replay is off, and only then. *)
LEMMA AssertStep ==
    ASSUME IInv, assertReplayCount
    PROVE  IInv'
<1>a. Numbers /\ Modes /\ Replay /\ MismatchExact /\ Snapshots
  BY DEF IInv
<1>b. Shift \in Nat /\ replayCount \in Nat
  BY ShiftType, ReplayCountPositive, Zenon
<1>1. done = replayCount + extra + (IF useTime THEN 0 ELSE 1)
  BY <1>a, Zenon DEF assertReplayCount, Replay, Shift
<1>2. MismatchExact'
  BY <1>a, <1>1, Zenon DEF assertReplayCount, MismatchExact
<1>3. Snapshots'
  BY <1>a, Zenon DEF assertReplayCount, Snapshots, DeleteSnapshot
<1>4. Numbers'
  BY <1>a, <1>b DEF assertReplayCount, DeleteSnapshot, Fault, Numbers
<1>5. Modes'
  BY <1>a, Zenon DEF assertReplayCount, DeleteSnapshot, Modes, Labels
<1>6. Replay'
  BY Zenon DEF assertReplayCount, Replay, Before, Published
<1> QED BY <1>2, <1>3, <1>4, <1>5, <1>6 DEF IInv

-----------------------------------------------------------------------------
(* The connector: a lease that runs out during the replay is none of the worker's, since the *)
(* seek has dropped those of the rounds before.                                              *)
LEMMA ConnectorStep ==
    ASSUME IInv, LeaseExpires \/ Lose
    PROVE  IInv'
<1>a. Numbers /\ Modes /\ Replay /\ MismatchExact /\ Snapshots
  BY Zenon DEF IInv
<1>b. Shift' = Shift /\ Shift \in Nat /\ replayCount \in Nat
  BY SameShift, ShiftType, ReplayCountPositive, Zenon DEF LeaseExpires, Lose, worker
<1>c. UNCHANGED <<phase, cancelled, worker, topic, snapshot, deviant, conflict, undeleted>>
  BY Zenon DEF LeaseExpires, Lose
<1> USE DEF worker
<1>1. MismatchExact' /\ Snapshots'
  BY <1>a, <1>c, Zenon DEF MismatchExact, Snapshots
<1>2. Modes'
  BY <1>a, <1>c, Zenon DEF Modes
<1>3. Numbers'
  <2>1. CASE LeaseExpires
    BY <1>a, <2>1 DEF LeaseExpires, Fault, Numbers
  <2>2. CASE Lose
    BY <1>a, <2>2 DEF Lose, Fault, Numbers
  <2> QED BY <2>1, <2>2, Zenon
<1>4. CASE pc = "drainReplay"
  <2>1. leased' = 0 /\ done' + queue' = replayCount + extra' + Shift'
    <3>1. CASE LeaseExpires
      BY <1>a, <1>b, <1>c, <1>4, <3>1 DEF LeaseExpires, Numbers, Replay
    <3>2. CASE Lose
      BY <1>a, <1>b, <1>c, <1>4, <3>2 DEF Lose, Numbers, Replay
    <3> QED BY <3>1, <3>2, Zenon
  <2>2. Replay'
    BY <1>c, <1>4, <2>1, Zenon DEF Replay, Before, Published, replayCount
  <2> QED BY <1>1, <1>2, <1>3, <2>2, Zenon DEF IInv
<1>5. CASE pc # "drainReplay"
  <2>1. extra' = extra
    BY <1>5, Zenon DEF LeaseExpires, Lose
  <2>2. Replay'
    BY <1>a, <1>b, <1>c, <1>5, <2>1, Zenon DEF Replay, Before, Published, replayCount
  <2> QED BY <1>1, <1>2, <1>3, <2>2 DEF IInv
<1> QED BY <1>4, <1>5, Zenon

LEMMA EngineStep ==
    ASSUME IInv, StopProducers \/ ResetAfterWarmup \/ StopConsumers
    PROVE  IInv'
<1>a. Numbers /\ Modes /\ Replay /\ MismatchExact /\ Snapshots
  BY Zenon DEF IInv
<1> USE DEF worker, connector, history
<1>1. CASE StopProducers
  <2>1. Numbers'
    BY <1>a, <1>1, Zenon DEF StopProducers, Numbers
  <2>2. Modes' /\ MismatchExact' /\ Snapshots'
    BY <1>a, <1>1, Zenon DEF StopProducers, Modes, Phases, MismatchExact, Snapshots
  <2>3. Shift' = Shift
    BY <1>1, SameShift, Zenon DEF StopProducers
  <2>4. Replay'
    BY <1>a, <1>1, <2>3, Zenon DEF StopProducers, Replay, replayCount
  <2> QED BY <2>1, <2>2, <2>4, Zenon DEF IInv
<1>2. CASE ResetAfterWarmup
  <2>1. Numbers'
    BY <1>a, <1>2, Zenon DEF ResetAfterWarmup, Numbers
  <2>2. Modes' /\ MismatchExact' /\ Snapshots' /\ Replay'
    BY <1>a, <1>2, Zenon DEF ResetAfterWarmup, Modes, Phases, Labels, MismatchExact, Snapshots, Replay,
                      Before, Published
  <2> QED BY <2>1, <2>2, Zenon DEF IInv
<1>3. CASE StopConsumers
  <2>1. Numbers'
    BY <1>a, <1>3 DEF StopConsumers, DeleteSnapshot, Fault, Numbers
  <2>2. Modes' /\ MismatchExact'
    BY <1>a, <1>3, Zenon DEF StopConsumers, DeleteSnapshot, Modes, Phases, MismatchExact
  <2>3. Snapshots' /\ Replay'
    BY <1>a, <1>3 DEF StopConsumers, DeleteSnapshot, Snapshots, Replay, Before, Published
  <2> QED BY <2>1, <2>2, <2>3, Zenon DEF IInv
<1> QED BY <1>1, <1>2, <1>3, Zenon

-----------------------------------------------------------------------------
LEMMA StutterInductive == IInv /\ UNCHANGED vars => IInv'
<1> SUFFICES ASSUME IInv, UNCHANGED vars PROVE IInv'
  BY Zenon
<1> USE DEF IInv, vars, worker, connector, history
<1>1. Numbers' /\ Modes'
  BY Zenon DEF Numbers, Modes
<1>2. Replay'
  BY Zenon DEF Replay, Shift, useTime, replayCount
<1>3. MismatchExact' /\ Snapshots'
  BY Zenon DEF MismatchExact, Snapshots
<1> QED BY <1>1, <1>2, <1>3, Zenon

LEMMA Inductive == Spec => []IInv
<1>1. IInv /\ [Next]_vars => IInv'
  BY RoundStep, PublishStep, PullStep, QuiescentStep, AckStep, CursorStep, SeekStep, AssertStep,
     ConnectorStep, EngineStep, StutterInductive, Zenon DEF Next, runRound
<1> QED BY InitInductive, <1>1, PTL DEF Spec

(***************************************************************************)
(* The counters of a round stay natural numbers and a pulled batch within  *)
(* drainPullBatch, whatever is lost, doubled or cut off.                   *)
(***************************************************************************)
THEOREM TypeCorrect == Spec => []TypeOK
<1>1. IInv => TypeOK
  <2> SUFFICES ASSUME IInv PROVE TypeOK
    BY Zenon
  <2>1. /\ {round, done, cursor, errors, expected, observed, mismatch, topic, queue, leased}
              \subseteq Nat
        /\ held \in 0 .. PullBatch
    BY Zenon DEF IInv, Numbers
  <2>2. phase \in Phases /\ {cancelled, snapshot, conflict, undeleted} \subseteq BOOLEAN
    BY Zenon DEF IInv, Modes
  <2> QED BY <2>1, <2>2, Zenon DEF TypeOK, Phases
<1> QED BY <1>1, Inductive, PTL

(***************************************************************************)
(* For every replay count and batch size, however many rounds are run and  *)
(* calls fail, the seek-replay mismatches the verdict is computed from are *)
(* exactly the rounds whose replay the connector got wrong by more than    *)
(* the tolerance (assertReplayCount, seek_snapshot.go:283-303).            *)
(***************************************************************************)
THEOREM MismatchesReal == Spec => []MismatchExact
<1>1. IInv => MismatchExact
  BY Zenon DEF IInv
<1> QED BY <1>1, Inductive, PTL

(***************************************************************************)
(* For every number of rounds, no snapshot stands in the way of a round or *)
(* outlives the worker unless a DeleteSnapshot failed                      *)
(* (seek_snapshot.go:209-215, 264-270, 484-494).                           *)
(***************************************************************************)
THEOREM SnapshotsRemoved == Spec => []SnapshotsCleanedUp
<1>1. IInv => SnapshotsCleanedUp
  BY Zenon DEF IInv, Snapshots, SnapshotsCleanedUp
<1> QED BY <1>1, Inductive, PTL
=============================================================================
