-------------------------- MODULE LifecycleProofs --------------------------
(***************************************************************************)
(* Theorems about the run lifecycle, for every number of worker groups and *)
(* of runs: type correctness, the inductive invariant and how the steps of *)
(* a run and of its clients keep it, what follows from it, and that Engine *)
(* implements Lifecycle.                                                   *)
(***************************************************************************)
EXTENDS Engine, TLAPS

LEMMA RunsFacts ==
    /\ Runs \subseteq Nat /\ 0 \notin Runs
    /\ \A n \in 0 .. MaxRuns : n # 0 => n \in Runs
    /\ \A n \in 0 .. MaxRuns : n < MaxRuns => n + 1 \in Runs
  BY EngineAssumption DEF Runs

LEMMA StartRunType ==
    ASSUME TypeOK, NEW b \in BOOLEAN, StartRunFromConfig(b)
    PROVE  /\ run' \in 0 .. MaxRuns /\ state' \in States
           /\ verdict' \in Verdicts \cup {"none"} /\ snapshots' \in 0 .. MaxRuns
           /\ bounded' \in [Runs -> BOOLEAN] /\ pc' \in [Runs -> Labels]
  BY EngineAssumption DEF StartRunFromConfig, FreshSnapshots, TypeOK, States, Labels, Runs

(* Every step of a run loop keeps TypeOK. *)
LEMMA LoopType ==
    ASSUME TypeOK, NEW r \in Runs, runLoop(r)
    PROVE  TypeOK'
<1> USE EngineAssumption
        DEF Goto, Step, SetProducers, MoreGroups, LoopFrame, SetError, SetState, mainVars,
        history, engine, loops,
        States, Labels, MainLabels, Groups
<1>1. CASE StartConsumers(r)
  BY <1>1 DEF StartConsumers, TypeOK
<1>2. CASE StartConsumersFails(r)
  <2>1. PICK some \in SUBSET {next[r]} : receivers' = [receivers EXCEPT ![r] = @ \cup some]
    BY <1>2, Zenon DEF StartConsumersFails
  <2>2. some \subseteq Groups
    BY <1>2, <2>1 DEF StartConsumersFails, TypeOK
  <2>3. receivers' \in [Runs -> SUBSET Groups]
    BY <2>1, <2>2, Zenon DEF TypeOK
  <2> QED BY <1>2, <2>3 DEF StartConsumersFails, TypeOK
<1>3. CASE ConsumersStarted(r)
  BY <1>3 DEF ConsumersStarted, TypeOK
<1>4. CASE WaitForConsumerReady(r)
  BY <1>4 DEF WaitForConsumerReady, TypeOK
<1>5. CASE ConsumerReadyTimeout(r)
  BY <1>5 DEF ConsumerReadyTimeout, TypeOK
<1>6. CASE ReturnCancelled(r)
  BY <1>6 DEF ReturnCancelled, TypeOK
<1>7. CASE WarmupStart(r)
  BY <1>7 DEF WarmupStart, TypeOK
<1>8. CASE WarmupStop(r)
  BY <1>8 DEF WarmupStop, TypeOK
<1>9. CASE WarmupReset(r)
  BY <1>9 DEF WarmupReset, TypeOK
<1>10. CASE StartProducers(r)
  BY <1>10 DEF StartProducers, TypeOK
<1>11. CASE SetRunning(r)
  BY <1>11 DEF SetRunning, TypeOK
<1>12. CASE RunEnds(r)
  BY <1>12 DEF RunEnds, TypeOK
<1>13. CASE SetStopping(r)
  BY <1>13 DEF SetStopping, TypeOK
<1>14. CASE StopProducers(r)
  BY <1>14 DEF StopProducers, TypeOK
<1>15. CASE drainToQuiescence(r)
  BY <1>15 DEF drainToQuiescence, TypeOK
<1>16. CASE captureWorkerSnapshots(r)
  <2>1. r \in 0 .. MaxRuns
    BY DEF Runs
  <2> QED BY <1>16, <2>1 DEF captureWorkerSnapshots, TypeOK
<1>17. CASE StopConsumers(r)
  BY <1>17 DEF StopConsumers, TypeOK
<1>18. CASE computeVerdict(r)
  BY <1>18 DEF computeVerdict, TypeOK
<1>19. CASE DeferLocked(r)
  BY <1>19 DEF DeferLocked, TypeOK
<1>20. CASE CloseDone(r)
  <2>1. closes' \in [Runs -> Nat]
    <3> DEFINE k == closing[r]
    <3>1. closes \in [Runs -> Nat] /\ closes' = [closes EXCEPT ![k] = closes[k] + 1]
      BY <1>20, Zenon DEF CloseDone, DoneOf, TypeOK
    <3> HIDE DEF k
    <3>2. CASE k \in Runs
      BY <3>1, <3>2
    <3>3. CASE k \notin Runs
      BY <3>1, <3>3, Zenon
    <3> QED BY <3>2, <3>3, Zenon
  <2>2. exitCode' \in -1 .. 2
    BY <1>20 DEF CloseDone, DoneOf, TypeOK
  <2>3. pc' \in [Runs -> Labels]
    BY <1>20, Zenon DEF CloseDone, DoneOf, TypeOK
  <2> QED BY <1>20, <2>1, <2>2, <2>3 DEF CloseDone, DoneOf, TypeOK
<1> QED BY <1>1, <1>2, <1>3, <1>4, <1>5, <1>6, <1>7, <1>8, <1>9, <1>10, <1>11,
           <1>12, <1>13, <1>14, <1>15, <1>16, <1>17, <1>18, <1>19, <1>20, Zenon DEF runLoop

(* So does every step of main. *)
LEMMA MainType ==
    ASSUME TypeOK, Main
    PROVE  TypeOK'
<1> USE EngineAssumption
        DEF MainStep, MainMove, CanStart, Active, HasWarnings, mainVars, history, engine,
        loops, States, MainLabels
<1>1. CASE MainStart
  <2>1. main' \in MainLabels
    BY <1>1, Zenon DEF MainStart
  <2>2. CASE runFlag
    <3>1. timed \in BOOLEAN /\ StartRunFromConfig(timed)
      BY <1>1, <2>2, Zenon DEF MainStart, TypeOK
    <3>2. /\ run' \in 0 .. MaxRuns /\ state' \in States
          /\ verdict' \in Verdicts \cup {"none"} /\ snapshots' \in 0 .. MaxRuns
          /\ bounded' \in [Runs -> BOOLEAN] /\ pc' \in [Runs -> Labels]
      BY <3>1, StartRunType, Zenon
    <3>3. UNCHANGED <<cancelled, next, closes, closing, receivers, producers, runFlag, timed,
                      awaited, passed, exitCode, timedOut, leftIn, report, outcome, errored>>
      BY <1>1, <3>1, Zenon DEF MainStart, StartRunFromConfig
    <3> QED BY <2>1, <3>2, <3>3 DEF TypeOK
  <2>3. CASE ~runFlag
    BY <1>1, <2>1, <2>3 DEF MainStart, TypeOK
  <2> QED BY <2>2, <2>3, Zenon
<1>2. CASE MainStartFails
  BY <1>2 DEF MainStartFails, TypeOK
<1>3. CASE Signal \/ PollSeesEnd \/ StopServer
  BY <1>3 DEF Signal, PollSeesEnd, StopServer, TypeOK
<1>4. CASE ShutdownReads
  BY <1>4 DEF ShutdownReads, TypeOK
<1>5. CASE ShutdownCancels
  <2>1. cancelled' \in [Runs -> BOOLEAN]
    BY <1>5, Zenon DEF ShutdownCancels, TypeOK
  <2>2. main' \in MainLabels
    BY <1>5, Zenon DEF ShutdownCancels
  <2> QED BY <1>5, <2>1, <2>2 DEF ShutdownCancels, TypeOK
<1>6. CASE ShutdownReturns
  BY <1>6 DEF ShutdownReturns, TypeOK
<1>7. CASE Exit
  BY <1>7 DEF Exit, TypeOK
<1> QED BY <1>1, <1>2, <1>3, <1>4, <1>5, <1>6, <1>7, Zenon DEF Main

LEMMA InitType == Init => TypeOK
<1> SUFFICES ASSUME Init PROVE TypeOK
  BY Zenon
<1>1. 1 \in 1 .. (NumGroups + 1) /\ 0 \in 0 .. MaxRuns /\ -1 \in -1 .. 2
  BY EngineAssumption
<1> QED BY <1>1, Zenon DEF Init, TypeOK, States, Verdicts, Labels, MainLabels

LEMMA NextType == TypeOK /\ [Next]_vars => TypeOK'
<1> SUFFICES ASSUME TypeOK, [Next]_vars PROVE TypeOK'
  BY Zenon
<1> USE DEF mainVars, history, engine, loops
<1>1. CASE handleRunStart
  <2>1. PICK b \in BOOLEAN : StartRunFromConfig(b)
    BY <1>1, Zenon DEF handleRunStart
  <2> QED BY <1>1, <2>1, StartRunType, Zenon DEF handleRunStart, StartRunFromConfig, TypeOK
<1>2. CASE handleRunStop
  BY <1>2, Zenon DEF handleRunStop, TypeOK
<1>3. CASE handleRunReport
  BY <1>3, Zenon DEF handleRunReport, TypeOK
<1>4. ASSUME NEW r \in Runs, runLoop(r) PROVE TypeOK'
  BY <1>4, LoopType, Zenon
<1>5. CASE Main
  BY <1>5, MainType, Zenon
<1>6. CASE UNCHANGED vars
  BY <1>6, Zenon DEF vars, TypeOK
<1> QED BY <1>1, <1>2, <1>3, <1>4, <1>5, <1>6, Zenon DEF Next, Terminated

(***************************************************************************)
(* Type correctness of the lifecycle, for every client.                    *)
(***************************************************************************)
THEOREM TypeCorrect == Spec => []TypeOK
  BY InitType, NextType, PTL DEF Spec

(* Where a run loop is after it returned, before, during and after the measurement. *)
Ended == {"ending", "closing", "done"}
Starting == {"consumers", "ready", "warming", "settling", "warm", "producing"}
Stopping == {"stopping", "draining", "drained", "captured", "judging"}
Producing == {"warming", "producing", "running", "halting", "stopping"}
Receiving == {"ready", "warming", "settling", "warm", "producing", "running", "halting",
              "stopping", "draining", "drained", "captured"}

(* Nothing has happened yet in a run that was not started. *)
Fresh(r) ==
    /\ pc[r] = "none"
    /\ next[r] = 1
    /\ receivers[r] = {}
    /\ outcome[r] = "none"
    /\ errored[r] = FALSE

(* What a run loop has done and left, by where it is. *)
LoopInv(r) ==
    /\ r > run => Fresh(r)
    /\ r <= run => pc[r] # "none"
    /\ r < run => pc[r] \in {"closing", "done"}
    /\ closes[r] = IF pc[r] = "done" THEN 1 ELSE 0
    /\ pc[r] = "closing" => closing[r] = r
    /\ pc[r] = "consumers" => receivers[r] = 1 .. (next[r] - 1)
    /\ pc[r] \in Receiving => receivers[r] = Groups
    /\ pc[r] = "judging" => receivers[r] = {}
    /\ pc[r] \notin Producing => producers[r] = {}
    /\ outcome[r] # "none" => pc[r] \in Ended
    /\ errored[r] => pc[r] \in Ended /\ outcome[r] = "none"
    /\ pc[r] \in Ended => outcome[r] # "none" \/ errored[r] \/ cancelled[r]
    /\ pc[r] \in Ended => receivers[r] = {} \/ errored[r] \/ cancelled[r]

(* e.state is determined by where the current run's loop is. *)
StateInv ==
    /\ run = 0 => state = "idle"
    /\ run # 0 =>
        /\ pc[run] \in Starting => state = "starting"
        /\ pc[run] \in {"running", "halting"} => state = "running"
        /\ pc[run] \in Stopping => state = "stopping"
        /\ pc[run] = "ending" => state = IF errored[run] THEN "error"
                                         ELSE IF outcome[run] = "none" THEN "starting"
                                         ELSE "stopping"
        /\ pc[run] \in {"closing", "done"} => state \in {"stopped", "error"}

VerdictInv ==
    /\ verdict = IF run = 0 THEN "none" ELSE outcome[run]
    /\ verdict # "none" => snapshots = run
    /\ run # 0 => (pc[run] \in {"captured", "judging"} => snapshots = run)

Early == {"init", "waiting", "reading"}
Passing == {"PASSED", "PASSED_WITH_WARNINGS"}

(* What main knows of the run it waits for.  No run starts once main leaves "waiting". *)
MainInv ==
    /\ exitCode # -1 => main = "exited"
    /\ main \in Early => awaited = 0 /\ passed = FALSE /\ leftIn = "none"
    /\ awaited # 0 => awaited = run
    /\ main \notin Early /\ leftIn \in {"running", "starting"} => awaited # 0
    /\ main \notin Early /\ leftIn \in {"idle", "stopped", "error"} => run = 0 \/ pc[run] \in Ended
    /\ ShutDown /\ awaited # 0 => pc[awaited] = "done"
    /\ passed => verdict \in Passing
    /\ ShutDown /\ leftIn # "stopping" => passed = (verdict \in Passing)
    /\ exitCode = 0 => passed /\ verdict = "PASSED"
    /\ exitCode = 2 => passed /\ verdict = "PASSED_WITH_WARNINGS"

IInv ==
    /\ TypeOK
    /\ \A r \in Runs : LoopInv(r)
    /\ StateInv
    /\ VerdictInv
    /\ MainInv

-----------------------------------------------------------------------------
(* Until its deferred function has run, a loop is the current run's. *)
LEMMA LoopIsCurrent ==
    ASSUME IInv, NEW r \in Runs, pc[r] \notin {"none", "closing", "done"}
    PROVE  r = run
<1>1. r \in Nat /\ run \in Nat
  BY RunsFacts DEF IInv, TypeOK
<1>2. LoopInv(r)
  BY Zenon DEF IInv
<1>3. ~(r > run)
  BY <1>2, Zenon DEF LoopInv, Fresh
<1>4. ~(r < run)
  BY <1>2, Zenon DEF LoopInv
<1> QED BY <1>1, <1>3, <1>4

(* A step of one loop keeps what is known of the others. *)
LEMMA OtherLoops ==
    ASSUME IInv, NEW r \in Runs, run' = run,
           \A q \in Runs \ {r} :
              /\ pc'[q] = pc[q] /\ next'[q] = next[q] /\ closes'[q] = closes[q]
              /\ closing'[q] = closing[q] /\ receivers'[q] = receivers[q]
              /\ producers'[q] = producers[q] /\ outcome'[q] = outcome[q]
              /\ errored'[q] = errored[q] /\ cancelled'[q] = cancelled[q],
           LoopInv(r)'
    PROVE  \A q \in Runs : LoopInv(q)'
<1> TAKE q \in Runs
<1>1. LoopInv(q)
  BY Zenon DEF IInv
<1>2. CASE q = r
  BY <1>2, Zenon
<1>3. CASE q # r
  BY <1>1, <1>3 DEF LoopInv, Fresh
<1> QED BY <1>2, <1>3, Zenon

(* A loop that leaves verdict and main alone, and does not come back from its end, keeps MainInv. *)
LEMMA LoopKeepsMain ==
    ASSUME IInv, UNCHANGED <<mainVars, run, verdict>>,
           run # 0 => /\ pc[run] \in Ended => pc'[run] \in Ended
                      /\ pc[run] = "done" => pc'[run] = "done"
    PROVE  MainInv'
  BY Zenon DEF IInv, MainInv, ShutDown, mainVars, Ended

(* Two places of a loop between which e.state does not change. *)
SameStage(from, to) ==
    \/ from \in Starting /\ to \in Starting
    \/ from \in {"running", "halting"} /\ to \in {"running", "halting"}
    \/ from \in Stopping /\ to \in Stopping

LEMMA StateFollows ==
    ASSUME StateInv, VerdictInv, NEW from, NEW to, SameStage(from, to),
           run' = run, run # 0, UNCHANGED <<state, verdict, outcome, errored>>,
           pc[run] = from, pc'[run] = to, snapshots' = snapshots \/ snapshots' = run,
           to = "captured" => snapshots' = run,
           to = "judging" => from \in {"captured", "judging"}
    PROVE  StateInv' /\ VerdictInv'
<1>1. StateInv'
  BY Zenon DEF StateInv, SameStage, Starting, Stopping
<1>2. to \in {"captured", "judging"} => snapshots' = run
  BY Zenon DEF VerdictInv
<1>3. VerdictInv'
  BY <1>2, Zenon DEF VerdictInv
<1> QED BY <1>1, <1>3, Zenon

(* Every step of a run loop but computeVerdict and the close keeps the invariant. *)
LEMMA LoopInductive ==
    ASSUME IInv, TypeOK', NEW r \in Runs, runLoop(r), ~computeVerdict(r), ~CloseDone(r)
    PROVE  IInv'
<1> USE DEF Goto, Step, SetProducers, MoreGroups, LoopFrame, SetError, SetState, history
<1>a. TypeOK /\ LoopInv(r) /\ StateInv /\ VerdictInv
  BY Zenon DEF IInv
<1>b. r \in Nat /\ run \in Nat /\ NumGroups \in Nat
  BY <1>a, RunsFacts, EngineAssumption DEF TypeOK
<1> DEFINE Keeps == /\ UNCHANGED <<mainVars, run, verdict>>
                    /\ \A q \in Runs \ {r} :
                        /\ pc'[q] = pc[q] /\ next'[q] = next[q] /\ closes'[q] = closes[q]
                        /\ closing'[q] = closing[q] /\ receivers'[q] = receivers[q]
                        /\ producers'[q] = producers[q] /\ outcome'[q] = outcome[q]
                        /\ errored'[q] = errored[q] /\ cancelled'[q] = cancelled[q]
                    /\ pc[r] \in Ended => pc'[r] \in Ended
                    /\ pc[r] \notin {"none", "closing", "done"}
<1>c. ASSUME Keeps, LoopInv(r)', r = run => StateInv' /\ VerdictInv'
      PROVE  IInv'
  <2>1. r = run
    BY <1>c, LoopIsCurrent, Zenon
  <2>2. \A q \in Runs : LoopInv(q)'
    BY <1>c, OtherLoops, Zenon
  <2>3. MainInv'
    BY <1>c, <2>1, LoopKeepsMain, Zenon
  <2> QED BY <1>c, <2>1, <2>2, <2>3, Zenon DEF IInv
<1>1. CASE StartConsumers(r)
  <2>1. Keeps
    BY <1>a, <1>1, Zenon DEF StartConsumers, TypeOK, mainVars, Ended
  <2>2. LoopInv(r)'
    BY <1>a, <1>b, <1>1, SMTT(20)
       DEF StartConsumers, TypeOK, LoopInv, Fresh, Ended, Producing, Receiving, Groups
  <2>3. ASSUME r = run PROVE StateInv' /\ VerdictInv'
    <3>1. /\ run' = run /\ run # 0 /\ UNCHANGED <<state, verdict, outcome, errored>>
          /\ pc[run] = "consumers" /\ pc'[run] = "consumers" /\ snapshots' = snapshots
      BY <1>a, <1>1, <2>3, RunsFacts, Zenon DEF StartConsumers, TypeOK
    <3>2. SameStage("consumers", "consumers")
      BY Zenon DEF SameStage, Starting, Stopping
    <3> QED BY <1>a, <3>1, <3>2, StateFollows, Zenon
  <2> HIDE DEF Keeps
  <2> QED BY <1>c, <2>1, <2>2, <2>3, Zenon
<1>2. CASE StartConsumersFails(r)
  <2>a. /\ UNCHANGED <<mainVars, run, verdict, next, closes, closing, producers, outcome, cancelled>>
        /\ pc[r] = "consumers" /\ pc' = [pc EXCEPT ![r] = "ending"]
        /\ errored' = [errored EXCEPT ![r] = TRUE]
    BY <1>2, Zenon DEF StartConsumersFails
  <2>b. \A q \in Runs \ {r} : receivers'[q] = receivers[q]
    BY <1>a, <1>2, Zenon DEF StartConsumersFails, TypeOK
  <2>1. Keeps
    BY <1>a, <2>a, <2>b, Zenon DEF TypeOK, Ended
  <2>2. LoopInv(r)'
    BY <1>a, <1>b, <1>2, Zenon
       DEF StartConsumersFails, TypeOK, LoopInv, Fresh, Ended, Producing, Receiving, Groups
  <2>3. ASSUME r = run PROVE StateInv' /\ VerdictInv'
    <3>1. run' = run /\ run # 0 /\ pc'[run] = "ending" /\ state' = "error" /\ errored'[run] = TRUE
      BY <1>a, <1>2, <2>3, RunsFacts, Zenon DEF StartConsumersFails, TypeOK
    <3>2. StateInv'
      BY <3>1, Zenon DEF StateInv, Starting, Stopping
    <3>3. VerdictInv'
      BY <1>a, <1>2, <2>3, Zenon DEF StartConsumersFails, TypeOK, VerdictInv
    <3> QED BY <3>2, <3>3, Zenon
  <2> HIDE DEF Keeps
  <2> QED BY <1>c, <2>1, <2>2, <2>3
<1>3. CASE ConsumersStarted(r)
  <2>1. Keeps
    BY <1>a, <1>3, Zenon DEF ConsumersStarted, TypeOK, mainVars, Ended
  <2>2. LoopInv(r)'
    <3>1. /\ pc[r] = "consumers" /\ pc'[r] = "ready" /\ next[r] = NumGroups + 1
          /\ UNCHANGED <<run, closes, closing, receivers, producers, outcome, errored, cancelled>>
      BY <1>a, <1>b, <1>3 DEF ConsumersStarted, TypeOK
    <3>2. receivers[r] = Groups
      BY <1>a, <1>b, <3>1 DEF LoopInv, Groups
    <3> QED BY <1>a, <1>b, <3>1, <3>2, Zenon DEF LoopInv, Fresh, Ended, Producing, Receiving
  <2>3. ASSUME r = run PROVE StateInv' /\ VerdictInv'
    <3>1. /\ run' = run /\ run # 0 /\ UNCHANGED <<state, verdict, outcome, errored>>
          /\ pc[run] = "consumers" /\ pc'[run] = "ready" /\ snapshots' = snapshots
      BY <1>a, <1>3, <2>3, RunsFacts, Zenon DEF ConsumersStarted, TypeOK
    <3>2. SameStage("consumers", "ready")
      BY Zenon DEF SameStage, Starting, Stopping
    <3> QED BY <1>a, <3>1, <3>2, StateFollows, Zenon
  <2> HIDE DEF Keeps
  <2> QED BY <1>c, <2>1, <2>2, <2>3
<1>4. CASE WaitForConsumerReady(r)
  <2>1. Keeps
    BY <1>a, <1>4, Zenon DEF WaitForConsumerReady, TypeOK, mainVars, Ended
  <2>2. LoopInv(r)'
    BY <1>a, <1>b, <1>4, Zenon
       DEF WaitForConsumerReady, TypeOK, LoopInv, Fresh, Ended, Producing, Receiving, Groups
  <2>3. ASSUME r = run PROVE StateInv' /\ VerdictInv'
    <3>1. /\ run' = run /\ run # 0 /\ UNCHANGED <<state, verdict, outcome, errored>>
          /\ pc[run] = "ready" /\ pc'[run] = "ready" /\ snapshots' = snapshots
      BY <1>a, <1>4, <2>3, RunsFacts, Zenon DEF WaitForConsumerReady, TypeOK
    <3>2. SameStage("ready", "ready")
      BY Zenon DEF SameStage, Starting, Stopping
    <3> QED BY <1>a, <3>1, <3>2, StateFollows, Zenon
  <2> HIDE DEF Keeps
  <2> QED BY <1>c, <2>1, <2>2, <2>3
<1>5. CASE ConsumerReadyTimeout(r)
  <2>1. Keeps
    BY <1>a, <1>5, Zenon DEF ConsumerReadyTimeout, TypeOK, mainVars, Ended
  <2>2. LoopInv(r)'
    BY <1>a, <1>b, <1>5, Zenon
       DEF ConsumerReadyTimeout, TypeOK, LoopInv, Fresh, Ended, Producing, Receiving, Groups
  <2>3. ASSUME r = run PROVE StateInv' /\ VerdictInv'
    <3>1. run' = run /\ run # 0 /\ pc'[run] = "ending" /\ state' = "error" /\ errored'[run] = TRUE
      BY <1>a, <1>5, <2>3, RunsFacts, Zenon DEF ConsumerReadyTimeout, TypeOK
    <3>2. StateInv'
      BY <3>1 DEF StateInv, Starting, Stopping
    <3>3. VerdictInv'
      BY <1>a, <1>5, <2>3, Zenon DEF ConsumerReadyTimeout, TypeOK, VerdictInv
    <3> QED BY <3>2, <3>3
  <2> HIDE DEF Keeps
  <2> QED BY <1>c, <2>1, <2>2, <2>3
<1>6. CASE ReturnCancelled(r)
  <2>a. /\ cancelled[r] /\ pc[r] \in {"ready", "settling", "warm"} /\ pc'[r] = "ending"
        /\ pc' = [pc EXCEPT ![r] = "ending"]
        /\ UNCHANGED <<state, verdict, snapshots, cancelled, next, closes, closing, receivers,
                       producers, outcome, errored, mainVars, run>>
    BY <1>a, <1>6, Zenon DEF ReturnCancelled, TypeOK
  <2>1. Keeps
    BY <1>a, <2>a, Zenon DEF TypeOK, Ended
  <2>2. LoopInv(r)'
    BY <1>a, <1>b, <2>a, Zenon DEF LoopInv, Fresh, Ended, Producing, Receiving
  <2>3. ASSUME r = run PROVE StateInv' /\ VerdictInv'
    <3>1. run # 0 /\ ~errored[run] /\ outcome[run] = "none"
      BY <1>a, <2>a, <2>3, RunsFacts, Zenon DEF LoopInv, Ended
    <3>2. StateInv'
      BY <1>a, <2>a, <2>3, <3>1, Zenon DEF StateInv, Starting, Stopping
    <3>3. VerdictInv'
      BY <1>a, <2>a, <2>3, Zenon DEF VerdictInv
    <3> QED BY <3>2, <3>3
  <2> HIDE DEF Keeps
  <2> QED BY <1>c, <2>1, <2>2, <2>3
<1>7. CASE WarmupStart(r)
  <2>1. Keeps
    BY <1>a, <1>7, Zenon DEF WarmupStart, TypeOK, mainVars, Ended
  <2>2. LoopInv(r)'
    BY <1>a, <1>b, <1>7, Zenon
       DEF WarmupStart, TypeOK, LoopInv, Fresh, Ended, Producing, Receiving, Groups
  <2>3. ASSUME r = run PROVE StateInv' /\ VerdictInv'
    <3>1. /\ run' = run /\ run # 0 /\ UNCHANGED <<state, verdict, outcome, errored>>
          /\ pc[run] = "ready" /\ pc'[run] = "warming" /\ snapshots' = snapshots
      BY <1>a, <1>7, <2>3, RunsFacts, Zenon DEF WarmupStart, TypeOK
    <3>2. SameStage("ready", "warming")
      BY Zenon DEF SameStage, Starting, Stopping
    <3> QED BY <1>a, <3>1, <3>2, StateFollows, Zenon
  <2> HIDE DEF Keeps
  <2> QED BY <1>c, <2>1, <2>2, <2>3
<1>8. CASE WarmupStop(r)
  <2>1. Keeps
    BY <1>a, <1>8, Zenon DEF WarmupStop, TypeOK, mainVars, Ended
  <2>2. LoopInv(r)'
    BY <1>a, <1>b, <1>8, Zenon
       DEF WarmupStop, TypeOK, LoopInv, Fresh, Ended, Producing, Receiving, Groups
  <2>3. ASSUME r = run PROVE StateInv' /\ VerdictInv'
    <3>1. /\ run' = run /\ run # 0 /\ UNCHANGED <<state, verdict, outcome, errored>>
          /\ pc[run] = "warming" /\ pc'[run] = "settling" /\ snapshots' = snapshots
      BY <1>a, <1>8, <2>3, RunsFacts, Zenon DEF WarmupStop, TypeOK
    <3>2. SameStage("warming", "settling")
      BY Zenon DEF SameStage, Starting, Stopping
    <3> QED BY <1>a, <3>1, <3>2, StateFollows, Zenon
  <2> HIDE DEF Keeps
  <2> QED BY <1>c, <2>1, <2>2, <2>3
<1>9. CASE WarmupReset(r)
  <2>1. Keeps
    BY <1>a, <1>9, Zenon DEF WarmupReset, TypeOK, mainVars, Ended
  <2>2. LoopInv(r)'
    BY <1>a, <1>b, <1>9, Zenon
       DEF WarmupReset, TypeOK, LoopInv, Fresh, Ended, Producing, Receiving, Groups
  <2>3. ASSUME r = run PROVE StateInv' /\ VerdictInv'
    <3>1. /\ run' = run /\ run # 0 /\ UNCHANGED <<state, verdict, outcome, errored>>
          /\ pc[run] = "settling" /\ pc'[run] = "warm" /\ snapshots' = snapshots
      BY <1>a, <1>9, <2>3, RunsFacts, Zenon DEF WarmupReset, TypeOK
    <3>2. SameStage("settling", "warm")
      BY Zenon DEF SameStage, Starting, Stopping
    <3> QED BY <1>a, <3>1, <3>2, StateFollows, Zenon
  <2> HIDE DEF Keeps
  <2> QED BY <1>c, <2>1, <2>2, <2>3
<1>10. CASE StartProducers(r)
  <2>1. Keeps
    BY <1>a, <1>10, Zenon DEF StartProducers, TypeOK, mainVars, Ended
  <2>2. LoopInv(r)'
    BY <1>a, <1>b, <1>10, Zenon
       DEF StartProducers, TypeOK, LoopInv, Fresh, Ended, Producing, Receiving, Groups
  <2>3. ASSUME r = run PROVE StateInv' /\ VerdictInv'
    <3>1. /\ run' = run /\ run # 0 /\ UNCHANGED <<state, verdict, outcome, errored>>
          /\ pc[run] = "warm" /\ pc'[run] = "producing" /\ snapshots' = snapshots
      BY <1>a, <1>10, <2>3, RunsFacts, Zenon DEF StartProducers, TypeOK
    <3>2. SameStage("warm", "producing")
      BY Zenon DEF SameStage, Starting, Stopping
    <3> QED BY <1>a, <3>1, <3>2, StateFollows, Zenon
  <2> HIDE DEF Keeps
  <2> QED BY <1>c, <2>1, <2>2, <2>3
<1>11. CASE SetRunning(r)
  <2>1. Keeps
    BY <1>a, <1>11, Zenon DEF SetRunning, TypeOK, mainVars, Ended
  <2>2. LoopInv(r)'
    BY <1>a, <1>b, <1>11, Zenon
       DEF SetRunning, TypeOK, LoopInv, Fresh, Ended, Producing, Receiving, Groups
  <2>3. ASSUME r = run PROVE StateInv' /\ VerdictInv'
    <3>1. run' = run /\ run # 0 /\ pc'[run] = "running" /\ state' = "running"
      BY <1>a, <1>11, <2>3, RunsFacts, Zenon DEF SetRunning, TypeOK
    <3>2. StateInv'
      BY <3>1, Zenon DEF StateInv, Starting, Stopping
    <3>3. VerdictInv'
      BY <1>a, <1>11, <2>3, Zenon DEF SetRunning, TypeOK, VerdictInv
    <3> QED BY <3>2, <3>3
  <2> HIDE DEF Keeps
  <2> QED BY <1>c, <2>1, <2>2, <2>3
<1>12. CASE RunEnds(r)
  <2>1. Keeps
    BY <1>a, <1>12, Zenon DEF RunEnds, TypeOK, mainVars, Ended
  <2>2. LoopInv(r)'
    BY <1>a, <1>b, <1>12, Zenon
       DEF RunEnds, TypeOK, LoopInv, Fresh, Ended, Producing, Receiving, Groups
  <2>3. ASSUME r = run PROVE StateInv' /\ VerdictInv'
    <3>1. /\ run' = run /\ run # 0 /\ UNCHANGED <<state, verdict, outcome, errored>>
          /\ pc[run] = "running" /\ pc'[run] = "halting" /\ snapshots' = snapshots
      BY <1>a, <1>12, <2>3, RunsFacts, Zenon DEF RunEnds, TypeOK
    <3>2. SameStage("running", "halting")
      BY Zenon DEF SameStage, Starting, Stopping
    <3> QED BY <1>a, <3>1, <3>2, StateFollows, Zenon
  <2> HIDE DEF Keeps
  <2> QED BY <1>c, <2>1, <2>2, <2>3
<1>13. CASE SetStopping(r)
  <2>1. Keeps
    BY <1>a, <1>13, Zenon DEF SetStopping, TypeOK, mainVars, Ended
  <2>2. LoopInv(r)'
    BY <1>a, <1>b, <1>13, Zenon
       DEF SetStopping, TypeOK, LoopInv, Fresh, Ended, Producing, Receiving, Groups
  <2>3. ASSUME r = run PROVE StateInv' /\ VerdictInv'
    <3>1. run' = run /\ run # 0 /\ pc'[run] = "stopping" /\ state' = "stopping"
      BY <1>a, <1>13, <2>3, RunsFacts, Zenon DEF SetStopping, TypeOK
    <3>2. StateInv'
      BY <3>1, Zenon DEF StateInv, Starting, Stopping
    <3>3. VerdictInv'
      BY <1>a, <1>13, <2>3, Zenon DEF SetStopping, TypeOK, VerdictInv
    <3> QED BY <3>2, <3>3
  <2> HIDE DEF Keeps
  <2> QED BY <1>c, <2>1, <2>2, <2>3
<1>14. CASE StopProducers(r)
  <2>1. Keeps
    BY <1>a, <1>14, Zenon DEF StopProducers, TypeOK, mainVars, Ended
  <2>2. LoopInv(r)'
    BY <1>a, <1>b, <1>14, Zenon
       DEF StopProducers, TypeOK, LoopInv, Fresh, Ended, Producing, Receiving, Groups
  <2>3. ASSUME r = run PROVE StateInv' /\ VerdictInv'
    <3>1. /\ run' = run /\ run # 0 /\ UNCHANGED <<state, verdict, outcome, errored>>
          /\ pc[run] = "stopping" /\ pc'[run] = "draining" /\ snapshots' = snapshots
      BY <1>a, <1>14, <2>3, RunsFacts, Zenon DEF StopProducers, TypeOK
    <3>2. SameStage("stopping", "draining")
      BY Zenon DEF SameStage, Starting, Stopping
    <3> QED BY <1>a, <3>1, <3>2, StateFollows, Zenon
  <2> HIDE DEF Keeps
  <2> QED BY <1>c, <2>1, <2>2, <2>3
<1>15. CASE drainToQuiescence(r)
  <2>1. Keeps
    BY <1>a, <1>15, Zenon DEF drainToQuiescence, TypeOK, mainVars, Ended
  <2>2. LoopInv(r)'
    BY <1>a, <1>b, <1>15, Zenon
       DEF drainToQuiescence, TypeOK, LoopInv, Fresh, Ended, Producing, Receiving, Groups
  <2>3. ASSUME r = run PROVE StateInv' /\ VerdictInv'
    <3>1. /\ run' = run /\ run # 0 /\ UNCHANGED <<state, verdict, outcome, errored>>
          /\ pc[run] = "draining" /\ pc'[run] = "drained" /\ snapshots' = snapshots
      BY <1>a, <1>15, <2>3, RunsFacts, Zenon DEF drainToQuiescence, TypeOK
    <3>2. SameStage("draining", "drained")
      BY Zenon DEF SameStage, Starting, Stopping
    <3> QED BY <1>a, <3>1, <3>2, StateFollows, Zenon
  <2> HIDE DEF Keeps
  <2> QED BY <1>c, <2>1, <2>2, <2>3
<1>16. CASE captureWorkerSnapshots(r)
  <2>1. Keeps
    BY <1>a, <1>16, Zenon DEF captureWorkerSnapshots, TypeOK, mainVars, Ended
  <2>2. LoopInv(r)'
    BY <1>a, <1>b, <1>16, Zenon
       DEF captureWorkerSnapshots, TypeOK, LoopInv, Fresh, Ended, Producing, Receiving, Groups
  <2>3. ASSUME r = run PROVE StateInv' /\ VerdictInv'
    <3>1. /\ run' = run /\ run # 0 /\ UNCHANGED <<state, verdict, outcome, errored>>
          /\ pc[run] = "drained" /\ pc'[run] = "captured" /\ snapshots' = run
      BY <1>a, <1>16, <2>3, RunsFacts, Zenon DEF captureWorkerSnapshots, TypeOK
    <3>2. SameStage("drained", "captured")
      BY Zenon DEF SameStage, Starting, Stopping
    <3> QED BY <1>a, <3>1, <3>2, StateFollows, Zenon
  <2> HIDE DEF Keeps
  <2> QED BY <1>c, <2>1, <2>2, <2>3
<1>17. CASE StopConsumers(r)
  <2>1. Keeps
    BY <1>a, <1>17, Zenon DEF StopConsumers, TypeOK, mainVars, Ended
  <2>2. LoopInv(r)'
    BY <1>a, <1>b, <1>17, Zenon
       DEF StopConsumers, TypeOK, LoopInv, Fresh, Ended, Producing, Receiving, Groups
  <2>3. ASSUME r = run PROVE StateInv' /\ VerdictInv'
    <3>1. /\ run' = run /\ run # 0 /\ UNCHANGED <<state, verdict, outcome, errored>>
          /\ pc[run] = "captured" /\ pc'[run] = "judging" /\ snapshots' = snapshots
      BY <1>a, <1>17, <2>3, RunsFacts, Zenon DEF StopConsumers, TypeOK
    <3>2. SameStage("captured", "judging")
      BY Zenon DEF SameStage, Starting, Stopping
    <3> QED BY <1>a, <3>1, <3>2, StateFollows, Zenon
  <2> HIDE DEF Keeps
  <2> QED BY <1>c, <2>1, <2>2, <2>3
<1>18. CASE DeferLocked(r)
  <2>1. Keeps
    BY <1>a, <1>18, Zenon DEF DeferLocked, TypeOK, mainVars, Ended
  <2>2. LoopInv(r)'
    <3>1. /\ pc[r] = "ending" /\ pc'[r] = "closing" /\ closing'[r] = run /\ r = run
          /\ UNCHANGED <<run, verdict, cancelled, next, closes, receivers, producers, outcome,
                         errored>>
      BY <1>a, <1>b, <1>18, LoopIsCurrent, Zenon DEF DeferLocked, TypeOK
    <3> QED BY <1>a, <1>b, <3>1, Zenon DEF LoopInv, Fresh, Ended, Producing, Receiving
  <2>3. ASSUME r = run PROVE StateInv' /\ VerdictInv'
    <3>1. run' = run /\ run # 0 /\ pc'[run] = "closing" /\ state' \in {"stopped", "error"}
      BY <1>a, <1>18, <2>3, RunsFacts, Zenon DEF DeferLocked, TypeOK
    <3>2. StateInv'
      BY <3>1, Zenon DEF StateInv, Starting, Stopping
    <3>3. VerdictInv'
      BY <1>a, <1>18, <2>3, Zenon DEF DeferLocked, TypeOK, VerdictInv
    <3> QED BY <3>2, <3>3
  <2> HIDE DEF Keeps
  <2> QED BY <1>c, <2>1, <2>2, <2>3
<1> QED BY <1>1, <1>2, <1>3, <1>4, <1>5, <1>6, <1>7, <1>8, <1>9, <1>10, <1>11, <1>12, <1>13,
           <1>14, <1>15, <1>16, <1>17, <1>18, Zenon DEF runLoop

(* computeVerdict comes before main can have been told that the run passed. *)
LEMMA VerdictInductive ==
    ASSUME IInv, TypeOK', NEW r \in Runs, computeVerdict(r)
    PROVE  IInv'
<1> USE DEF Goto, LoopFrame, computeVerdict
<1>a. TypeOK /\ LoopInv(r) /\ StateInv /\ VerdictInv /\ MainInv
  BY Zenon DEF IInv
<1>b. r \in Nat /\ run \in Nat
  BY <1>a, RunsFacts DEF TypeOK
<1>c. r = run /\ run # 0 /\ pc[run] = "judging" /\ run' = run
  BY LoopIsCurrent, RunsFacts, Zenon
<1>d. PICK v \in Verdicts : verdict' = v /\ outcome' = [outcome EXCEPT ![r] = v]
  BY Zenon
<1>1. /\ pc'[run] = "ending" /\ outcome'[run] = v /\ v # "none"
      /\ state' = "stopping" /\ errored'[run] = FALSE
  BY <1>a, <1>c, <1>d, Zenon DEF TypeOK, StateInv, LoopInv, Stopping, Ended, Verdicts
<1>2. LoopInv(r)'
  BY <1>a, <1>b, <1>c, <1>1, Zenon DEF TypeOK, LoopInv, Fresh, Ended, Producing, Receiving
<1>3. \A q \in Runs : LoopInv(q)'
  <2>1. \A q \in Runs \ {r} : pc'[q] = pc[q] /\ outcome'[q] = outcome[q]
    BY <1>a, <1>d, Zenon DEF TypeOK
  <2> QED BY <1>2, <2>1, OtherLoops, Zenon
<1>4. StateInv'
  BY <1>c, <1>1, Zenon DEF StateInv, Starting, Stopping
<1>5. VerdictInv'
  BY <1>a, <1>c, <1>d, <1>1, Zenon DEF VerdictInv
<1>6. MainInv'
  <2>1. verdict = "none"
    BY <1>a, <1>c, Zenon DEF VerdictInv, LoopInv, Ended
  <2>2. passed = FALSE
    BY <1>a, <2>1, Zenon DEF MainInv, Passing, TypeOK
  <2>3. UNCHANGED <<mainVars, run>>
    BY Zenon
  <2>4. ~(ShutDown /\ leftIn # "stopping")
    BY <1>a, <1>c, Zenon DEF MainInv, ShutDown, Early, Ended, TypeOK, States
  <2> QED BY <1>a, <1>c, <1>1, <2>2, <2>3, <2>4 DEF MainInv, ShutDown, mainVars, Ended
<1> QED BY <1>3, <1>4, <1>5, <1>6, Zenon DEF IInv

(* The deferred function closes the channel of its own run, which nobody closed before. *)
LEMMA CloseInductive ==
    ASSUME IInv, TypeOK', NEW r \in Runs, CloseDone(r)
    PROVE  IInv'
<1> USE DEF Goto, CloseDone, DoneOf, history, engine
<1>a. TypeOK /\ LoopInv(r) /\ StateInv /\ VerdictInv /\ MainInv
  BY Zenon DEF IInv
<1>b. r \in Nat /\ run \in Nat
  BY <1>a, RunsFacts DEF TypeOK
<1>1. closing[r] = r /\ closes[r] = 0
  BY <1>a, Zenon DEF LoopInv
<1>2. closes' = [closes EXCEPT ![r] = 1] /\ exitCode' = exitCode
  BY <1>a, <1>1 DEF TypeOK
<1>3. LoopInv(r)'
  BY <1>a, <1>b, <1>1, <1>2, Zenon DEF TypeOK, LoopInv, Fresh, Ended, Producing, Receiving
<1>4. \A q \in Runs : LoopInv(q)'
  <2>1. \A q \in Runs \ {r} : pc'[q] = pc[q] /\ closes'[q] = closes[q]
    BY <1>a, <1>2, Zenon DEF TypeOK
  <2> QED BY <1>3, <2>1, OtherLoops, Zenon
<1>5. r = run \/ pc'[run] = pc[run]
  BY <1>a DEF TypeOK
<1>6. StateInv' /\ VerdictInv'
  BY <1>a, <1>5 DEF StateInv, VerdictInv, Starting, Stopping, TypeOK
<1>7. MainInv'
  BY <1>2, <1>5, <1>a, LoopKeepsMain DEF mainVars, Ended, TypeOK
<1> QED BY <1>4, <1>6, <1>7, Zenon DEF IInv

(* A run that starts when the loop before it is past its locked section finds everything fresh. *)
LEMMA StartFindsNoLoop ==
    ASSUME IInv, CanStart, Orderly
    PROVE  run # 0 => pc[run] \in {"closing", "done"}
<1>1. run # 0 => run \in Runs
  BY RunsFacts, Zenon DEF IInv, TypeOK
<1>2. run \in Runs => LoopInv(run) /\ run \in Nat
  BY RunsFacts, Zenon DEF IInv
<1>3. run # 0 => pc[run] \in Labels /\ pc[run] # "none"
  BY <1>1, <1>2 DEF LoopInv, IInv, TypeOK
<1>4. run # 0 => pc[run] \notin Starting \cup Stopping \cup {"running", "halting"}
  BY Zenon DEF IInv, StateInv, CanStart
<1>5. run # 0 => pc[run] # "ending"
  BY <1>1, Zenon DEF IInv, StateInv, CanStart, Orderly
<1> QED BY <1>3, <1>4, <1>5, Zenon DEF Labels, Starting, Stopping

LEMMA StartInductive ==
    ASSUME IInv, TypeOK', NEW b \in BOOLEAN, StartRunFromConfig(b),
           run # 0 => pc[run] \in {"closing", "done"},
           main \in Early, main' \in {"init", "waiting"},
           UNCHANGED <<history, awaited, passed, exitCode, timedOut, leftIn>>
    PROVE  IInv'
<1> USE DEF StartRunFromConfig, FreshSnapshots, CanStart, history
<1>a. TypeOK /\ StateInv /\ VerdictInv /\ MainInv /\ \A q \in Runs : LoopInv(q)
  BY Zenon DEF IInv
<1>b. run \in Nat /\ run' = run + 1 /\ run' \in Runs
  BY <1>a, RunsFacts DEF TypeOK
<1>1. pc'[run'] = "consumers" /\ \A q \in Runs : q # run' => pc'[q] = pc[q]
  BY <1>a, <1>b, Zenon DEF TypeOK
<1>2. ASSUME NEW q \in Runs PROVE LoopInv(q)'
  <2>0. q \in Nat /\ q # 0
    BY RunsFacts, Zenon
  <2>1. q \in Nat /\ LoopInv(q)
    BY <1>a, <2>0, Zenon
  <2> USE DEF LoopInv, Fresh
  <2>2. CASE q = run'
    <3>1. /\ pc[q] = "none" /\ next[q] = 1 /\ receivers[q] = {} /\ outcome[q] = "none"
          /\ errored[q] = FALSE /\ closes[q] = 0 /\ producers[q] = {}
      BY <1>b, <2>1, <2>2 DEF Producing
    <3>2. pc'[q] = "consumers" /\ ~(q > run') /\ ~(q < run')
      BY <1>1, <1>b, <2>2
    <3>3. 1 .. (next[q] - 1) = {}
      BY <3>1
    <3> QED BY <3>1, <3>2, <3>3, Zenon DEF Ended, Receiving
  <2>3. CASE q # run'
    <3>1. pc'[q] = pc[q]
      BY <1>1, <2>3, Zenon
    <3>2. (q > run' => q > run) /\ (q <= run' => q <= run)
      BY <1>b, <2>0, <2>3
    <3>3. q < run' => q < run \/ (q = run /\ run # 0)
      BY <1>b, <2>0
    <3> QED BY <2>1, <3>1, <3>2, <3>3
  <2> QED BY <2>2, <2>3, Zenon
<1>3. outcome[run'] = "none"
  BY <1>a, <1>b DEF LoopInv, Fresh
<1>4. StateInv' /\ VerdictInv'
  BY <1>b, <1>1, <1>3 DEF StateInv, VerdictInv, Starting, Stopping
<1>5. MainInv'
  BY <1>a, <1>b, Zenon DEF MainInv, ShutDown, Early, Passing
<1> QED BY <1>2, <1>4, <1>5, Zenon DEF IInv

(* Cancelling a context, as StopRun and GracefulShutdown do, disturbs nothing else. *)
LEMMA CancelInductive ==
    ASSUME IInv, TypeOK', NEW k,
           cancelled' = [cancelled EXCEPT ![k] = TRUE],
           UNCHANGED <<engine, bounded, pc, next, closes, closing, receivers, producers, history>>,
           MainInv'
    PROVE  IInv'
<1> USE DEF engine, history
<1>1. ASSUME NEW q \in Runs PROVE LoopInv(q)'
  <2>1. LoopInv(q) /\ cancelled \in [Runs -> BOOLEAN]
    BY Zenon DEF IInv, TypeOK
  <2>2. cancelled[q] => cancelled'[q]
    BY <2>1, Zenon
  <2> QED BY <2>1, <2>2, Zenon DEF LoopInv, Fresh
<1>2. StateInv' /\ VerdictInv'
  BY Zenon DEF IInv, StateInv, VerdictInv
<1> QED BY <1>1, <1>2, Zenon DEF IInv

(* Nor does a step of main or of a reader of the report that leaves engine and loops alone. *)
LEMMA QuietInductive ==
    ASSUME IInv, TypeOK', UNCHANGED <<engine, loops, history>>, MainInv'
    PROVE  IInv'
  BY Zenon DEF IInv, LoopInv, Fresh, StateInv, VerdictInv, engine, loops, history

(* Every step of main keeps the invariant. *)
LEMMA MainInductive ==
    ASSUME HastyClient = FALSE, IInv, TypeOK', Main
    PROVE  IInv'
<1> USE DEF MainStep, MainMove, CanStart, Active, HasWarnings
<1>a. TypeOK /\ StateInv /\ VerdictInv /\ MainInv
  BY Zenon DEF IInv
<1>1. CASE MainStart
  <2>1. main \in Early /\ main' = "waiting" /\ timed \in BOOLEAN
    BY <1>1, <1>a, Zenon DEF MainStart, Early, TypeOK
  <2>2. CASE runFlag
    <3>1. Orderly /\ CanStart /\ StartRunFromConfig(timed)
      BY <1>1, <2>2, Zenon DEF MainStart, StartRunFromConfig
    <3>2. run # 0 => pc[run] \in {"closing", "done"}
      BY <3>1, StartFindsNoLoop, Zenon
    <3> QED BY <1>1, <2>1, <3>1, <3>2, StartInductive, Zenon DEF MainStart
  <2>3. CASE ~runFlag
    <3>1. MainInv'
      BY <1>1, <1>a, <2>3, Zenon DEF MainStart, MainInv, ShutDown, Early, engine
    <3> QED BY <1>1, <2>3, <3>1, QuietInductive, Zenon DEF MainStart
  <2> QED BY <2>2, <2>3, Zenon
<1>2. CASE MainStartFails
  <2>1. MainInv'
    BY <1>2, <1>a DEF MainStartFails, MainInv, ShutDown, Early, engine, loops
  <2> QED BY <1>2, <2>1, QuietInductive, Zenon DEF MainStartFails
<1>3. CASE Signal \/ PollSeesEnd
  <2>1. MainInv'
    BY <1>3, <1>a DEF Signal, PollSeesEnd, MainInv, ShutDown, Early, engine, loops
  <2> QED BY <1>3, <2>1, QuietInductive, Zenon DEF Signal, PollSeesEnd
<1>4. CASE ShutdownReads
  <2>1. run = 0 => state = "idle"
    BY <1>a, Zenon DEF StateInv
  <2>2. state \in {"idle", "stopped", "error"} => run = 0 \/ pc[run] \in Ended
    <3>1. run # 0 => run \in Runs
      BY <1>a, RunsFacts, Zenon DEF TypeOK
    <3>2. run \in Runs => LoopInv(run) /\ run \in Nat
      BY RunsFacts, Zenon DEF IInv
    <3>3. run # 0 => pc[run] \in Labels /\ pc[run] # "none"
      BY <1>a, <3>1, <3>2 DEF LoopInv, TypeOK
    <3> QED BY <1>a, <3>3, Zenon DEF StateInv, Starting, Stopping, Ended, Labels
  <2>3. MainInv'
    BY <1>4, <1>a, <2>1, <2>2, Zenon
       DEF ShutdownReads, MainInv, ShutDown, Early, engine, loops, TypeOK, States
  <2> QED BY <1>4, <2>3, QuietInductive, Zenon DEF ShutdownReads
<1>5. CASE ShutdownCancels
  <2>1. MainInv'
    BY <1>5, <1>a, Zenon DEF ShutdownCancels, MainInv, ShutDown, Early, engine
  <2> QED BY <1>5, <2>1, CancelInductive, Zenon DEF ShutdownCancels
<1>6. CASE ShutdownReturns
  <2>1. awaited # 0 /\ closes[awaited] # 0 => pc[awaited] = "done"
    BY <1>a, RunsFacts, Zenon DEF IInv, LoopInv, TypeOK
  <2>2. awaited # 0 => closes[awaited] \in Nat
    BY <1>a, RunsFacts, Zenon DEF TypeOK
  <2>3. MainInv'
    BY <1>6, <1>a, <2>1, <2>2, Zenon
       DEF ShutdownReturns, MainInv, ShutDown, Early, Passing, engine, loops, TypeOK
  <2> QED BY <1>6, <2>3, QuietInductive, Zenon DEF ShutdownReturns
<1>7. CASE StopServer
  <2>1. MainInv'
    BY <1>7, <1>a, Zenon DEF StopServer, MainInv, ShutDown, Early, engine, loops
  <2> QED BY <1>7, <2>1, QuietInductive, Zenon DEF StopServer
<1>8. CASE Exit
  <2>1. MainInv'
    BY <1>8, <1>a DEF Exit, MainInv, ShutDown, Early, Passing, engine, loops
  <2> QED BY <1>8, <2>1, QuietInductive, Zenon DEF Exit
<1> QED BY <1>1, <1>2, <1>3, <1>4, <1>5, <1>6, <1>7, <1>8, Zenon DEF Main

LEMMA InitInductive == Init => IInv
<1> SUFFICES ASSUME Init PROVE IInv
  OBVIOUS
<1>1. TypeOK
  BY InitType, Zenon
<1>2. ASSUME NEW r \in Runs PROVE LoopInv(r)
  <2>1. r \in Nat /\ r # 0
    BY RunsFacts, Zenon
  <2> QED BY <2>1 DEF Init, LoopInv, Fresh, Ended, Producing, Receiving
<1>3. StateInv /\ VerdictInv /\ MainInv
  BY DEF Init, StateInv, VerdictInv, MainInv, ShutDown, Early
<1> QED BY <1>1, <1>2, <1>3, Zenon DEF IInv

(* With an orderly client every step keeps the invariant. *)
LEMMA NextInductive ==
    ASSUME HastyClient = FALSE, IInv, [Next]_vars
    PROVE  IInv'
<1> USE DEF mainVars, history
<1>a. TypeOK /\ StateInv /\ MainInv
  BY Zenon DEF IInv
<1>b. TypeOK'
  BY <1>a, NextType, Zenon
<1>1. CASE handleRunStart
  <2>1. PICK b \in BOOLEAN : StartRunFromConfig(b)
    BY <1>1, Zenon DEF handleRunStart
  <2>2. Orderly /\ CanStart /\ main \in {"init", "waiting"} /\ main' = main
    BY <1>1, <2>1, Zenon DEF handleRunStart, StartRunFromConfig
  <2>3. run # 0 => pc[run] \in {"closing", "done"}
    BY <2>2, StartFindsNoLoop, Zenon
  <2> QED BY <1>1, <1>b, <2>1, <2>2, <2>3, StartInductive, Zenon DEF handleRunStart, Early
<1>2. CASE handleRunStop
  <2>1. MainInv'
    BY <1>2, <1>a, Zenon DEF handleRunStop, MainInv, ShutDown, Early, engine
  <2> QED BY <1>2, <1>b, <2>1, CancelInductive, Zenon DEF handleRunStop
<1>3. CASE handleRunReport
  <2>1. MainInv'
    BY <1>3, <1>a, Zenon DEF handleRunReport, MainInv, ShutDown, Early, engine, loops
  <2> QED BY <1>3, <1>b, <2>1, QuietInductive, Zenon DEF handleRunReport
<1>4. ASSUME NEW r \in Runs, runLoop(r) PROVE IInv'
  BY <1>4, <1>b, LoopInductive, VerdictInductive, CloseInductive, Zenon
<1>5. CASE Main
  BY <1>5, <1>b, MainInductive, Zenon
<1>6. CASE UNCHANGED vars
  <2>1. MainInv'
    BY <1>6, <1>a, Zenon DEF vars, MainInv, ShutDown, engine, loops
  <2> QED BY <1>6, <1>b, <2>1, QuietInductive, Zenon DEF vars
<1> QED BY <1>1, <1>2, <1>3, <1>4, <1>5, <1>6, Zenon DEF Next, Terminated

LEMMA AlwaysInductive ==
    ASSUME HastyClient = FALSE
    PROVE  Spec => []IInv
<1>1. IInv /\ [Next]_vars => IInv'
  BY NextInductive, Zenon
<1> QED BY <1>1, InitInductive, PTL DEF Spec

-----------------------------------------------------------------------------
(***************************************************************************)
(* The state check of StartRunFromConfig keeps runs apart, however many    *)
(* there are and whenever they are stopped, fail or are shut down.         *)
(***************************************************************************)
THEOREM RunsApart ==
    ASSUME HastyClient = FALSE
    PROVE  Spec => []RunsKeptApart
<1>1. IInv => RunsKeptApart
  <2> SUFFICES ASSUME IInv PROVE RunsKeptApart
    BY Zenon
  <2>1. \A r \in Runs : Live(r) => r = run
    BY LoopIsCurrent, Zenon DEF Live
  <2>2. run \in Runs /\ Working(run) => state \notin {"idle", "stopped", "error"}
    BY RunsFacts, Zenon DEF IInv, StateInv, Working, Live, Starting, Stopping, TypeOK, Labels
  <2> QED BY <2>1, <2>2, Zenon DEF RunsKeptApart, Working
<1> QED BY <1>1, AlwaysInductive, PTL

(***************************************************************************)
(* runLoop's deferred close closes each run's channel exactly once.        *)
(***************************************************************************)
THEOREM ClosedOnce ==
    ASSUME HastyClient = FALSE
    PROVE  Spec => []DoneClosedByOwner
<1>1. IInv => DoneClosedByOwner
  BY Zenon DEF IInv, LoopInv, DoneClosedByOwner
<1> QED BY <1>1, AlwaysInductive, PTL

(***************************************************************************)
(* The verdict and the snapshots it was computed from are the current      *)
(* run's own.                                                              *)
(***************************************************************************)
THEOREM OwnVerdict ==
    ASSUME HastyClient = FALSE
    PROVE  Spec => []VerdictIsOwn
<1>1. IInv => VerdictIsOwn
  BY SMTT(20) DEF IInv, VerdictInv, VerdictIsOwn
<1> QED BY <1>1, AlwaysInductive, PTL

(***************************************************************************)
(* Only setError and a cancelled context end a run without a verdict.      *)
(***************************************************************************)
THEOREM VerdictOrReason ==
    ASSUME HastyClient = FALSE
    PROVE  Spec => []NoVerdictExplained
<1>1. IInv => NoVerdictExplained
  BY Zenon DEF IInv, LoopInv, Ended, NoVerdictExplained
<1> QED BY <1>1, AlwaysInductive, PTL

(***************************************************************************)
(* No producer outlives its run, and no receiver does unless setError or a *)
(* cancelled context ended it.                                             *)
(***************************************************************************)
THEOREM NoWorkerLeft ==
    ASSUME HastyClient = FALSE
    PROVE  Spec => []WorkersStopped
<1>1. IInv => WorkersStopped
  BY Zenon DEF IInv, LoopInv, Ended, Producing, WorkersStopped
<1> QED BY <1>1, AlwaysInductive, PTL

(***************************************************************************)
(* Between the producers' stop and the snapshot all receivers are up,      *)
(* unless the run was cancelled.                                           *)
(***************************************************************************)
THEOREM DrainComplete ==
    ASSUME HastyClient = FALSE
    PROVE  Spec => []DrainsWithReceivers
<1>1. IInv => DrainsWithReceivers
  BY Zenon DEF IInv, LoopInv, Receiving, Producing, DrainsWithReceivers
<1> QED BY <1>1, AlwaysInductive, PTL

(***************************************************************************)
(* The exit status tells the current run's verdict.                        *)
(***************************************************************************)
THEOREM ExitTruthful ==
    ASSUME HastyClient = FALSE
    PROVE  Spec => []ExitCodeTruthful
<1>1. IInv => ExitCodeTruthful
  BY Zenon DEF IInv, MainInv, VerdictInv, ExitCodeTruthful
<1> QED BY <1>1, AlwaysInductive, PTL

(***************************************************************************)
(* Unless it found the engine stopping, GracefulShutdown returns when the  *)
(* run has ended, with that run's outcome.                                 *)
(***************************************************************************)
THEOREM ShutdownFaithful ==
    ASSUME HastyClient = FALSE
    PROVE  Spec => []ShutdownWaitsForRun
<1>1. IInv => ShutdownWaitsForRun
  <2> SUFFICES ASSUME IInv, ShutDown, leftIn # "stopping"
               PROVE  /\ \A r \in Runs : ~Working(r)
                      /\ run # 0 => (passed <=> outcome[run] \in Passing)
    BY Zenon DEF ShutdownWaitsForRun, Passing
  <2>1. run = 0 \/ pc[run] \in Ended
    BY Zenon DEF IInv, MainInv, ShutDown, Early, Ended, TypeOK, States
  <2>2. \A r \in Runs : ~Working(r)
    BY <2>1, LoopIsCurrent, RunsFacts, Zenon DEF Working, Live, Ended
  <2>3. run # 0 => (passed <=> outcome[run] \in Passing)
    BY Zenon DEF IInv, MainInv, VerdictInv
  <2> QED BY <2>2, <2>3, Zenon
<1> QED BY <1>1, AlwaysInductive, PTL

(* What Lifecycle sees of the engine. *)
StatusOf == [r \in Runs |-> Status(r)]

LEMMA SameRuns == L!Runs = Runs /\ L!Verdicts = Verdicts
  BY Zenon DEF L!Runs, Runs, L!Verdicts, Verdicts

(* A step that moves no loop into or out of a part of its life is invisible. *)
LEMMA Invisible ==
    ASSUME \A r \in Runs : Status(r)' = Status(r), outcome' = outcome, exitCode' = exitCode
    PROVE  UNCHANGED L!vars
<1>1. StatusOf' = StatusOf
  BY Zenon DEF StatusOf
<1> QED BY <1>1, Zenon DEF L!vars, StatusOf

LEMMA InitImplements == Init => L!Init
<1> SUFFICES ASSUME Init PROVE L!Init
  OBVIOUS
<1>1. \A r \in Runs : Status(r) = "none"
  BY Zenon DEF Init, Status
<1> QED BY <1>1, SameRuns, Zenon DEF Init, L!Init

-----------------------------------------------------------------------------
(* Which runs are over when another can start, and which have not started. *)
LEMMA StatusByNumber ==
    ASSUME IInv, NEW q \in Runs
    PROVE  /\ q > run => Status(q) = "none"
           /\ q <= run => Status(q) # "none"
           /\ q < run => Status(q) = "over"
<1>1. q \in Nat /\ run \in Nat /\ LoopInv(q)
  BY RunsFacts DEF IInv, TypeOK
<1> QED BY <1>1, Zenon DEF LoopInv, Fresh, Status

LEMMA StartImplements ==
    ASSUME IInv, NEW b \in BOOLEAN, StartRunFromConfig(b), Alive,
           run # 0 => pc[run] \in {"closing", "done"},
           outcome' = outcome, exitCode' = exitCode
    PROVE  L!Next
<1> DEFINE n == run + 1
<1>1. n \in Runs /\ n \in Nat /\ run \in Nat /\ pc' = [pc EXCEPT ![n] = "consumers"]
  BY RunsFacts DEF StartRunFromConfig, IInv, TypeOK
<1>2. TypeOK
  BY Zenon DEF IInv
<1> HIDE DEF n
<1>3. ASSUME NEW q \in Runs PROVE Status(q) = IF q < n THEN "over" ELSE "none"
  <2>1. q \in Nat /\ q # 0
    BY RunsFacts, Zenon
  <2>2. CASE q = run
    BY <2>1, <2>2, <1>1 DEF Status, n
  <2>3. CASE q # run
    BY <2>1, <2>3, <1>1, StatusByNumber DEF n
  <2> QED BY <2>2, <2>3, Zenon
<1>4. outcome[n] = "none"
  BY <1>1 DEF IInv, LoopInv, Fresh, n
<1>5. ASSUME NEW q \in Runs PROVE Status(q)' = IF q = n THEN "active" ELSE Status(q)
  <2>1. q = n => pc'[q] = "consumers"
    BY <1>1, <1>2, Zenon DEF TypeOK
  <2>2. q # n => pc'[q] = pc[q]
    BY <1>1, <1>2, Zenon DEF TypeOK
  <2> QED BY <1>4, <2>1, <2>2, Zenon DEF Status
<1>6. StatusOf' = [StatusOf EXCEPT ![n] = "active"]
  BY <1>1, <1>5, Zenon DEF StatusOf
<1>7. \A q \in Runs : StatusOf[q] = IF q < n THEN "over" ELSE "none"
  BY <1>3, Zenon DEF StatusOf
<1>8. L!Start(n)
  BY <1>6, <1>7, SameRuns, Zenon DEF L!Start, Alive, StatusOf
<1> QED BY <1>1, <1>8, SameRuns, Zenon DEF L!Next

(* The loop of r ends its run in Lifecycle, with the verdict v. *)
LEMMA FinishImplements ==
    ASSUME NEW r \in Runs, Alive, Status(r) = "active", Status(r)' = "over",
           \A q \in Runs \ {r} : Status(q)' = Status(q),
           NEW v \in Verdicts \cup {"none"}, outcome' = [outcome EXCEPT ![r] = v],
           exitCode' = exitCode
    PROVE  L!Next
<1>1. StatusOf' = [StatusOf EXCEPT ![r] = "over"]
  BY Zenon DEF StatusOf
<1>2. StatusOf[r] = "active"
  BY Zenon DEF StatusOf
<1>3. L!Finish(r)
  BY <1>1, <1>2, SameRuns, Zenon DEF L!Finish, Alive, StatusOf
<1> QED BY <1>3, SameRuns, Zenon DEF L!Next

(* A step of r's loop within the same part of its life. *)
LEMMA LoopInvisible ==
    ASSUME TypeOK, NEW r \in Runs, NEW to \in Labels, pc' = [pc EXCEPT ![r] = to],
           pc[r] # "none", to # "none",
           to \in {"closing", "done"} <=> pc[r] \in {"closing", "done"},
           outcome' = outcome, exitCode' = exitCode
    PROVE  UNCHANGED L!vars
<1>1. ASSUME NEW q \in Runs PROVE Status(q)' = Status(q)
  BY Zenon DEF Status, TypeOK
<1> QED BY <1>1, Invisible, Zenon

LEMMA LoopImplements ==
    ASSUME IInv, NEW r \in Runs, runLoop(r)
    PROVE  [L!Next]_(L!vars)
<1>a. TypeOK /\ LoopInv(r)
  BY Zenon DEF IInv
<1> USE DEF Goto, LoopFrame
<1>1. CASE computeVerdict(r)
  <2>1. PICK v \in Verdicts : outcome' = [outcome EXCEPT ![r] = v]
    BY <1>1, Zenon DEF computeVerdict
  <2>2. pc[r] = "judging" /\ outcome[r] = "none" /\ pc' = [pc EXCEPT ![r] = "ending"]
    BY <1>1, <1>a, Zenon DEF computeVerdict, LoopInv, Ended
  <2>3. Status(r) = "active" /\ Status(r)' = "over"
    BY <2>1, <2>2, <1>a, Zenon DEF Status, TypeOK, Verdicts
  <2>4. \A q \in Runs \ {r} : Status(q)' = Status(q)
    BY <2>1, <2>2, <1>a, Zenon DEF Status, TypeOK
  <2> QED BY <1>1, <2>1, <2>3, <2>4, FinishImplements, Zenon DEF computeVerdict, mainVars
<1>2. CASE DeferLocked(r)
  <2>1. pc[r] = "ending" /\ pc' = [pc EXCEPT ![r] = "closing"] /\ outcome' = outcome
    BY <1>2, Zenon DEF DeferLocked, history
  <2>2. Alive /\ exitCode' = exitCode
    BY <1>2, Zenon DEF DeferLocked, mainVars
  <2>3. \A q \in Runs \ {r} : Status(q)' = Status(q)
    BY <2>1, <1>a, Zenon DEF Status, TypeOK
  <2>4. Status(r)' = "over"
    BY <2>1, <1>a, Zenon DEF Status, TypeOK
  <2>5. CASE outcome[r] = "none"
    <3>1. Status(r) = "active"
      BY <2>1, <2>5, Zenon DEF Status
    <3>2. outcome' = [outcome EXCEPT ![r] = "none"]
      BY <2>1, <2>5, <1>a, Zenon DEF TypeOK
    <3> QED BY <2>2, <2>3, <2>4, <3>1, <3>2, FinishImplements, Zenon
  <2>6. CASE outcome[r] # "none"
    <3>1. Status(r) = "over"
      BY <2>1, <2>6, Zenon DEF Status
    <3> QED BY <2>1, <2>2, <2>3, <2>4, <3>1, Invisible, Zenon
  <2> QED BY <2>5, <2>6, Zenon
<1>3. CASE CloseDone(r)
  <2>1. closing[r] = r /\ closes[r] = 0
    BY <1>3, <1>a, Zenon DEF CloseDone, LoopInv
  <2>2. exitCode' = exitCode /\ outcome' = outcome
    BY <1>3, <2>1, Zenon DEF CloseDone, DoneOf, history
  <2>3. pc[r] = "closing" /\ pc' = [pc EXCEPT ![r] = "done"] /\ "done" \in Labels
    BY <1>3, Zenon DEF CloseDone, Labels
  <2>4. UNCHANGED L!vars
    BY <1>a, <2>2, <2>3, LoopInvisible, Zenon
  <2> QED BY <2>4, Zenon
<1>4. CASE ~computeVerdict(r) /\ ~DeferLocked(r) /\ ~CloseDone(r)
  <2>1. /\ outcome' = outcome /\ exitCode' = exitCode
        /\ \E to \in Labels \ {"none", "closing", "done"} : pc' = [pc EXCEPT ![r] = to]
        /\ pc[r] \notin {"none", "closing", "done"}
    BY <1>4, Zenon DEF runLoop, StartConsumers, StartConsumersFails, ConsumersStarted,
       WaitForConsumerReady, ConsumerReadyTimeout, ReturnCancelled, WarmupStart, WarmupStop,
       WarmupReset, StartProducers, SetRunning, RunEnds, SetStopping, StopProducers,
       drainToQuiescence, captureWorkerSnapshots, StopConsumers, Step, SetProducers, SetError,
       SetState, history, mainVars, Labels
  <2>2. PICK to \in Labels \ {"none", "closing", "done"} : pc' = [pc EXCEPT ![r] = to]
    BY <2>1, Zenon
  <2>3. UNCHANGED L!vars
    BY <1>a, <2>1, <2>2, LoopInvisible, Zenon
  <2> QED BY <2>3, Zenon
<1> QED BY <1>1, <1>2, <1>3, <1>4, Zenon

-----------------------------------------------------------------------------
LEMMA MainImplements ==
    ASSUME HastyClient = FALSE, IInv, Main
    PROVE  [L!Next]_(L!vars)
<1> USE DEF MainStep, MainMove
<1>a. TypeOK /\ VerdictInv /\ MainInv
  BY Zenon DEF IInv
<1>b. ASSUME pc' = pc, outcome' = outcome, exitCode' = exitCode PROVE UNCHANGED L!vars
  BY <1>b, Invisible, Zenon DEF Status
<1>c. ASSUME pc' = pc, outcome' = outcome PROVE StatusOf' = StatusOf
  BY <1>c, Zenon DEF StatusOf, Status
<1>1. CASE MainStart
  <2>1. CASE runFlag
    <3>1. Orderly /\ CanStart /\ StartRunFromConfig(timed) /\ timed \in BOOLEAN
      BY <1>1, <2>1, <1>a, Zenon DEF MainStart, StartRunFromConfig, TypeOK
    <3>2. run # 0 => pc[run] \in {"closing", "done"}
      BY <3>1, StartFindsNoLoop, Zenon
    <3> QED BY <1>1, <3>1, <3>2, StartImplements, Zenon DEF MainStart, history
  <2>2. CASE ~runFlag
    BY <1>1, <2>2, <1>b, Zenon DEF MainStart, history, loops
  <2> QED BY <2>1, <2>2, Zenon
<1>2. CASE MainStartFails
  <2>1. StatusOf' = StatusOf
    BY <1>2, <1>c, Zenon DEF MainStartFails, loops, history
  <2>2. L!Exit
    BY <1>2, <2>1, Zenon DEF MainStartFails, L!Exit, StatusOf, Alive, history
  <2> QED BY <2>2, Zenon DEF L!Next
<1>3. CASE Signal \/ PollSeesEnd \/ ShutdownReads \/ ShutdownCancels \/ ShutdownReturns
           \/ StopServer
  BY <1>3, <1>b, Zenon DEF Signal, PollSeesEnd, ShutdownReads, ShutdownCancels, ShutdownReturns,
     StopServer, loops, history
<1>4. CASE Exit
  <2>1. StatusOf' = StatusOf /\ outcome' = outcome /\ exitCode = -1
    BY <1>4, <1>c, Zenon DEF Exit, loops, history, Alive
  <2>2. exitCode' \in {0, 2} => passed
    BY <1>4 DEF Exit
  <2>3. ASSUME passed
        PROVE  run \in Runs /\ verdict = outcome[run] /\ L!Last(run)
    <3>1. run \in Runs /\ verdict = outcome[run]
      BY <1>a, <2>3, RunsFacts, Zenon DEF MainInv, VerdictInv, Passing, TypeOK
    <3>2. run \in Nat /\ \A q \in Runs : q \in Nat
      BY <3>1, RunsFacts, Zenon
    <3>3. StatusOf[run] # "none" /\ \A q \in Runs : q > run => StatusOf[q] = "none"
      BY <3>1, <3>2, StatusByNumber DEF StatusOf
    <3> QED BY <3>1, <3>3, SameRuns, Zenon DEF L!Last, StatusOf
  <2>4. /\ exitCode' = 0 => passed /\ verdict = "PASSED"
        /\ exitCode' = 2 => passed /\ verdict = "PASSED_WITH_WARNINGS"
        /\ exitCode' \in {0, 1, 2}
    BY <1>4, <1>a DEF Exit, HasWarnings, MainInv, Passing
  <2>5. L!Exit
    BY <2>1, <2>3, <2>4, SameRuns, Zenon DEF L!Exit, StatusOf
  <2> QED BY <2>5 DEF L!Next
<1> QED BY <1>1, <1>2, <1>3, <1>4, Zenon DEF Main

(***************************************************************************)
(* StartRunFromConfig, runLoop, GracefulShutdown and main, with a client   *)
(* that is not hasty, implement Lifecycle: each step is one of Lifecycle's *)
(* or invisible there.                                                     *)
(***************************************************************************)
THEOREM EngineImplementsLifecycle ==
    ASSUME HastyClient = FALSE
    PROVE  Spec => ImplementsLifecycle
<1>1. ASSUME IInv, [Next]_vars PROVE [L!Next]_(L!vars)
  <2> USE DEF mainVars, history
  <2>1. CASE handleRunStart
    <3>1. PICK b \in BOOLEAN : StartRunFromConfig(b)
      BY <2>1, Zenon DEF handleRunStart
    <3>2. Orderly /\ CanStart /\ Alive
      BY <2>1, <3>1, Zenon DEF handleRunStart, StartRunFromConfig, Serving
    <3>3. run # 0 => pc[run] \in {"closing", "done"}
      BY <1>1, <3>2, StartFindsNoLoop, Zenon
    <3> QED BY <1>1, <2>1, <3>1, <3>2, <3>3, StartImplements, Zenon DEF handleRunStart
  <2>2. CASE handleRunStop \/ handleRunReport \/ UNCHANGED vars
    <3>1. pc' = pc /\ outcome' = outcome /\ exitCode' = exitCode
      BY <2>2, Zenon DEF handleRunStop, handleRunReport, vars, loops
    <3> QED BY <3>1, Invisible, Zenon DEF Status
  <2>3. ASSUME NEW r \in Runs, runLoop(r) PROVE [L!Next]_(L!vars)
    BY <1>1, <2>3, LoopImplements, Zenon
  <2>4. CASE Main
    BY <1>1, <2>4, MainImplements, Zenon
  <2> QED BY <1>1, <2>1, <2>2, <2>3, <2>4, Zenon DEF Next, Terminated
<1>2. IInv /\ [Next]_vars => [L!Next]_(L!vars)
  BY <1>1, Zenon
<1> QED BY <1>2, InitImplements, AlwaysInductive, PTL DEF Spec, ImplementsLifecycle, L!Spec

-----------------------------------------------------------------------------
(* There are snapshots only from their capture to the next start, and setError is not called *)
(* in between.                                                                               *)
SnapshotInv ==
    snapshots # 0 =>
        /\ run # 0
        /\ \/ pc[run] \in {"captured", "judging"}
           \/ pc[run] \in Ended /\ state \in {"stopping", "stopped"}

ReportInv == SnapshotInv /\ ReportAfterCapture

LEMMA LoopReport ==
    ASSUME IInv, SnapshotInv, NEW r \in Runs, runLoop(r)
    PROVE  SnapshotInv'
<1> USE DEF Goto, LoopFrame
<1>a. TypeOK /\ StateInv
  BY Zenon DEF IInv
<1>b. run' = run /\ pc[r] # "none" /\ pc[r] # "done"
  BY Zenon DEF runLoop, StartConsumers, StartConsumersFails, ConsumersStarted,
     WaitForConsumerReady, ConsumerReadyTimeout, ReturnCancelled, WarmupStart, WarmupStop,
     WarmupReset, StartProducers, SetRunning, RunEnds, SetStopping, StopProducers,
     drainToQuiescence, captureWorkerSnapshots, StopConsumers, computeVerdict, DeferLocked,
     CloseDone, Step, SetProducers, SetError, SetState, engine
<1>1. CASE CloseDone(r)
  BY <1>1, <1>a DEF CloseDone, engine, SnapshotInv, Ended, TypeOK
<1>2. CASE ~CloseDone(r)
  <2>1. pc[r] # "closing"
    BY <1>2, Zenon DEF runLoop, StartConsumers, StartConsumersFails, ConsumersStarted,
       WaitForConsumerReady, ConsumerReadyTimeout, ReturnCancelled, WarmupStart, WarmupStop,
       WarmupReset, StartProducers, SetRunning, RunEnds, SetStopping, StopProducers,
       drainToQuiescence, captureWorkerSnapshots, StopConsumers, computeVerdict, DeferLocked,
       Step, SetProducers, SetError, SetState
  <2>2. r = run /\ run # 0
    BY <1>b, <2>1, LoopIsCurrent, RunsFacts, Zenon
  <2>3. CASE captureWorkerSnapshots(r)
    BY <2>2, <2>3, <1>a, Zenon DEF captureWorkerSnapshots, SnapshotInv, TypeOK
  <2>4. CASE StopConsumers(r)
    BY <2>2, <2>4, <1>a, Zenon DEF StopConsumers, SnapshotInv, TypeOK
  <2>5. CASE computeVerdict(r)
    BY <2>2, <2>5, <1>a, Zenon DEF computeVerdict, SnapshotInv, StateInv, Stopping, Ended, TypeOK
  <2>6. CASE DeferLocked(r)
    BY <2>2, <2>6, <1>a, Zenon DEF DeferLocked, SnapshotInv, Ended, TypeOK
  <2>7. CASE /\ ~captureWorkerSnapshots(r) /\ ~StopConsumers(r) /\ ~computeVerdict(r)
             /\ ~DeferLocked(r)
    <3>1. snapshots' = snapshots /\ pc[r] \notin Ended \cup {"captured", "judging"}
      BY <1>2, <2>7, Zenon DEF runLoop, StartConsumers, StartConsumersFails, ConsumersStarted,
         WaitForConsumerReady, ConsumerReadyTimeout, ReturnCancelled, WarmupStart, WarmupStop,
         WarmupReset, StartProducers, SetRunning, RunEnds, SetStopping, StopProducers,
         drainToQuiescence, Step, SetProducers, SetError, SetState, Ended
    <3> QED BY <2>2, <3>1, Zenon DEF SnapshotInv
  <2> QED BY <2>3, <2>4, <2>5, <2>6, <2>7, Zenon
<1> QED BY <1>1, <1>2, Zenon

(***************************************************************************)
(* RunReport answers only between the capture of the current run's         *)
(* snapshots and the next start.                                           *)
(***************************************************************************)
THEOREM ReportServed ==
    ASSUME HastyClient = FALSE
    PROVE  Spec => []ReportAfterCapture
<1>1. Init => ReportInv
  BY Zenon DEF Init, ReportInv, SnapshotInv, ReportAfterCapture
<1>2. ASSUME IInv, ReportInv, [Next]_vars PROVE ReportInv'
  <2> USE <1>2 DEF ReportInv, ReportAfterCapture, mainVars
  <2>1. CASE handleRunStart
    BY <2>1, Zenon DEF handleRunStart, StartRunFromConfig, FreshSnapshots, SnapshotInv
  <2>2. CASE handleRunStop
    BY <2>2, Zenon DEF handleRunStop, SnapshotInv, engine
  <2>3. CASE handleRunReport
    <3>1. report' = state /\ snapshots # 0 /\ UNCHANGED <<run, pc, state, snapshots>>
      BY <2>3, Zenon DEF handleRunReport, engine, loops
    <3>2. state \in {"stopping", "stopped"}
      BY <3>1, Zenon DEF SnapshotInv, IInv, StateInv, Stopping
    <3> QED BY <3>1, <3>2, Zenon DEF SnapshotInv
  <2>4. ASSUME NEW r \in Runs, runLoop(r) PROVE ReportInv'
    <3>1. report' = report
      BY <2>4, Zenon DEF runLoop, StartConsumers, StartConsumersFails, ConsumersStarted,
         WaitForConsumerReady, ConsumerReadyTimeout, ReturnCancelled, WarmupStart, WarmupStop,
         WarmupReset, StartProducers, SetRunning, RunEnds, SetStopping, StopProducers,
         drainToQuiescence, captureWorkerSnapshots, StopConsumers, computeVerdict,
         DeferLocked, CloseDone, Step, SetProducers, SetError, SetState, LoopFrame
    <3> QED BY <2>4, <3>1, LoopReport, Zenon
  <2>5. CASE Main
    <3>1. report' = report
      BY <2>5, Zenon DEF Main, MainStart, MainStartFails, Signal, PollSeesEnd, ShutdownReads,
         ShutdownCancels, ShutdownReturns, StopServer, Exit, MainMove
    <3>2. CASE snapshots' = 0
      BY <3>1, <3>2, Zenon DEF SnapshotInv
    <3>3. CASE snapshots' # 0
      <4>1. UNCHANGED <<run, pc, state, snapshots>>
        BY <2>5, <3>3, Zenon DEF Main, MainStart, MainStartFails, Signal, PollSeesEnd, ShutdownReads,
           ShutdownCancels, ShutdownReturns, StopServer, Exit, MainMove, StartRunFromConfig,
           FreshSnapshots, engine, loops
      <4> QED BY <3>1, <4>1, Zenon DEF SnapshotInv
    <3> QED BY <3>2, <3>3, Zenon
  <2>6. CASE UNCHANGED vars
    BY <2>6, Zenon DEF vars, engine, loops, SnapshotInv
  <2> QED BY <2>1, <2>2, <2>3, <2>4, <2>5, <2>6, Zenon DEF Next, Terminated
<1>3. IInv /\ ReportInv /\ [Next]_vars => ReportInv'
  BY <1>2, Zenon
<1>4. ReportInv => ReportAfterCapture
  BY Zenon DEF ReportInv
<1> QED BY <1>1, <1>3, <1>4, AlwaysInductive, PTL DEF Spec
=============================================================================
