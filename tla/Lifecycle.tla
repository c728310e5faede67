----------------------------- MODULE Lifecycle -----------------------------
(***************************************************************************)
(* What the harness promises to whoever operates it, without its           *)
(* goroutines, channels and locks: runs follow one another, each is over   *)
(* once and for all with a verdict or without one, and the process's exit  *)
(* status speaks for the last run.  Module Engine implements this.         *)
(***************************************************************************)
EXTENDS Integers

CONSTANT MaxRuns   \* bound: runs started in the life of the process

Runs == 1 .. MaxRuns
Verdicts == {"PASSED", "PASSED_WITH_WARNINGS", "FAILED"}

VARIABLES
    status,   \* per run: "none", "active" or "over"
    result,   \* per run: its verdict, or "none"
    exit      \* the exit status of the process, -1 while it lives

vars == <<status, result, exit>>

Init ==
    /\ status = [r \in Runs |-> "none"]
    /\ result = [r \in Runs |-> "none"]
    /\ exit = -1

(* A run starts when all the runs before it are over, and none after it has started. *)
Start(r) ==
    /\ exit = -1
    /\ \A q \in Runs : status[q] = IF q < r THEN "over" ELSE "none"
    /\ status' = [status EXCEPT ![r] = "active"]
    /\ UNCHANGED <<result, exit>>

(* The active run ends, with a verdict or, when it failed or was cancelled early, without. *)
Finish(r) ==
    /\ exit = -1
    /\ status[r] = "active"
    /\ status' = [status EXCEPT ![r] = "over"]
    /\ \E v \in Verdicts \cup {"none"} : result' = [result EXCEPT ![r] = v]
    /\ UNCHANGED exit

(* The last run started. *)
Last(r) == status[r] # "none" /\ \A q \in Runs : q > r => status[q] = "none"

(* Exit 0 and exit 2 are the verdicts of the last run; anything else is exit 1. *)
Exit ==
    /\ exit = -1
    /\ \/ exit' = 0 /\ \E r \in Runs : Last(r) /\ result[r] = "PASSED"
       \/ exit' = 2 /\ \E r \in Runs : Last(r) /\ result[r] = "PASSED_WITH_WARNINGS"
       \/ exit' = 1
    /\ UNCHANGED <<status, result>>

Next == Exit \/ \E r \in Runs : Start(r) \/ Finish(r)

Spec == Init /\ [][Next]_vars
=============================================================================
