------------------------- MODULE ReceiveLoopProofs -------------------------
(***************************************************************************)
(* Theorems about the receiving loops of a worker, for any number of       *)
(* subscriptions, forced disconnects and failures of the streams.          *)
(***************************************************************************)
EXTENDS ReceiveLoop, FiniteSetTheorems, WellFoundedInduction, TLAPS

-----------------------------------------------------------------------------
(***************************************************************************)
(* What MapThenSumSet computes: facts about the sum of the values of a     *)
(* function over a finite set, for the counters that are added up over the *)
(* subscriptions.  An induction over a finite set is a minimal             *)
(* counterexample: of the subsets for which a claim fails, one has no      *)
(* smaller one in it.                                                      *)
(***************************************************************************)

Sum(f, S) == MapThenSumSet(LAMBDA x : f[x], S)

(* The function on the subsets of S that MapThenSumSet chooses. *)
Pick(s) == CHOOSE x \in s : TRUE
Added(f, g, s) == IF s = {} THEN 0 ELSE f[Pick(s)] + g[s \ {Pick(s)}]
Adds(g, f, S) == g = [s \in SUBSET S |-> Added(f, g, s)]
Sums(f, S) == CHOOSE g : Adds(g, f, S)

(* A family of subsets of a finite set has a member that contains no other. *)
LEMMA MinimalSubset ==
    ASSUME NEW S, IsFiniteSet(S), NEW B, B \subseteq SUBSET S, B # {}
    PROVE  \E T \in B : \A U \in SUBSET T : U # T => U \notin B
<1>1. B \subseteq FiniteSubsetsOf(S)
  BY FS_Subset, Zenon DEF FiniteSubsetsOf
<1>2. PICK T \in B : \A U \in B : <<U, T>> \notin StrictSubsetOrdering(S)
  BY <1>1, FS_StrictSubsetOrderingWellFounded, WFMin, Zenon
<1>3. \A U \in SUBSET T : U # T /\ U \in B => <<U, T>> \in StrictSubsetOrdering(S)
  BY Zenon DEF StrictSubsetOrdering
<1>4. \A U \in SUBSET T : U # T => U \notin B
  BY <1>2, <1>3, Zenon
<1> QED BY <1>4, Zenon

LEMMA PickIn == \A s : s # {} => Pick(s) \in s
  BY Zenon DEF Pick

LEMMA SumIsChosen == \A f, S : Sum(f, S) = Sums(f, S)[S]
  BY Zenon DEF Sum, MapThenSumSet, MapThenFoldSet, Sums, Adds, Added, Pick

(* Two functions that add up the same values agree where both are defined. *)
LEMMA AddsAgree ==
    ASSUME NEW f, NEW S, IsFiniteSet(S), NEW g, Adds(g, f, S),
           NEW T \in SUBSET S, NEW h, Adds(h, f, T)
    PROVE  g[T] = h[T]
<1> DEFINE B == {s \in SUBSET T : g[s] # h[s]}
<1>1. B = {}
  <2> SUFFICES ASSUME B # {} PROVE FALSE
    BY Zenon
  <2>1. PICK s \in B : \A u \in SUBSET s : u # s => u \notin B
    <3>1. IsFiniteSet(T) /\ B \subseteq SUBSET T
      BY FS_Subset, Zenon
    <3> HIDE DEF B
    <3> QED BY <3>1, MinimalSubset, Zenon
  <2>2. s \in SUBSET T /\ s \in SUBSET S
    BY <2>1, Zenon
  <2>3. g[s] = Added(f, g, s) /\ h[s] = Added(f, h, s)
    BY <2>2, Zenon DEF Adds
  <2>4. s # {}
    BY <2>1, <2>3, Zenon DEF Added
  <2>5. g[s \ {Pick(s)}] = h[s \ {Pick(s)}]
    BY <2>1, <2>2, <2>4, PickIn, Zenon
  <2> QED BY <2>1, <2>3, <2>5, Zenon DEF Added
<1> QED BY <1>1, Zenon

(* A function that adds up exists. *)
LEMMA AddsExists ==
    ASSUME NEW f, NEW S, IsFiniteSet(S)
    PROVE  \E g : Adds(g, f, S)
<1> DEFINE B == {T \in SUBSET S : ~ \E g : Adds(g, f, T)}
<1> SUFFICES ASSUME B # {} PROVE FALSE
  BY Zenon
<1>1. PICK T \in B : \A U \in SUBSET T : U # T => U \notin B
  <2>1. B \subseteq SUBSET S
    BY Zenon
  <2> HIDE DEF B
  <2> QED BY <2>1, MinimalSubset, Zenon
<1>2. \A U \in SUBSET T : U # T => Adds(Sums(f, U), f, U)
  BY <1>1, Zenon DEF Sums
<1> DEFINE h == [s \in SUBSET T |-> IF s = {} THEN 0
                    ELSE f[Pick(s)] + Sums(f, s \ {Pick(s)})[s \ {Pick(s)}]]
<1>3. ASSUME NEW s \in SUBSET T, s # T
      PROVE  Sums(f, s)[s] = h[s]
  <2>1. Adds(Sums(f, s), f, s)
    BY <1>2, <1>3, Zenon
  <2>2. Sums(f, s)[s] = Added(f, Sums(f, s), s)
    BY <2>1, Zenon DEF Adds
  <2>3. CASE s = {}
    BY <2>2, <2>3, Zenon DEF Added
  <2>4. CASE s # {}
    <3> DEFINE u == s \ {Pick(s)}
    <3>1. u \in SUBSET s /\ u \in SUBSET T /\ u # T /\ IsFiniteSet(s)
      BY <1>3, <1>1, <2>4, PickIn, FS_Subset, Zenon
    <3>2. Adds(Sums(f, u), f, u)
      BY <1>2, <3>1, Zenon
    <3>3. Sums(f, s)[u] = Sums(f, u)[u]
      BY <2>1, <3>1, <3>2, AddsAgree
    <3> QED BY <2>2, <2>4, <3>3, Zenon DEF Added
  <2> QED BY <2>3, <2>4, Zenon
<1>4. ASSUME NEW s \in SUBSET T
      PROVE  h[s] = Added(f, h, s)
  <2>1. CASE s = {}
    BY <2>1, Zenon DEF Added
  <2>2. CASE s # {}
    <3> DEFINE u == s \ {Pick(s)}
    <3>1. u \in SUBSET T /\ u # T
      BY <2>2, PickIn, Zenon
    <3>2. Sums(f, u)[u] = h[u]
      BY <1>3, <3>1, Zenon
    <3>3. h[s] = f[Pick(s)] + Sums(f, u)[u]
      BY <2>2, Zenon
    <3> HIDE DEF h
    <3> QED BY <2>2, <3>2, <3>3, Zenon DEF Added
  <2> QED BY <2>1, <2>2, Zenon
<1>5. h = [s \in SUBSET T |-> h[s]]
  BY Zenon
<1> HIDE DEF h
<1>6. h = [s \in SUBSET T |-> Added(f, h, s)]
  BY <1>4, <1>5, Zenon
<1> QED BY <1>1, <1>6, Zenon DEF Adds

LEMMA SumsAdd ==
    ASSUME NEW f, NEW S, IsFiniteSet(S)
    PROVE  Adds(Sums(f, S), f, S)
  BY AddsExists, Zenon DEF Sums

-----------------------------------------------------------------------------
(* Nothing adds up to zero. *)
THEOREM SumEmpty == \A f : Sum(f, {}) = 0
<1> TAKE f
<1>1. Adds(Sums(f, {}), f, {})
  BY FS_EmptySet, SumsAdd, Zenon
<1>2. Sums(f, {})[{}] = Added(f, Sums(f, {}), {})
  BY <1>1, Zenon DEF Adds
<1> QED BY <1>2, SumIsChosen, Zenon DEF Added

LEMMA SumPicked ==
    ASSUME NEW f, NEW S, IsFiniteSet(S), S # {}
    PROVE  Sum(f, S) = f[Pick(S)] + Sum(f, S \ {Pick(S)})
<1> DEFINE U == S \ {Pick(S)}
<1>1. IsFiniteSet(U) /\ U \in SUBSET S
  BY FS_Subset, Zenon
<1>2. Adds(Sums(f, S), f, S) /\ Adds(Sums(f, U), f, U)
  BY <1>1, SumsAdd, Zenon
<1>3. Sums(f, S)[U] = Sums(f, U)[U]
  BY <1>1, <1>2, AddsAgree
<1>4. Sums(f, S)[S] = Added(f, Sums(f, S), S)
  BY <1>2, Zenon DEF Adds
<1> QED BY <1>3, <1>4, SumIsChosen, Zenon DEF Added

(* The sum of integers is one. *)
THEOREM SumType ==
    ASSUME NEW S, IsFiniteSet(S), NEW f, \A x \in S : f[x] \in Int
    PROVE  Sum(f, S) \in Int
<1> DEFINE B == {T \in SUBSET S : Sum(f, T) \notin Int}
<1>1. B = {}
  <2> SUFFICES ASSUME B # {} PROVE FALSE
    BY Zenon
  <2>1. PICK T \in B : \A U \in SUBSET T : U # T => U \notin B
    <3>1. B \subseteq SUBSET S
      BY Zenon
    <3> HIDE DEF B
    <3> QED BY <3>1, MinimalSubset, Zenon
  <2>2. T # {} /\ IsFiniteSet(T)
    <3>1. Sum(f, {}) = 0
      BY SumEmpty, Zenon
    <3>2. {} \notin B
      BY <3>1
    <3> QED BY <2>1, <3>2, FS_Subset, Zenon
  <2>3. Sum(f, T \ {Pick(T)}) \in Int /\ f[Pick(T)] \in Int
    BY <2>1, <2>2, PickIn, Zenon
  <2>4. Sum(f, T) \in Int
    BY <2>2, <2>3, SumPicked
  <2> QED BY <2>1, <2>4, Zenon
<1> QED BY <1>1, Zenon

(* A sum of naturals is one. *)
THEOREM SumNat ==
    ASSUME NEW S, IsFiniteSet(S), NEW f, \A x \in S : f[x] \in Nat
    PROVE  Sum(f, S) \in Nat
<1> DEFINE B == {T \in SUBSET S : Sum(f, T) \notin Nat}
<1>1. B = {}
  <2> SUFFICES ASSUME B # {} PROVE FALSE
    BY Zenon
  <2>1. PICK T \in B : \A U \in SUBSET T : U # T => U \notin B
    <3>1. B \subseteq SUBSET S
      BY Zenon
    <3> HIDE DEF B
    <3> QED BY <3>1, MinimalSubset, Zenon
  <2>2. T # {} /\ IsFiniteSet(T)
    <3>1. Sum(f, {}) = 0
      BY SumEmpty, Zenon
    <3>2. {} \notin B
      BY <3>1
    <3> QED BY <2>1, <3>2, FS_Subset, Zenon
  <2>3. Sum(f, T) = f[Pick(T)] + Sum(f, T \ {Pick(T)})
    BY <2>2, SumPicked, Zenon
  <2>4. Sum(f, T \ {Pick(T)}) \in Nat /\ f[Pick(T)] \in Nat
    BY <2>1, <2>2, PickIn, Zenon
  <2> QED BY <2>1, <2>3, <2>4
<1> QED BY <1>1, Zenon

(* Any element may be added last: the order does not matter. *)
THEOREM SumRemove ==
    ASSUME NEW S, IsFiniteSet(S), NEW f, \A x \in S : f[x] \in Int, NEW y \in S
    PROVE  Sum(f, S) = f[y] + Sum(f, S \ {y})
<1> DEFINE Splits(T) == \A x \in T : Sum(f, T) = f[x] + Sum(f, T \ {x})
<1> DEFINE B == {T \in SUBSET S : ~Splits(T)}
<1>1. B = {}
  <2> SUFFICES ASSUME B # {} PROVE FALSE
    BY Zenon
  <2>1. PICK T \in B : \A U \in SUBSET T : U # T => U \notin B
    <3>1. B \subseteq SUBSET S
      BY Zenon
    <3> HIDE DEF B
    <3> QED BY <3>1, MinimalSubset, Zenon
  <2>2. PICK x \in T : Sum(f, T) # f[x] + Sum(f, T \ {x})
    BY <2>1, Zenon
  <2> DEFINE p == Pick(T)
  <2>3. p \in T /\ IsFiniteSet(T) /\ Sum(f, T) = f[p] + Sum(f, T \ {p})
    BY <2>1, <2>2, PickIn, FS_Subset, SumPicked, Zenon
  <2> HIDE DEF p
  <2>4. x # p
    BY <2>2, <2>3, Zenon
  <2>5. Splits(T \ {p}) /\ Splits(T \ {x})
    <3>1. T \ {p} \in SUBSET T /\ T \ {p} # T /\ T \ {x} \in SUBSET T /\ T \ {x} # T
      BY <2>2, <2>3, Zenon
    <3>2. T \ {p} \notin B /\ T \ {x} \notin B
      BY <2>1, <3>1, Zenon
    <3>3. T \ {p} \in SUBSET S /\ T \ {x} \in SUBSET S
      BY <2>1, Zenon
    <3> HIDE DEF Splits
    <3> QED BY <3>2, <3>3, Zenon
  <2>6. (T \ {p}) \ {x} = (T \ {x}) \ {p}
    BY Zenon
  <2> DEFINE R == (T \ {x}) \ {p}
  <2>7. Sum(f, T \ {p}) = f[x] + Sum(f, R) /\ Sum(f, T \ {x}) = f[p] + Sum(f, R)
    BY <2>2, <2>3, <2>4, <2>5, <2>6, Zenon
  <2>8. f[x] \in Int /\ f[p] \in Int /\ Sum(f, R) \in Int
    <3>1. R \in SUBSET S /\ x \in S /\ p \in S
      BY <2>1, <2>2, <2>3, Zenon
    <3> HIDE DEF R
    <3> QED BY <3>1, SumType, FS_Subset, Zenon
  <2> HIDE DEF R, Splits
  <2> QED BY <2>2, <2>3, <2>7, <2>8
<1>2. Splits(S)
  <2> HIDE DEF Splits
  <2> QED BY <1>1, Zenon
<1> QED BY <1>2, Zenon

(***************************************************************************)
(* The sums of two functions compare as their values do, c apart: on a set *)
(* of n elements they are at most n * c apart.                             *)
(***************************************************************************)
THEOREM SumCompare ==
    ASSUME NEW S, IsFiniteSet(S), NEW f, NEW g, NEW c \in Int,
           \A x \in S : f[x] \in Int /\ g[x] \in Int /\ f[x] <= c + g[x]
    PROVE  Sum(f, S) <= Cardinality(S) * c + Sum(g, S)
<1> DEFINE Below(T) == Sum(f, T) <= Cardinality(T) * c + Sum(g, T)
<1> DEFINE B == {T \in SUBSET S : ~Below(T)}
<1>1. B = {}
  <2> SUFFICES ASSUME B # {} PROVE FALSE
    BY Zenon
  <2>1. PICK T \in B : \A U \in SUBSET T : U # T => U \notin B
    <3>1. B \subseteq SUBSET S
      BY Zenon
    <3> HIDE DEF B
    <3> QED BY <3>1, MinimalSubset, Zenon
  <2>2. T \in SUBSET S /\ IsFiniteSet(T) /\ ~Below(T)
    BY <2>1, FS_Subset, Zenon
  <2>3. T # {}
    <3>1. Sum(f, {}) = 0 /\ Sum(g, {}) = 0 /\ Cardinality({}) = 0
      BY SumEmpty, FS_EmptySet, Zenon
    <3>2. Below({})
      BY <3>1
    <3> HIDE DEF Below
    <3> QED BY <2>2, <3>2, Zenon
  <2> DEFINE p == Pick(T)
  <2> DEFINE U == T \ {p}
  <2>4. p \in T /\ U \in SUBSET T /\ U # T /\ U \in SUBSET S
    BY <2>2, <2>3, PickIn, Zenon
  <2>5. Below(U)
    <3> HIDE DEF Below, U
    <3> QED BY <2>1, <2>4, Zenon
  <2>6. Sum(f, T) = f[p] + Sum(f, U) /\ Sum(g, T) = g[p] + Sum(g, U)
    BY <2>2, <2>3, SumPicked, Zenon
  <2>7. Sum(f, U) \in Int /\ Sum(g, U) \in Int
    <3> HIDE DEF U
    <3> QED BY <2>4, SumType, FS_Subset, Zenon
  <2>8. Cardinality(T) = Cardinality(U) + 1 /\ Cardinality(U) \in Nat
    <3>1. Cardinality(U) = Cardinality(T) - 1 /\ IsFiniteSet(U)
      BY <2>2, <2>4, FS_RemoveElement, Zenon
    <3> HIDE DEF U
    <3> QED BY <3>1, <2>2, FS_CardinalityType
  <2>9. f[p] \in Int /\ g[p] \in Int /\ f[p] <= c + g[p]
    BY <2>2, <2>4, Zenon
  <2>10. Sum(f, U) <= Cardinality(U) * c + Sum(g, U)
    BY <2>5, Zenon
  <2> HIDE DEF p, U
  <2>11. Cardinality(T) * c = Cardinality(U) * c + c
    BY <2>8
  <2>12. Cardinality(U) * c \in Int
    BY <2>8
  <2>13. Below(T)
    BY <2>6, <2>7, <2>9, <2>10, <2>11, <2>12
  <2> QED BY <2>2, <2>13, Zenon
<1>2. Below(S)
  <2> HIDE DEF Below
  <2> QED BY <1>1, Zenon
<1> QED BY <1>2, Zenon

(* A value that grows by d, none of the others shrinking, adds d to the sum. *)
THEOREM SumGrows ==
    ASSUME NEW S, IsFiniteSet(S), NEW f, NEW g, NEW y \in S, NEW d \in Int,
           \A x \in S : f[x] \in Int /\ g[x] \in Int,
           \A x \in S \ {y} : f[x] <= g[x],
           f[y] + d <= g[y]
    PROVE  Sum(f, S) + d <= Sum(g, S)
<1> DEFINE R == S \ {y}
<1>1. IsFiniteSet(R) /\ R \subseteq S
  BY FS_Subset, Zenon
<1>2. Sum(f, S) = f[y] + Sum(f, R) /\ Sum(g, S) = g[y] + Sum(g, R)
  BY SumRemove, Zenon
<1>a. PICK c \in Int : c = 0
  OBVIOUS
<1>3. \A x \in R : f[x] \in Int /\ g[x] \in Int /\ f[x] <= c + g[x]
  BY <1>a
<1> HIDE DEF R
<1>4. Sum(f, R) <= Cardinality(R) * c + Sum(g, R)
  BY <1>1, <1>3, SumCompare, Zenon
<1>5. Sum(f, R) \in Int /\ Sum(g, R) \in Int /\ Cardinality(R) \in Nat
  BY <1>1, <1>3, SumType, FS_CardinalityType, Zenon
<1>6. f[y] \in Int /\ g[y] \in Int
  BY Zenon
<1> QED BY <1>a, <1>2, <1>4, <1>5, <1>6

-----------------------------------------------------------------------------
(* The loops.                                                              *)


(***************************************************************************)
(* A loop: the generation it has captured is behind the present one when   *)
(* its stream was cut for a disconnect, a Receive returns for a reason,    *)
(* and callbacks run on an open stream only.                               *)
(***************************************************************************)
LoopInv(s) ==
    /\ gen[s] <= disconnectGen
    /\ cut[s] /\ pc[s] \in {"receiving", "returned"} => gen[s] < disconnectGen
    /\ pc[s] \in {"none", "launched"} => first[s]
    /\ pc[s] \in {"returned", "checking"} => cut[s] \/ failing[s] \/ cancelled
    /\ failing[s] => pc[s] \in {"receiving", "returned", "checking"}
    /\ busy[s] => pc[s] = "receiving"

(* The stop: it comes after the manager's end, and goes on from the loops' ends. *)
StopInv ==
    /\ stop # "no" => manager = "ended"
    /\ stop = "stopped" /\ ~gaveUp => \A s \in Subs : pc[s] = "ended"

(***************************************************************************)
(* The reconnections of a loop are paid for by the generations it has      *)
(* captured and the failures it has seen; it owes one from the failure of  *)
(* its stream, or the capture after a cut, until it reopens the stream.    *)
(***************************************************************************)
Owed(s) ==
    IF \/ failing[s]
       \/ pc[s] = "checking" /\ cut[s]
       \/ pc[s] = "backoff"
       \/ pc[s] = "top" /\ ~first[s]
    THEN 1 ELSE 0

Balance == [s \in Subs |-> gen[s] + failures[s] - Owed(s)]

IInv ==
    /\ TypeOK
    /\ \A s \in Subs : LoopInv(s)
    /\ StopInv
    /\ reconnections <= Sum(Balance, Subs)

-----------------------------------------------------------------------------
LEMMA TypeInit == Init => TypeOK
<1>1. 0 \in 0..MaxDisconnects /\ 0 \in 0..MaxFailures
  BY ReceiveLoopAssumption
<1> SUFFICES ASSUME Init PROVE TypeOK
  BY Zenon
<1>2. /\ pc \in [Subs -> Labels]
      /\ gen \in [Subs -> 0..MaxDisconnects] /\ failures \in [Subs -> 0..MaxFailures]
  BY <1>1, Zenon DEF Init, Labels
<1>3. /\ first \in [Subs -> BOOLEAN] /\ cut \in [Subs -> BOOLEAN]
      /\ failing \in [Subs -> BOOLEAN] /\ busy \in [Subs -> BOOLEAN]
  BY Zenon DEF Init
<1> QED BY <1>1, <1>2, <1>3, Zenon DEF Init, TypeOK

LEMMA TypeStep ==
    ASSUME TypeOK, [Next]_vars
    PROVE  TypeOK'
<1> USE ReceiveLoopAssumption
<1>1. CASE Start
  BY <1>1, Zenon DEF TypeOK, Start, Labels, stopVars
<1>2. CASE startPeriodicTasks
  BY <1>2, Zenon DEF TypeOK, startPeriodicTasks, loopVars, stopVars
<1>3. CASE DisconnectConsumers
  BY <1>3 DEF TypeOK, DisconnectConsumers, loopVars, stopVars
<1>4. CASE ManagerResumes
  BY <1>4, Zenon DEF TypeOK, ManagerResumes, loopVars, stopVars
<1>5. CASE ManagerReturns
  BY <1>5, Zenon DEF TypeOK, ManagerReturns, loopVars, stopVars
<1>6. CASE Cancel
  BY <1>6, Zenon DEF TypeOK, Cancel, loopVars
<1>7. CASE PeriodicCancel
  BY <1>7, Zenon DEF TypeOK, PeriodicCancel, loopVars, stopVars
<1>8. CASE StopConsumers
  BY <1>8, Zenon DEF TypeOK, StopConsumers, loopVars
<1>9. CASE waitWGTimeout
  BY <1>9, Zenon DEF TypeOK, waitWGTimeout, loopVars
<1>10. ASSUME NEW s \in Subs, Launch(s) PROVE TypeOK'
  BY <1>10, Zenon DEF TypeOK, Launch, Labels, stopVars
<1>11. ASSUME NEW s \in Subs, watchDisconnect(s) PROVE TypeOK'
  BY <1>11, Zenon DEF TypeOK, watchDisconnect, stopVars
<1>12. ASSUME NEW s \in Subs, StreamFails(s) PROVE TypeOK'
  BY <1>12 DEF TypeOK, StreamFails, stopVars
<1>13. ASSUME NEW s \in Subs, handleMessage(s) PROVE TypeOK'
  BY <1>13, Zenon DEF TypeOK, handleMessage, stopVars
<1>14. ASSUME NEW s \in Subs, MessageHandled(s) PROVE TypeOK'
  BY <1>14, Zenon DEF TypeOK, MessageHandled, stopVars
<1>15. ASSUME NEW s \in Subs, Enter(s) PROVE TypeOK'
  <2>1. reconnections + Reconnection(s) \in Nat
    BY DEF TypeOK, Reconnection
  <2> QED BY <1>15, <2>1, Zenon DEF TypeOK, Enter, Labels, stopVars
<1>16. ASSUME NEW s \in Subs, Receive(s) PROVE TypeOK'
  BY <1>16, Zenon DEF TypeOK, Receive, Labels, stopVars
<1>17. ASSUME NEW s \in Subs, Recapture(s) PROVE TypeOK'
  BY <1>17, Zenon DEF TypeOK, Recapture, Labels, stopVars
<1>18. ASSUME NEW s \in Subs, Check(s) PROVE TypeOK'
  BY <1>18 DEF TypeOK, Check, Labels, stopVars
<1>19. ASSUME NEW s \in Subs, sleepCtx(s) PROVE TypeOK'
  BY <1>19, Zenon DEF TypeOK, sleepCtx, Labels, stopVars
<1>20. CASE UNCHANGED vars
  BY <1>20, Zenon DEF TypeOK, vars, loopVars, stopVars
<1> QED
  BY <1>1, <1>2, <1>3, <1>4, <1>5, <1>6, <1>7, <1>8, <1>9, <1>10, <1>11, <1>12, <1>13, <1>14,
     <1>15, <1>16, <1>17, <1>18, <1>19, <1>20, Zenon DEF Next, receiveLoop

-----------------------------------------------------------------------------
BalanceOK == \A s \in Subs : Balance[s] \in Int

LEMMA BalanceType == TypeOK => BalanceOK
  BY ReceiveLoopAssumption DEF TypeOK, Balance, BalanceOK, Owed

LEMMA IInvInit == Init => IInv
<1> SUFFICES ASSUME Init PROVE IInv
  OBVIOUS
<1>1. TypeOK
  BY TypeInit, Zenon
<1>2. (\A s \in Subs : LoopInv(s)) /\ StopInv
  BY DEF Init, LoopInv, StopInv
<1>3. \A s \in Subs : Balance[s] \in Nat
  BY DEF Init, Balance, Owed
<1>4. Sum(Balance, Subs) \in Nat
  BY <1>3, SumNat, ReceiveLoopAssumption, Zenon
<1>5. reconnections = 0
  BY Zenon DEF Init
<1> QED BY <1>1, <1>2, <1>4, <1>5 DEF IInv

(* What a step of the loop of s leaves to the other loops. *)
OnlyLoop(s) ==
    /\ \A x \in Subs \ {s} :
          /\ pc'[x] = pc[x] /\ gen'[x] = gen[x] /\ first'[x] = first[x] /\ cut'[x] = cut[x]
          /\ failing'[x] = failing[x] /\ busy'[x] = busy[x] /\ failures'[x] = failures[x]
    /\ UNCHANGED <<disconnectGen, manager, cancelled, stop, gaveUp>>

(* A step of one loop keeps the invariant when its own part of it is kept, and the *)
(* reconnection it counts, if any, is paid for.                                    *)
LEMMA LoopStep ==
    ASSUME IInv, TypeOK', NEW s \in Subs, OnlyLoop(s), pc[s] # "ended", LoopInv(s)',
           NEW d \in Int, reconnections' = reconnections + d, Balance[s] + d <= Balance'[s]
    PROVE  IInv'
<1>1. \A x \in Subs : LoopInv(x)'
  BY Zenon DEF IInv, LoopInv, OnlyLoop
<1>2. StopInv'
  BY Zenon DEF IInv, StopInv, OnlyLoop
<1>3. \A x \in Subs : Balance[x] \in Int /\ Balance'[x] \in Int
  <2>1. TypeOK
    BY Zenon DEF IInv
  <2>2. BalanceOK /\ BalanceOK'
    BY <2>1, BalanceType, PTL
  <2> QED BY <2>2, Zenon DEF BalanceOK
<1>4. \A x \in Subs \ {s} : Balance[x] <= Balance'[x]
  <2> TAKE x \in Subs \ {s}
  <2>1. Balance'[x] = Balance[x]
    BY Zenon DEF Balance, Owed, OnlyLoop
  <2> QED BY <2>1, <1>3
<1>5. Sum(Balance, Subs) + d <= Sum(Balance', Subs)
  BY <1>3, <1>4, SumGrows, ReceiveLoopAssumption, Zenon
<1>6. Sum(Balance, Subs) \in Int /\ Sum(Balance', Subs) \in Int
  BY <1>3, SumType, ReceiveLoopAssumption, Zenon
<1>7. reconnections \in Nat /\ reconnections <= Sum(Balance, Subs)
  BY Zenon DEF IInv, TypeOK
<1>8. reconnections' <= Sum(Balance', Subs)
  BY <1>5, <1>6, <1>7
<1> QED BY <1>1, <1>2, <1>8, Zenon DEF IInv

LEMMA LoopsOfOne ==
    ASSUME IInv, TypeOK', NEW s \in Subs,
           \/ Launch(s) \/ watchDisconnect(s) \/ handleMessage(s) \/ MessageHandled(s)
           \/ Receive(s) \/ Recapture(s) \/ sleepCtx(s)
    PROVE  IInv'
<1>a. TypeOK /\ LoopInv(s)
  BY Zenon DEF IInv
<1>1. OnlyLoop(s) /\ pc[s] # "ended" /\ reconnections' = reconnections
  BY <1>a, Zenon DEF TypeOK, OnlyLoop, LoopInv, stopVars, Launch, watchDisconnect, handleMessage,
     MessageHandled, Receive, Recapture, sleepCtx
<1>2. LoopInv(s)'
  <2>1. CASE Launch(s)
    BY <1>a, <2>1 DEF TypeOK, LoopInv, Launch, stopVars
  <2>2. CASE watchDisconnect(s)
    BY <1>a, <2>2, ReceiveLoopAssumption DEF TypeOK, LoopInv, watchDisconnect, Disconnected, stopVars
  <2>3. CASE handleMessage(s)
    BY <1>a, <2>3, Zenon DEF TypeOK, LoopInv, handleMessage, stopVars
  <2>4. CASE MessageHandled(s)
    BY <1>a, <2>4, Zenon DEF TypeOK, LoopInv, MessageHandled, stopVars
  <2>5. CASE Receive(s)
    BY <1>a, <2>5, Zenon DEF TypeOK, LoopInv, Receive, Closed, stopVars
  <2>6. CASE Recapture(s)
    BY <1>a, <2>6 DEF TypeOK, LoopInv, Recapture, stopVars
  <2>7. CASE sleepCtx(s)
    BY <1>a, <2>7, Zenon DEF TypeOK, LoopInv, sleepCtx, stopVars
  <2> QED BY <2>1, <2>2, <2>3, <2>4, <2>5, <2>6, <2>7, Zenon
<1>3. Balance[s] <= Balance'[s]
  <2>t. gen[s] \in Int /\ failures[s] \in Int /\ disconnectGen \in Int
    BY <1>a DEF TypeOK
  <2>o. /\ Owed(s) \in Int /\ Owed(s)' \in Int /\ gen'[s] \in Int /\ failures'[s] \in Int
        /\ Balance[s] = gen[s] + failures[s] - Owed(s)
        /\ Balance'[s] = gen'[s] + failures'[s] - Owed(s)'
    BY DEF TypeOK, Owed, Balance
  <2>1. CASE Recapture(s)
    <3>1. gen'[s] = disconnectGen /\ failures'[s] = failures[s]
      BY <1>a, <2>1, Zenon DEF TypeOK, Recapture
    <3>2. Owed(s)' = IF failing[s] \/ cut[s] THEN 1 ELSE 0
      BY <1>a, <2>1, Zenon DEF TypeOK, Recapture, Owed
    <3>3. Owed(s) = IF failing[s] THEN 1 ELSE 0
      BY <2>1, Zenon DEF Recapture, Owed
    <3>4. gen[s] <= disconnectGen /\ (cut[s] => gen[s] < disconnectGen)
      BY <1>a, <2>1, Zenon DEF Recapture, LoopInv
    <3> QED BY <2>t, <2>o, <3>1, <3>2, <3>3, <3>4
  <2>2. CASE Launch(s)
    <3>1. gen'[s] = disconnectGen /\ failures'[s] = failures[s] /\ gen[s] <= disconnectGen
      BY <1>a, <2>2, Zenon DEF TypeOK, Launch, LoopInv
    <3>2. Owed(s)' <= Owed(s)
      BY <1>a, <2>2 DEF TypeOK, LoopInv, Launch, Owed
    <3> QED BY <2>t, <2>o, <3>1, <3>2
  <2>3. CASE watchDisconnect(s) \/ handleMessage(s) \/ MessageHandled(s) \/ Receive(s) \/ sleepCtx(s)
    <3>1. gen' = gen /\ failures' = failures
      BY <2>3, Zenon DEF watchDisconnect, handleMessage, MessageHandled, Receive, sleepCtx
    <3>2. Owed(s)' <= Owed(s)
      <4>1. CASE watchDisconnect(s)
        BY <1>a, <4>1 DEF TypeOK, LoopInv, Owed, watchDisconnect
      <4>2. CASE handleMessage(s) \/ MessageHandled(s)
        BY <1>a, <4>2 DEF TypeOK, LoopInv, Owed, handleMessage, MessageHandled
      <4>3. CASE Receive(s)
        BY <1>a, <4>3 DEF TypeOK, LoopInv, Owed, Receive
      <4>4. CASE sleepCtx(s)
        BY <1>a, <4>4 DEF TypeOK, LoopInv, Owed, sleepCtx
      <4> QED BY <2>3, <4>1, <4>2, <4>3, <4>4, Zenon
    <3> QED BY <2>t, <2>o, <3>1, <3>2
  <2> QED BY <2>1, <2>2, <2>3, Zenon
<1>4. PICK z \in Int : z = 0
  OBVIOUS
<1>5. reconnections' = reconnections + z /\ Balance[s] + z <= Balance'[s]
  <2>1. reconnections' = reconnections /\ reconnections \in Int
    BY <1>a, <1>1 DEF TypeOK
  <2>2. Balance[s] \in Int
    BY <1>a, BalanceType, Zenon DEF BalanceOK
  <2> QED BY <1>3, <1>4, <2>1, <2>2
<1> QED BY <1>1, <1>2, <1>5, LoopStep, Zenon

LEMMA EnterKeeps ==
    ASSUME IInv, TypeOK', NEW s \in Subs, Enter(s)
    PROVE  IInv'
<1>a. TypeOK /\ LoopInv(s)
  BY Zenon DEF IInv
<1>1. OnlyLoop(s) /\ pc[s] # "ended"
  BY <1>a DEF TypeOK, OnlyLoop, stopVars, Enter
<1>2. LoopInv(s)'
  BY <1>a DEF TypeOK, LoopInv, Enter, stopVars
<1>t. /\ gen[s] \in Int /\ failures[s] \in Int /\ Owed(s) \in Int /\ Owed(s)' \in Int
      /\ Balance[s] = gen[s] + failures[s] - Owed(s)
      /\ Balance'[s] = gen'[s] + failures'[s] - Owed(s)'
      /\ gen' = gen /\ failures' = failures /\ reconnections \in Int
  BY <1>a DEF TypeOK, Owed, Balance, Enter
<1>3. CASE cancelled
  <2>1. Owed(s)' = 0 /\ reconnections' = reconnections
    BY <1>3, <1>a, Zenon DEF TypeOK, LoopInv, Enter, Owed
  <2>2. Owed(s) >= 0
    BY DEF Owed
  <2>3. PICK z \in Int : z = 0
    OBVIOUS
  <2>4. reconnections' = reconnections + z /\ Balance[s] + z <= Balance'[s]
    BY <1>t, <2>1, <2>2, <2>3
  <2> QED BY <1>1, <1>2, <2>4, LoopStep, Zenon
<1>4. CASE ~cancelled
  <2>1. Owed(s)' = 0 /\ Owed(s) = Reconnection(s)
    BY <1>4, <1>a, Zenon DEF TypeOK, LoopInv, Enter, Owed, Reconnection
  <2>2. Reconnection(s) \in Int /\ reconnections' = reconnections + Reconnection(s)
    BY <1>4 DEF Enter, Reconnection
  <2>3. Balance[s] + Reconnection(s) <= Balance'[s]
    BY <1>t, <2>1, <2>2
  <2> QED BY <1>1, <1>2, <2>2, <2>3, LoopStep, Zenon
<1> QED BY <1>3, <1>4, Zenon

LEMMA FailureKeeps ==
    ASSUME IInv, TypeOK', NEW s \in Subs, StreamFails(s) \/ Check(s)
    PROVE  IInv'
<1>a. TypeOK /\ LoopInv(s)
  BY Zenon DEF IInv
<1>1. OnlyLoop(s) /\ pc[s] # "ended" /\ reconnections' = reconnections
  BY <1>a DEF TypeOK, OnlyLoop, stopVars, StreamFails, Check
<1>2. LoopInv(s)'
  <2>1. CASE StreamFails(s)
    BY <1>a, <2>1, Zenon DEF TypeOK, LoopInv, StreamFails, stopVars
  <2>2. CASE Check(s)
    BY <1>a, <2>2, Zenon DEF TypeOK, LoopInv, Check, stopVars
  <2> QED BY <2>1, <2>2, Zenon
<1>t. /\ gen[s] \in Int /\ failures[s] \in Int /\ Owed(s) \in Int /\ Owed(s)' \in Int
      /\ Balance[s] = gen[s] + failures[s] - Owed(s)
      /\ Balance'[s] = gen'[s] + failures'[s] - Owed(s)'
      /\ gen' = gen /\ reconnections \in Int
  BY <1>a DEF TypeOK, Owed, Balance, StreamFails, Check
<1>3. CASE StreamFails(s)
  <2>1. Owed(s) = 0 /\ Owed(s)' = 1
    BY <1>a, <1>3, Zenon DEF TypeOK, StreamFails, Owed
  <2>2. failures'[s] = failures[s] + 1
    BY <1>a, <1>3, Zenon DEF TypeOK, StreamFails
  <2>3. PICK z \in Int : z = 0
    OBVIOUS
  <2>4. reconnections' = reconnections + z /\ Balance[s] + z <= Balance'[s]
    BY <1>1, <1>t, <2>1, <2>2, <2>3
  <2> QED BY <1>1, <1>2, <2>4, LoopStep, Zenon
<1>4. CASE Check(s)
  <2>1. Owed(s)' <= Owed(s)
    BY <1>a, <1>4 DEF TypeOK, LoopInv, Check, Owed
  <2>2. failures'[s] = failures[s]
    BY <1>4, Zenon DEF Check
  <2>3. PICK z \in Int : z = 0
    OBVIOUS
  <2>4. reconnections' = reconnections + z /\ Balance[s] + z <= Balance'[s]
    BY <1>1, <1>t, <2>1, <2>2, <2>3
  <2> QED BY <1>1, <1>2, <2>4, LoopStep
<1> QED BY <1>3, <1>4, Zenon

(* The steps of the manager and of the stop, and the launch of the loops. *)
LEMMA OthersKeep ==
    ASSUME IInv, TypeOK',
           \/ Start \/ startPeriodicTasks \/ DisconnectConsumers \/ ManagerResumes
           \/ ManagerReturns \/ Cancel \/ PeriodicCancel \/ StopConsumers \/ waitWGTimeout
           \/ UNCHANGED vars
    PROVE  IInv'
<1> USE DEF vars, loopVars, stopVars
<1>a. TypeOK /\ (\A s \in Subs : LoopInv(s)) /\ StopInv
  BY Zenon DEF IInv
<1>1. UNCHANGED <<gen, failures, reconnections>> /\ \A s \in Subs : Owed(s)' = Owed(s)
  <2>1. CASE Start
    BY <1>a, <2>1, Zenon DEF Start, LoopInv, Owed
  <2>2. CASE ~Start
    BY <2>2, Zenon DEF startPeriodicTasks, DisconnectConsumers, ManagerResumes, ManagerReturns, Cancel,
       PeriodicCancel, StopConsumers, waitWGTimeout, Owed
  <2> QED BY <2>1, <2>2, Zenon
<1>2. Balance' = Balance
  BY <1>1, Zenon DEF Balance
<1>3. ASSUME NEW s \in Subs PROVE LoopInv(s)'
  <2>0. LoopInv(s)
    BY <1>a, Zenon
  <2>1. CASE Start
    BY <2>0, <2>1, Zenon DEF Start, LoopInv
  <2>2. CASE DisconnectConsumers
    BY <1>a, <2>0, <2>2 DEF DisconnectConsumers, LoopInv, TypeOK
  <2>3. CASE ~Start /\ ~DisconnectConsumers
    BY <2>0, <2>3, Zenon DEF startPeriodicTasks, ManagerResumes, ManagerReturns, Cancel, PeriodicCancel,
       StopConsumers, waitWGTimeout, LoopInv
  <2> QED BY <2>1, <2>2, <2>3, Zenon
<1>4. StopInv'
  BY <1>a, Zenon DEF StopInv, Start, startPeriodicTasks, DisconnectConsumers, ManagerResumes,
     ManagerReturns, Cancel, PeriodicCancel, StopConsumers, PeriodicDone, waitWGTimeout, AllDone
<1> QED BY <1>1, <1>2, <1>3, <1>4, Zenon DEF IInv

LEMMA IInvStep == IInv /\ [Next]_vars => IInv'
<1> SUFFICES ASSUME IInv, [Next]_vars PROVE IInv'
  BY Zenon
<1>1. TypeOK'
  BY TypeStep, Zenon DEF IInv
<1> QED BY <1>1, LoopsOfOne, EnterKeeps, FailureKeeps, OthersKeep, Zenon DEF Next, receiveLoop

(* The invariant of the loops, the manager and the stop holds in every reachable state. *)
THEOREM Invariance == Spec => []IInv
  BY IInvInit, IInvStep, PTL DEF Spec

-----------------------------------------------------------------------------
(* The receive loops, the manager and the counters keep their types (fan_out.go:95-128). *)
THEOREM LoopTypes == Spec => []TypeOK
<1>1. IInv => TypeOK
  BY Zenon DEF IInv
<1> QED BY <1>1, Invariance, PTL

(***************************************************************************)
(* One forced disconnect costs each stream at most one reconnection and    *)
(* every other answers a failure of a stream, whatever the number of       *)
(* subscriptions, disconnects and failures: a sum over the loops, each of  *)
(* which has paid for its own (fan_out.go:95-128).                         *)
(***************************************************************************)
THEOREM ReconnectionsAreJustified == Spec => []ReconnectionsJustified
<1>1. IInv => ReconnectionsJustified
  <2> SUFFICES ASSUME IInv PROVE ReconnectionsJustified
    BY Zenon
  <2>1. disconnectGen \in Int /\ reconnections \in Int
    BY DEF IInv, TypeOK
  <2>2. \A s \in Subs : /\ Balance[s] \in Int /\ failures[s] \in Int
                        /\ Balance[s] <= disconnectGen + failures[s]
    <3> TAKE s \in Subs
    <3>1. gen[s] \in Int /\ failures[s] \in Int /\ gen[s] <= disconnectGen
      BY DEF IInv, TypeOK, LoopInv
    <3>2. Owed(s) \in Int /\ Owed(s) >= 0 /\ Balance[s] = gen[s] + failures[s] - Owed(s)
      BY DEF Owed, Balance
    <3> QED BY <2>1, <3>1, <3>2
  <2>3. Sum(Balance, Subs) <= Cardinality(Subs) * disconnectGen + Sum(failures, Subs)
    BY <2>1, <2>2, SumCompare, ReceiveLoopAssumption, Zenon
  <2>4. Sum(Balance, Subs) \in Int /\ Sum(failures, Subs) \in Int
    BY <2>2, SumType, ReceiveLoopAssumption, Zenon
  <2>5. Cardinality(Subs) * disconnectGen \in Int
    BY <2>1, FS_CardinalityType, ReceiveLoopAssumption
  <2>6. Sum(failures, Subs) = Failed
    BY Zenon DEF Sum, Failed
  <2>7. reconnections <= Sum(Balance, Subs)
    BY Zenon DEF IInv
  <2> QED BY <2>1, <2>3, <2>4, <2>5, <2>6, <2>7 DEF ReconnectionsJustified
<1> QED BY <1>1, Invariance, PTL

(***************************************************************************)
(* Once StopConsumers has returned without giving up, every loop has ended *)
(* and no callback is running on the client that is closed next            *)
(* (worker.go:673-680).                                                    *)
(***************************************************************************)
THEOREM NoStragglers == Spec => []StragglersOnlyAfterTimeout
<1>1. IInv => StragglersOnlyAfterTimeout
  BY Zenon DEF IInv, StopInv, LoopInv, StragglersOnlyAfterTimeout
<1> QED BY <1>1, Invariance, PTL

(***************************************************************************)
(* No disconnect is injected while the consumers are being stopped: the    *)
(* stop waits for the manager to have ended (engine.go:387-394).           *)
(***************************************************************************)
THEOREM StopIsUndisturbed == Spec => NoChurnDuringStop
<1>1. IInv /\ [Next]_vars => [stop # "no" => disconnectGen' = disconnectGen]_vars
  <2> SUFFICES ASSUME IInv, [Next]_vars, stop # "no" PROVE disconnectGen' = disconnectGen
    BY Zenon
  <2>1. manager = "ended"
    BY Zenon DEF IInv, StopInv
  <2> QED
    BY <2>1, Zenon DEF Next, receiveLoop, vars, loopVars, stopVars, Start, startPeriodicTasks,
       DisconnectConsumers, ManagerResumes, ManagerReturns, Cancel, PeriodicCancel, StopConsumers,
       waitWGTimeout, Launch, watchDisconnect, StreamFails, handleMessage, MessageHandled, Enter,
       Receive, Recapture, Check, sleepCtx
<1> QED BY <1>1, Invariance, PTL DEF NoChurnDuringStop, Spec
=============================================================================
