--------------------------- MODULE TrackerProofs ---------------------------
(***************************************************************************)
(* Theorems about the sequence tracker, for every set of producers, window *)
(* size, bound on the sequences and number of calls.                       *)
(***************************************************************************)
EXTENDS Tracker, FiniteSetTheorems, TLAPS

(***************************************************************************)
(* The inductive invariant, one conjunct per fact.  A delivered sequence   *)
(* above the watermark has its bit set unless it overran the window        *)
(* (SeenAbove); with it, an eviction can only be wrong about such a one.   *)
(***************************************************************************)
UntrackedInv(p) ==
    /\ window[p] = {}
    /\ pendingLost[p] = {}
    /\ confirmedLost[p] = 0
    /\ delivered[p] = {}
    /\ sliders[p] = {}

WindowInv(p) ==
    /\ window[p] \subseteq delivered[p]
    /\ \A n \in window[p] : n > highContiguous[p] /\ n <= highContiguous[p] + Window

PendingBelow(p) == \A n \in pendingLost[p] : n <= highContiguous[p]

CountsAgree(p) == confirmedLost[p] = Cardinality(pendingLost[p])

SeenAbove(p) ==
    \A n \in delivered[p] : n > highContiguous[p] => n \in window[p] \/ n \in sliders[p]

FalseLoss(p) == pendingLost[p] \cap delivered[p] \subseteq sliders[p]

ProducerInv(p) ==
    /\ p \notin tracked => UntrackedInv(p)
    /\ WindowInv(p)
    /\ PendingBelow(p)
    /\ CountsAgree(p)
    /\ SeenAbove(p)
    /\ FalseLoss(p)

(* The part that needs deliveries to stay within two windows of the watermark. *)
Accounted(p) ==
    p \in tracked => baseline[p] .. highContiguous[p] \subseteq delivered[p] \cup pendingLost[p]

(* What DetectGaps will have streamed after its next call is backed by evictions. *)
LiveInv(p) ==
    /\ lastReportedLost[p] <= streamed[p]
    /\ streamed[p] <= suspected[p]
    /\ streamed[p] - lastReportedLost[p] + confirmedLost[p] <= suspected[p]

IInv == TypeOK /\ \A p \in Producers : ProducerInv(p)

-----------------------------------------------------------------------------
(***************************************************************************)
(* advanceContiguous moves the watermark exactly over the run of sequences *)
(* that follows it in the window: everything it passes was in the window,  *)
(* and the sequence after it is not.                                       *)
(***************************************************************************)
LEMMA AdvancedLemma ==
    ASSUME NEW h \in Int, NEW w \in SUBSET Int, IsFiniteSet(w)
    PROVE  /\ Advanced(h, w) \in Int
           /\ Advanced(h, w) >= h
           /\ \A n \in Int : n > h /\ n <= Advanced(h, w) => n \in w
           /\ Advanced(h, w) + 1 \notin w
<1> DEFINE R == Run(h, w)
           c == Cardinality(R)
<1>1. R \subseteq w /\ R \subseteq Int
  BY Zenon DEF Run
<1>2. IsFiniteSet(R) /\ c \in Nat
  BY <1>1, FS_Subset, FS_CardinalityType, Zenon
<1>3. ASSUME NEW n \in R PROVE (h + 1) .. n \subseteq R /\ n > h
  BY DEF Run
<1>4. ASSUME NEW n \in R PROVE n <= h + c
  <2>1. n \in Int /\ n > h /\ (h + 1) .. n \in SUBSET R
    BY <1>1, <1>3, Zenon
  <2>2. Cardinality((h + 1) .. n) = n - h
    <3>1. h + 1 \in Int /\ ~(h + 1 > n) /\ n - (h + 1) + 1 = n - h
      BY <2>1
    <3> QED BY <3>1, <2>1, FS_Interval, Zenon
  <2>3. Cardinality((h + 1) .. n) <= c
    BY <2>1, <1>2, FS_Subset, Zenon
  <2> QED BY <2>1, <2>2, <2>3, <1>2
<1>5. R \in SUBSET ((h + 1) .. (h + c))
  BY <1>1, <1>2, <1>3, <1>4
<1>6. IsFiniteSet((h + 1) .. (h + c)) /\ Cardinality((h + 1) .. (h + c)) = c
  <2>1. h + 1 \in Int /\ h + c \in Int
    BY <1>2
  <2>2. IF h + 1 > h + c THEN c = 0 ELSE (h + c) - (h + 1) + 1 = c
    BY <1>2
  <2> QED BY <2>1, <2>2, FS_Interval, Zenon
<1>7. R = (h + 1) .. (h + c)
  <2> HIDE DEF R, c
  <2>1. Cardinality((h + 1) .. (h + c)) = Cardinality(R)
    BY <1>6, Zenon DEF c
  <2> QED BY <1>5, <1>6, <2>1, FS_Subset, Zenon
<1>8. h + c + 1 \notin w
  <2> SUFFICES ASSUME h + c + 1 \in w PROVE FALSE
    BY Zenon
  <2>1. (h + 1) .. (h + c + 1) \subseteq w
    BY <1>1, <1>2, <1>7
  <2>2. h + c + 1 \in R
    BY <2>1, <1>2 DEF Run
  <2> QED BY <2>2, <1>4, <1>2
<1>9. Advanced(h, w) = h + c
  BY Zenon DEF Advanced
<1> QED BY <1>1, <1>2, <1>7, <1>8, <1>9

(***************************************************************************)
(* The sets of sequences are finite, so Cardinality means something.       *)
(***************************************************************************)
LEMMA SeqsFinite ==
    /\ IsFiniteSet(Seqs)
    /\ \A S \in SUBSET Seqs : IsFiniteSet(S) /\ Cardinality(S) \in Nat
<1>1. IsFiniteSet(Seqs)
  BY TrackerAssumption, FS_Interval DEF Seqs
<1> QED BY <1>1, FS_Subset, FS_CardinalityType, Zenon

(***************************************************************************)
(* The watermark stays a sequence: it is where it was or on a sequence of  *)
(* the window.                                                             *)
(***************************************************************************)
LEMMA AdvancedType ==
    ASSUME NEW h \in Int, h >= -1, h <= MaxSeq, NEW w \in SUBSET Seqs,
           h = -1 => 0 \in w
    PROVE  Advanced(h, w) \in Seqs
<1>1. IsFiniteSet(w) /\ w \in SUBSET Int
  BY SeqsFinite DEF Seqs
<1> DEFINE a == Advanced(h, w)
<1>2. /\ a \in Int
      /\ a >= h
      /\ \A n \in Int : n > h /\ n <= a => n \in w
      /\ a + 1 \notin w
  BY <1>1, AdvancedLemma, Zenon
<1> HIDE DEF a
<1>3. CASE a = h
  BY <1>2, <1>3, TrackerAssumption DEF Seqs, a
<1>4. CASE a > h
  BY <1>2, <1>4 DEF Seqs, a
<1> QED BY <1>2, <1>3, <1>4

-----------------------------------------------------------------------------
(* Every action of Record keeps TypeOK. *)
LEMMA RecordType ==
    ASSUME TypeOK, NEW p \in Producers, NEW seq \in Seqs, Record(p, seq)
    PROVE  TypeOK'
<1> USE TrackerAssumption
<1>1. /\ calls' \in 0 .. MaxCalls
      /\ delivered' \in [Producers -> SUBSET Seqs]
      /\ streamed' \in [Producers -> Nat]
  BY DEF Record, TypeOK
<1>2. CASE RecordFirst(p, seq)
  <2>1. Advanced(seq - 1, {seq}) \in Seqs
    <3>1. /\ seq - 1 \in Int /\ seq - 1 >= -1 /\ seq - 1 <= MaxSeq
          /\ {seq} \in SUBSET Seqs
          /\ (seq - 1 = -1 => 0 \in {seq})
      BY DEF Seqs
    <3> QED BY <3>1, AdvancedType, Zenon
  <2> QED BY <1>1, <1>2, <2>1, Zenon DEF RecordFirst, advanceContiguous, TypeOK
<1>3. CASE RecordRecovered(p, seq)
  <2>1. pendingLost' \in [Producers -> SUBSET Seqs]
    BY <1>3, Zenon DEF RecordRecovered, TypeOK
  <2>2. Cardinality(pendingLost'[p]) \in Nat
    BY <2>1, SeqsFinite, Zenon
  <2> QED BY <1>1, <1>3, <2>1, <2>2 DEF RecordRecovered, RecordLater, TypeOK
<1>4. CASE RecordDuplicate(p, seq)
  BY <1>1, <1>4 DEF RecordDuplicate, Seen, RecordLater, TypeOK
<1>5. CASE RecordInWindow(p, seq)
  <2>1. Advanced(highContiguous[p], window[p] \cup {seq}) \in Seqs
    <3>1. /\ highContiguous[p] \in Int /\ highContiguous[p] >= 0 /\ highContiguous[p] <= MaxSeq
          /\ window[p] \cup {seq} \in SUBSET Seqs
      BY DEF TypeOK, Seqs
    <3> QED BY <3>1, AdvancedType
  <2> QED BY <1>1, <1>5, <2>1 DEF RecordInWindow, Seen, RecordLater, advanceContiguous, TypeOK
<1>6. CASE RecordBeyondWindow(p, seq)
  <2> DEFINE newHigh == seq - Window - 1
  <2>0. /\ highContiguous[p] \in Seqs /\ window[p] \in SUBSET Seqs
        /\ seq \in Int /\ newHigh \in Int /\ newHigh <= MaxSeq
        /\ slideWindow(p, seq)
    BY <1>6 DEF TypeOK, Seqs, RecordBeyondWindow
  <2>1. CASE newHigh <= highContiguous[p]
    <3>1. Marked(seq, highContiguous[p]) \in SUBSET Seqs
      BY Zenon DEF Marked
    <3>2. /\ window' = [window EXCEPT ![p] = @ \cup Marked(seq, highContiguous[p])]
          /\ UNCHANGED <<highContiguous, pendingLost, confirmedLost, suspected>>
      BY <2>0, <2>1, Zenon DEF slideWindow
    <3> QED BY <1>1, <1>6, <3>1, <3>2 DEF RecordBeyondWindow, RecordLater, TypeOK
  <2>2. CASE newHigh > highContiguous[p]
    <3> DEFINE w == {n \in window[p] : n > newHigh} \cup Marked(seq, newHigh)
    <3>1. /\ pendingLost' = [pendingLost EXCEPT ![p] = @ \cup Evicted(p, newHigh)]
          /\ confirmedLost' = [confirmedLost EXCEPT ![p] = Cardinality(pendingLost'[p])]
          /\ suspected' = [suspected EXCEPT ![p] = @ + Cardinality(Evicted(p, newHigh))]
          /\ advanceContiguous(p, newHigh, w)
      <4>1. ~(newHigh <= highContiguous[p])
        BY <2>0, <2>2 DEF Seqs
      <4> QED BY <2>0, <4>1, Zenon DEF slideWindow
    <3>2. Evicted(p, newHigh) \in SUBSET Seqs
      BY <2>0, <2>2 DEF Evicted, Minimum, Seqs
    <3>3. pendingLost' \in [Producers -> SUBSET Seqs]
      BY <3>1, <3>2, Zenon DEF TypeOK
    <3>4. Cardinality(pendingLost'[p]) \in Nat /\ Cardinality(Evicted(p, newHigh)) \in Nat
      BY <3>2, <3>3, SeqsFinite, Zenon
    <3>5. w \in SUBSET Seqs
      BY <2>0, Zenon DEF Marked
    <3>6. Advanced(newHigh, w) \in Seqs
      <4>1. newHigh >= 0
        BY <2>0, <2>2 DEF Seqs
      <4> HIDE DEF newHigh, w
      <4> QED BY <2>0, <3>5, <4>1, AdvancedType
    <3>7. /\ highContiguous' \in [Producers -> Seqs]
          /\ window' \in [Producers -> SUBSET Seqs]
      <4> HIDE DEF newHigh, w
      <4> QED BY <3>1, <3>5, <3>6, Zenon DEF advanceContiguous, TypeOK
    <3>8. /\ confirmedLost' \in [Producers -> Nat]
          /\ suspected' \in [Producers -> Nat]
      <4> HIDE DEF newHigh, w
      <4> QED BY <3>1, <3>4 DEF TypeOK
    <3>9. /\ received' \in [Producers -> Nat] /\ outOfOrder' \in [Producers -> Nat]
          /\ lastSeen' \in [Producers -> Seqs] /\ sliders' \in [Producers -> SUBSET Seqs]
          /\ UNCHANGED <<tracked, lastReportedLost, baseline, duplicates>>
      <4> HIDE DEF newHigh, w
      <4> QED BY <1>6 DEF RecordBeyondWindow, RecordLater, TypeOK
    <3> HIDE DEF newHigh, w
    <3> QED BY <1>1, <3>3, <3>7, <3>8, <3>9, Zenon DEF TypeOK
  <2> QED BY <2>0, <2>1, <2>2 DEF Seqs
<1> QED BY <1>2, <1>3, <1>4, <1>5, <1>6, Zenon DEF Record

(* Every step keeps TypeOK. *)
LEMMA NextType == TypeOK /\ [Next]_vars => TypeOK'
<1> SUFFICES ASSUME TypeOK, [Next]_vars PROVE TypeOK'
  BY Zenon
<1>1. ASSUME NEW p \in Producers, NEW seq \in Seqs, Record(p, seq) PROVE TypeOK'
  BY <1>1, RecordType, Zenon
<1>2. CASE DetectGaps
  <2>1. \A p \in Producers : Delta(p) \in Nat
    BY DEF Delta, TypeOK
  <2> QED BY <1>2, <2>1 DEF DetectGaps, history, TypeOK
<1>3. CASE Reset
  BY <1>3, TrackerAssumption DEF Reset, Zero, Empty, Seqs, TypeOK
<1>4. CASE UNCHANGED vars
  BY <1>4, Zenon DEF vars, producerState, history, TypeOK
<1> QED BY <1>1, <1>2, <1>3, <1>4, Zenon DEF Next

LEMMA InitType == Init => TypeOK
  BY TrackerAssumption DEF Init, Zero, Empty, Seqs, TypeOK

(***************************************************************************)
(* Type correctness of the tracker: the watermark and the sets of          *)
(* sequences stay inside the deliverable sequences through every Record,   *)
(* slide, DetectGaps and Reset.                                            *)
(***************************************************************************)
THEOREM TypeCorrect == Spec => []TypeOK
  BY InitType, NextType, PTL DEF Spec

-----------------------------------------------------------------------------
(* A call for p leaves the state of every other producer alone. *)
LEMMA RecordOthers ==
    ASSUME TypeOK, NEW p \in Producers, NEW q \in Producers, q # p,
           NEW seq \in Seqs, Record(p, seq)
    PROVE  /\ q \in tracked' <=> q \in tracked
           /\ highContiguous'[q] = highContiguous[q]
           /\ window'[q] = window[q]
           /\ pendingLost'[q] = pendingLost[q]
           /\ confirmedLost'[q] = confirmedLost[q]
           /\ lastReportedLost'[q] = lastReportedLost[q]
           /\ duplicates'[q] = duplicates[q]
           /\ received'[q] = received[q]
           /\ streamed'[q] = streamed[q]
           /\ baseline'[q] = baseline[q]
           /\ delivered'[q] = delivered[q]
           /\ sliders'[q] = sliders[q]
           /\ suspected'[q] = suspected[q]
<1>1. delivered'[q] = delivered[q] /\ streamed'[q] = streamed[q]
  BY Zenon DEF Record, TypeOK
<1>2. CASE RecordFirst(p, seq)
  BY <1>1, <1>2, Zenon DEF RecordFirst, advanceContiguous, TypeOK
<1>3. CASE RecordRecovered(p, seq)
  BY <1>1, <1>3, Zenon DEF RecordRecovered, RecordLater, TypeOK
<1>4. CASE RecordDuplicate(p, seq)
  BY <1>1, <1>4, Zenon DEF RecordDuplicate, Seen, RecordLater, TypeOK
<1>5. CASE RecordInWindow(p, seq)
  BY <1>1, <1>5, Zenon DEF RecordInWindow, Seen, RecordLater, advanceContiguous, TypeOK
<1>6. CASE RecordBeyondWindow(p, seq)
  BY <1>1, <1>6 DEF RecordBeyondWindow, RecordLater, slideWindow, advanceContiguous, TypeOK
<1> QED BY <1>2, <1>3, <1>4, <1>5, <1>6, Zenon DEF Record

(***************************************************************************)
(* What slideWindow does to p's state: either nothing (the sequence is     *)
(* exactly one past the window), or the watermark moves to a, at or past   *)
(* newHigh, and the unseen sequences that leave the window become pending. *)
(* In neither case is the bit of the new sequence set.                     *)
(***************************************************************************)
LEMMA SlideEffect ==
    ASSUME TypeOK, NEW p \in Producers, NEW seq \in Seqs, RecordBeyondWindow(p, seq)
    PROVE  LET newHigh == seq - Window - 1
               w == {n \in window[p] : n > newHigh}
               a == Advanced(newHigh, w)
           IN  \/ /\ newHigh <= highContiguous[p]
                  /\ highContiguous'[p] = highContiguous[p]
                  /\ window'[p] = window[p]
                  /\ pendingLost'[p] = pendingLost[p]
                  /\ confirmedLost'[p] = confirmedLost[p]
                  /\ suspected'[p] = suspected[p]
               \/ /\ newHigh > highContiguous[p]
                  /\ highContiguous'[p] = a
                  /\ a \in Int /\ a >= newHigh
                  /\ \A n \in Int : n > newHigh /\ n <= a => n \in w
                  /\ window'[p] = {n \in w : n > a}
                  /\ pendingLost'[p] = pendingLost[p] \cup Evicted(p, newHigh)
                  /\ confirmedLost'[p] = Cardinality(pendingLost'[p])
                  /\ suspected'[p] = suspected[p] + Cardinality(Evicted(p, newHigh))
<1> USE TrackerAssumption
<1> DEFINE newHigh == seq - Window - 1
           w == {n \in window[p] : n > newHigh}
           a == Advanced(newHigh, w)
<1>1. /\ seq \in Int /\ newHigh \in Int /\ highContiguous[p] \in Int
      /\ window[p] \in SUBSET Seqs
      /\ seq - highContiguous[p] - 1 >= Window
      /\ slideWindow(p, seq)
  BY DEF TypeOK, Seqs, RecordBeyondWindow
<1>2. CASE newHigh <= highContiguous[p]
  <2>1. Marked(seq, highContiguous[p]) = {}
    BY <1>1 DEF Marked
  <2>2. /\ window' = [window EXCEPT ![p] = @ \cup Marked(seq, highContiguous[p])]
        /\ UNCHANGED <<highContiguous, pendingLost, confirmedLost, suspected>>
    BY <1>1, <1>2, Zenon DEF slideWindow
  <2> QED BY <1>2, <2>1, <2>2, Zenon DEF TypeOK
<1>3. CASE newHigh > highContiguous[p]
  <2>1. Marked(seq, newHigh) = {}
    BY <1>1 DEF Marked
  <2>2. w \cup Marked(seq, newHigh) = w
    BY <2>1, Zenon
  <2>3. /\ pendingLost' = [pendingLost EXCEPT ![p] = @ \cup Evicted(p, newHigh)]
        /\ confirmedLost' = [confirmedLost EXCEPT ![p] = Cardinality(pendingLost'[p])]
        /\ suspected' = [suspected EXCEPT ![p] = @ + Cardinality(Evicted(p, newHigh))]
        /\ advanceContiguous(p, newHigh, w)
    <3>1. ~(newHigh <= highContiguous[p])
      BY <1>1, <1>3
    <3> QED BY <1>1, <2>2, <3>1, Zenon DEF slideWindow
  <2>4. IsFiniteSet(w) /\ w \in SUBSET Int
    BY <1>1, SeqsFinite DEF Seqs
  <2> HIDE DEF newHigh, w
  <2>5. /\ a \in Int /\ a >= newHigh
        /\ \A n \in Int : n > newHigh /\ n <= a => n \in w
    BY <1>1, <2>4, AdvancedLemma, Zenon
  <2>6. /\ highContiguous'[p] = a /\ window'[p] = {n \in w : n > a}
        /\ pendingLost'[p] = pendingLost[p] \cup Evicted(p, newHigh)
        /\ confirmedLost'[p] = Cardinality(pendingLost'[p])
        /\ suspected'[p] = suspected[p] + Cardinality(Evicted(p, newHigh))
    BY <2>3, Zenon DEF advanceContiguous, TypeOK
  <2> QED BY <1>3, <2>5, <2>6, Zenon DEF newHigh, w
<1> QED BY <1>1, <1>2, <1>3

-----------------------------------------------------------------------------
(* A first delivery puts the watermark on the sequence and leaves no bit set. *)
LEMMA FirstEffect ==
    ASSUME TypeOK, NEW p \in Producers, NEW seq \in Seqs, RecordFirst(p, seq)
    PROVE  highContiguous'[p] = seq /\ window'[p] = {}
<1> DEFINE a == Advanced(seq - 1, {seq})
<1>0. seq \in Int
  BY DEF Seqs
<1>1. seq - 1 \in Int /\ {seq} \in SUBSET Int /\ IsFiniteSet({seq})
  <2>1. IsFiniteSet({seq})
    BY FS_Singleton, Zenon
  <2>2. seq - 1 \in Int /\ {seq} \in SUBSET Int
    BY <1>0
  <2> QED BY <2>1, <2>2, Zenon
<1>2. /\ a \in Int /\ a >= seq - 1
      /\ \A n \in Int : n > seq - 1 /\ n <= a => n \in {seq}
      /\ a + 1 \notin {seq}
  BY <1>1, AdvancedLemma, SMTT(20)
<1> HIDE DEF a
<1>3. a = seq
  <2>1. a # seq - 1
    BY <1>1, <1>2
  <2>2. ~(a >= seq + 1)
    <3> SUFFICES ASSUME a >= seq + 1 PROVE FALSE
      BY Zenon
    <3>1. seq + 1 \in Int /\ seq + 1 > seq - 1 /\ seq \in Int
      BY <1>1
    <3>2. seq + 1 \in {seq}
      BY <1>2, <3>1, Zenon
    <3> QED BY <3>1, <3>2
  <2> QED BY <1>1, <1>2, <2>1, <2>2
<1>4. highContiguous'[p] = a /\ window'[p] = {n \in {seq} : n > a}
  BY Zenon DEF RecordFirst, advanceContiguous, TypeOK, a
<1> QED BY <1>1, <1>3, <1>4

(***************************************************************************)
(* A call for p keeps p's invariant.                                       *)
(***************************************************************************)
LEMMA RecordInv ==
    ASSUME TypeOK, NEW p \in Producers, NEW seq \in Seqs, Record(p, seq), ProducerInv(p)
    PROVE  ProducerInv(p)'
<1> USE TrackerAssumption
<1>0. /\ delivered'[p] = delivered[p] \cup {seq}
      /\ seq \in Int /\ highContiguous[p] \in Int
      /\ \A n \in delivered[p] : n \in Int
      /\ \A n \in window[p] : n \in Int
      /\ \A n \in pendingLost[p] : n \in Int
  BY DEF Record, TypeOK, Seqs
<1>1. CASE RecordFirst(p, seq)
  <2>1. /\ UntrackedInv(p)
        /\ p \in tracked'
        /\ UNCHANGED <<pendingLost, confirmedLost, sliders>>
    BY <1>1, Zenon DEF RecordFirst, ProducerInv
  <2>2. highContiguous'[p] = seq /\ window'[p] = {} /\ delivered'[p] = {seq}
    BY <1>0, <1>1, <2>1, FirstEffect, Zenon DEF UntrackedInv
  <2> QED BY <1>0, <2>1, <2>2, FS_EmptySet
          DEF ProducerInv, UntrackedInv, WindowInv, PendingBelow, CountsAgree, SeenAbove, FalseLoss
<1>2. CASE RecordRecovered(p, seq)
  <2>1. /\ p \in tracked'
        /\ UNCHANGED <<highContiguous, window, sliders>>
        /\ pendingLost'[p] = pendingLost[p] \ {seq}
        /\ confirmedLost'[p] = Cardinality(pendingLost'[p])
        /\ seq <= highContiguous[p]
    BY <1>2, Zenon DEF RecordRecovered, RecordLater, TypeOK
  <2> QED BY <1>0, <2>1
          DEF ProducerInv, WindowInv, PendingBelow, CountsAgree, SeenAbove, FalseLoss
<1>3. CASE RecordDuplicate(p, seq)
  <2>1. /\ p \in tracked'
        /\ UNCHANGED <<highContiguous, window, pendingLost, confirmedLost, sliders>>
        /\ \/ seq <= highContiguous[p] /\ seq \notin pendingLost[p]
           \/ seq \in window[p]
    BY <1>3, Zenon DEF RecordDuplicate, Seen, RecordLater
  <2> QED BY <1>0, <2>1
          DEF ProducerInv, WindowInv, PendingBelow, CountsAgree, SeenAbove, FalseLoss
<1>4. CASE RecordInWindow(p, seq)
  <2> DEFINE w == window[p] \cup {seq}
             a == Advanced(highContiguous[p], w)
  <2>1. /\ p \in tracked'
        /\ UNCHANGED <<pendingLost, confirmedLost, sliders>>
        /\ seq > highContiguous[p] /\ seq <= highContiguous[p] + Window
        /\ highContiguous'[p] = a /\ window'[p] = {n \in w : n > a}
    BY <1>0, <1>4 DEF RecordInWindow, Seen, RecordLater, advanceContiguous, TypeOK
  <2>2. w \in SUBSET Int /\ IsFiniteSet(w)
    <3>1. w \in SUBSET Seqs
      BY Zenon DEF TypeOK
    <3> QED BY <3>1, <1>0, SeqsFinite, Zenon
  <2> HIDE DEF w
  <2>3. a \in Int /\ a >= highContiguous[p]
    BY <1>0, <2>2, AdvancedLemma, Zenon
  <2> HIDE DEF a
  <2> QED BY <1>0, <2>1, <2>3
          DEF w, ProducerInv, WindowInv, PendingBelow, CountsAgree, SeenAbove, FalseLoss
<1>5. CASE RecordBeyondWindow(p, seq)
  <2> DEFINE newHigh == seq - Window - 1
             w == {n \in window[p] : n > newHigh}
             a == Advanced(newHigh, w)
             E == Evicted(p, newHigh)
  <2>1. p \in tracked' /\ sliders'[p] = sliders[p] \cup {seq}
    BY <1>5, Zenon DEF RecordBeyondWindow, RecordLater, TypeOK
  <2>2. \/ /\ highContiguous'[p] = highContiguous[p]
           /\ window'[p] = window[p]
           /\ pendingLost'[p] = pendingLost[p]
           /\ confirmedLost'[p] = confirmedLost[p]
        \/ /\ newHigh > highContiguous[p]
           /\ highContiguous'[p] = a
           /\ a \in Int /\ a >= newHigh
           /\ window'[p] = {n \in w : n > a}
           /\ pendingLost'[p] = pendingLost[p] \cup E
           /\ confirmedLost'[p] = Cardinality(pendingLost'[p])
    BY <1>5, SlideEffect, Zenon
  <2>3. newHigh > highContiguous[p] =>
            \A n \in E : n \in Int /\ n > highContiguous[p] /\ n <= newHigh /\ n \notin window[p]
    BY <1>0 DEF Evicted, Minimum
  <2>4. newHigh \in Int
    BY <1>0
  <2> HIDE DEF newHigh, a, E
  <2> QED BY <1>0, <2>1, <2>2, <2>3, <2>4
          DEF ProducerInv, WindowInv, PendingBelow, CountsAgree, SeenAbove, FalseLoss
<1> QED BY <1>1, <1>2, <1>3, <1>4, <1>5, Zenon DEF Record


(***************************************************************************)
(* A call for p leaves nothing below the watermark unaccounted for, as     *)
(* long as no delivery is more than two windows ahead: then slideDist is   *)
(* never cut short by its cap.                                             *)
(***************************************************************************)
LEMMA RecordAccounted ==
    ASSUME TypeOK, NEW p \in Producers, NEW seq \in Seqs, Record(p, seq),
           ProducerInv(p), Accounted(p), Ahead <= 2 * Window + 1
    PROVE  Accounted(p)'
<1> USE TrackerAssumption
<1>0. /\ delivered'[p] = delivered[p] \cup {seq}
      /\ seq \in Int /\ highContiguous[p] \in Int /\ baseline[p] \in Int
      /\ p \in tracked => seq <= highContiguous[p] + Ahead
  BY DEF Record, TypeOK, Seqs
<1>1. CASE RecordFirst(p, seq)
  <2>1. highContiguous'[p] = seq /\ baseline'[p] = seq
    BY <1>1, FirstEffect, Zenon DEF RecordFirst, TypeOK
  <2> QED BY <1>0, <2>1 DEF Accounted
<1>2. CASE RecordRecovered(p, seq)
  <2>1. /\ p \in tracked
        /\ UNCHANGED <<highContiguous, baseline>>
        /\ pendingLost'[p] = pendingLost[p] \ {seq}
    BY <1>2, Zenon DEF RecordRecovered, RecordLater, TypeOK
  <2> QED BY <1>0, <2>1, Zenon DEF Accounted
<1>3. CASE RecordDuplicate(p, seq)
  BY <1>0, <1>3, Zenon DEF RecordDuplicate, Seen, RecordLater, Accounted
<1>4. CASE RecordInWindow(p, seq)
  <2> DEFINE w == window[p] \cup {seq}
             a == Advanced(highContiguous[p], w)
  <2>1. /\ p \in tracked /\ UNCHANGED <<pendingLost, baseline>>
        /\ highContiguous'[p] = a
    BY <1>4, Zenon DEF RecordInWindow, Seen, RecordLater, advanceContiguous, TypeOK
  <2>2. w \in SUBSET Int /\ IsFiniteSet(w)
    <3>1. w \in SUBSET Seqs
      BY Zenon DEF TypeOK
    <3> QED BY <3>1, SeqsFinite DEF Seqs
  <2>3. w \subseteq delivered'[p]
    BY <1>0, Zenon DEF ProducerInv, WindowInv
  <2> HIDE DEF w
  <2>4. a \in Int /\ \A n \in Int : n > highContiguous[p] /\ n <= a => n \in w
    BY <1>0, <2>2, AdvancedLemma, Zenon
  <2> HIDE DEF a
  <2>5. ASSUME NEW n \in baseline[p] .. a PROVE n \in delivered'[p] \cup pendingLost'[p]
    <3>1. CASE n <= highContiguous[p]
      BY <1>0, <2>1, <2>4, <3>1 DEF Accounted
    <3>2. CASE n > highContiguous[p]
      BY <1>0, <2>3, <2>4, <3>2
    <3> QED BY <1>0, <2>4, <3>1, <3>2
  <2> QED BY <2>1, <2>5, Zenon DEF Accounted
<1>5. CASE RecordBeyondWindow(p, seq)
  <2> DEFINE newHigh == seq - Window - 1
             w == {n \in window[p] : n > newHigh}
             a == Advanced(newHigh, w)
             E == Evicted(p, newHigh)
  <2>1. p \in tracked /\ baseline' = baseline
    BY <1>5, Zenon DEF RecordBeyondWindow, RecordLater
  <2>2. \/ /\ highContiguous'[p] = highContiguous[p]
           /\ pendingLost'[p] = pendingLost[p]
        \/ /\ newHigh > highContiguous[p]
           /\ highContiguous'[p] = a
           /\ a \in Int /\ a >= newHigh
           /\ \A n \in Int : n > newHigh /\ n <= a => n \in w
           /\ pendingLost'[p] = pendingLost[p] \cup E
    BY <1>5, SlideEffect, Zenon
  <2>3. newHigh > highContiguous[p] =>
            \A n \in Int : n > highContiguous[p] /\ n <= newHigh => n \in window[p] \/ n \in E
    <3>1. newHigh - highContiguous[p] <= Window
      BY <1>0, <2>1
    <3> QED BY <1>0, <3>1 DEF Evicted, Minimum
  <2>4. newHigh \in Int /\ w \subseteq window[p] /\ window[p] \subseteq delivered[p]
    <3>1. window[p] \subseteq delivered[p]
      BY <1>0, Zenon DEF ProducerInv, WindowInv
    <3>2. seq \in Int /\ Window \in Int
      BY <1>0
    <3>3. newHigh \in Int
      BY <3>2
    <3> QED BY <3>1, <3>3, Zenon
  <2> HIDE DEF newHigh, w, a, E
  <2>5. CASE newHigh > highContiguous[p] /\ highContiguous'[p] = a
             /\ a \in Int /\ a >= newHigh
             /\ (\A n \in Int : n > newHigh /\ n <= a => n \in w)
             /\ pendingLost'[p] = pendingLost[p] \cup E
    <3>1. ASSUME NEW n \in baseline[p] .. a PROVE n \in delivered'[p] \cup pendingLost'[p]
      <4>1. CASE n <= highContiguous[p]
        BY <1>0, <2>1, <2>5, <4>1 DEF Accounted
      <4>2. CASE n > highContiguous[p] /\ n <= newHigh
        BY <1>0, <2>3, <2>4, <2>5, <4>2
      <4>3. CASE n > newHigh
        BY <1>0, <2>4, <2>5, <4>3
      <4>4. n \in Int /\ highContiguous[p] \in Int
        BY <1>0, <2>5
      <4>5. n <= highContiguous[p] \/ (n > highContiguous[p] /\ n <= newHigh) \/ n > newHigh
        BY <2>4, <4>4
      <4> QED BY <4>1, <4>2, <4>3, <4>5, Zenon
    <3> QED BY <2>1, <2>5, <3>1, Zenon DEF Accounted
  <2> QED BY <1>0, <2>1, <2>2, <2>5, Zenon DEF Accounted
<1> QED BY <1>1, <1>2, <1>3, <1>4, <1>5, Zenon DEF Record

(***************************************************************************)
(* A call for p keeps the live metric backed: a slide raises TotalLost by  *)
(* at most what it evicts, a recovery only lowers it.                      *)
(***************************************************************************)
LEMMA RecordLive ==
    ASSUME TypeOK, NEW p \in Producers, NEW seq \in Seqs, Record(p, seq),
           ProducerInv(p), LiveInv(p)
    PROVE  LiveInv(p)'
<1> USE TrackerAssumption
<1>0. /\ streamed' = streamed
      /\ streamed[p] \in Nat /\ lastReportedLost[p] \in Nat
      /\ confirmedLost[p] \in Nat /\ suspected[p] \in Nat
      /\ pendingLost[p] \in SUBSET Seqs
      /\ confirmedLost[p] = Cardinality(pendingLost[p])
  BY Zenon DEF Record, TypeOK, ProducerInv, CountsAgree
<1>1. CASE RecordFirst(p, seq) \/ RecordDuplicate(p, seq) \/ RecordInWindow(p, seq)
  BY <1>0, <1>1, Zenon DEF RecordFirst, RecordDuplicate, Seen, RecordInWindow, RecordLater, LiveInv
<1>2. CASE RecordRecovered(p, seq)
  <2>1. /\ UNCHANGED <<lastReportedLost, suspected>>
        /\ confirmedLost'[p] = Cardinality(pendingLost[p] \ {seq})
    BY <1>2, Zenon DEF RecordRecovered, RecordLater, TypeOK
  <2>2. Cardinality(pendingLost[p] \ {seq}) \in Nat
        /\ Cardinality(pendingLost[p] \ {seq}) <= confirmedLost[p]
    <3>1. pendingLost[p] \ {seq} \in SUBSET pendingLost[p]
      BY Zenon
    <3>2. IsFiniteSet(pendingLost[p]) /\ pendingLost[p] \ {seq} \in SUBSET Seqs
      BY <1>0, SeqsFinite, Zenon
    <3>3. Cardinality(pendingLost[p] \ {seq}) \in Nat
      BY <3>2, SeqsFinite, Zenon
    <3>4. Cardinality(pendingLost[p] \ {seq}) <= Cardinality(pendingLost[p])
      BY <3>1, <3>2, FS_Subset, Zenon
    <3> QED BY <1>0, <3>3, <3>4, Zenon
  <2>3. /\ streamed'[p] = streamed[p] /\ lastReportedLost'[p] = lastReportedLost[p]
        /\ suspected'[p] = suspected[p]
        /\ confirmedLost'[p] \in Nat /\ confirmedLost'[p] <= confirmedLost[p]
    BY <1>0, <2>1, <2>2, Zenon
  <2>4. /\ lastReportedLost[p] <= streamed[p] /\ streamed[p] <= suspected[p]
        /\ streamed[p] - lastReportedLost[p] + confirmedLost[p] <= suspected[p]
    BY Zenon DEF LiveInv
  <2>5. streamed[p] - lastReportedLost[p] + confirmedLost'[p] <= suspected[p]
    BY <1>0, <2>3, <2>4
  <2> QED BY <2>3, <2>4, <2>5, Zenon DEF LiveInv
<1>3. CASE RecordBeyondWindow(p, seq)
  <2> DEFINE newHigh == seq - Window - 1
             E == Evicted(p, newHigh)
  <2>1. lastReportedLost' = lastReportedLost
    BY <1>3, Zenon DEF RecordBeyondWindow, RecordLater
  <2>2. \/ /\ confirmedLost'[p] = confirmedLost[p]
           /\ suspected'[p] = suspected[p]
        \/ /\ newHigh > highContiguous[p]
           /\ pendingLost'[p] = pendingLost[p] \cup E
           /\ confirmedLost'[p] = Cardinality(pendingLost'[p])
           /\ suspected'[p] = suspected[p] + Cardinality(E)
    BY <1>3, SlideEffect, Zenon
  <2>3. newHigh > highContiguous[p] => E \in SUBSET Seqs
    <3>1. highContiguous[p] \in Seqs
      BY Zenon DEF TypeOK
    <3> QED BY <3>1 DEF Evicted, Minimum, Seqs
  <2> HIDE DEF newHigh, E
  <2>4. newHigh > highContiguous[p] =>
            /\ Cardinality(E) \in Nat
            /\ Cardinality(pendingLost[p] \cup E) \in Nat
            /\ Cardinality(pendingLost[p] \cup E) <= confirmedLost[p] + Cardinality(E)
    <3> HAVE newHigh > highContiguous[p]
    <3>1. /\ IsFiniteSet(E) /\ IsFiniteSet(pendingLost[p]) /\ IsFiniteSet(pendingLost[p] \cap E)
          /\ Cardinality(E) \in Nat /\ Cardinality(pendingLost[p] \cap E) \in Nat
          /\ Cardinality(pendingLost[p] \cup E) \in Nat
      <4>1. /\ E \in SUBSET Seqs /\ pendingLost[p] \cap E \in SUBSET Seqs
            /\ pendingLost[p] \cup E \in SUBSET Seqs
        BY <1>0, <2>3, Zenon
      <4> QED BY <1>0, <4>1, SeqsFinite, Zenon
    <3>2. Cardinality(pendingLost[p] \cup E)
            = Cardinality(pendingLost[p]) + Cardinality(E) - Cardinality(pendingLost[p] \cap E)
      BY <3>1, FS_Union, Zenon
    <3> QED BY <1>0, <3>1, <3>2
  <2>5. \/ confirmedLost'[p] = confirmedLost[p] /\ suspected'[p] = suspected[p]
        \/ \E k \in Nat : /\ suspected'[p] = suspected[p] + k
                         /\ confirmedLost'[p] \in Nat
                         /\ confirmedLost'[p] <= confirmedLost[p] + k
    BY <2>2, <2>4, Zenon
  <2> QED BY <1>0, <2>1, <2>5 DEF LiveInv
<1> QED BY <1>1, <1>2, <1>3, Zenon DEF Record

-----------------------------------------------------------------------------
(* The per-producer invariants hold initially, and every step keeps them. *)
LEMMA InitInv ==
    Init => IInv /\ \A p \in Producers : Accounted(p) /\ LiveInv(p)
<1> SUFFICES ASSUME Init PROVE IInv /\ \A p \in Producers : Accounted(p) /\ LiveInv(p)
  BY Zenon
<1>1. ASSUME NEW p \in Producers PROVE ProducerInv(p) /\ Accounted(p) /\ LiveInv(p)
  BY FS_EmptySet DEF Init, Zero, Empty, ProducerInv, UntrackedInv, WindowInv, PendingBelow,
                     CountsAgree, SeenAbove, FalseLoss, Accounted, LiveInv
<1> QED BY <1>1, InitType, Zenon DEF IInv

LEMMA NextInv ==
    ASSUME IInv, [Next]_vars, NEW q \in Producers
    PROVE  /\ ProducerInv(q)'
           /\ Ahead <= 2 * Window + 1 /\ Accounted(q) => Accounted(q)'
           /\ LiveInv(q) => LiveInv(q)'
<1> USE DEF IInv
<1>1. ASSUME NEW p \in Producers, NEW seq \in Seqs, Record(p, seq)
      PROVE  /\ ProducerInv(q)'
             /\ Ahead <= 2 * Window + 1 /\ Accounted(q) => Accounted(q)'
             /\ LiveInv(q) => LiveInv(q)'
  <2>1. CASE q = p
    BY <1>1, <2>1, RecordInv, RecordAccounted, RecordLive, Zenon
  <2>2. CASE q # p
    <3>1. ProducerInv(q)
      BY Zenon
    <3>2. /\ q \in tracked' <=> q \in tracked
          /\ highContiguous'[q] = highContiguous[q]
          /\ window'[q] = window[q]
          /\ pendingLost'[q] = pendingLost[q]
          /\ confirmedLost'[q] = confirmedLost[q]
          /\ lastReportedLost'[q] = lastReportedLost[q]
          /\ streamed'[q] = streamed[q]
          /\ baseline'[q] = baseline[q]
          /\ delivered'[q] = delivered[q]
          /\ sliders'[q] = sliders[q]
          /\ suspected'[q] = suspected[q]
      BY <1>1, <2>2, RecordOthers, Zenon
    <3> QED BY <3>1, <3>2, Zenon DEF ProducerInv, UntrackedInv, WindowInv, PendingBelow,
                              CountsAgree, SeenAbove, FalseLoss, Accounted, LiveInv
  <2> QED BY <2>1, <2>2, Zenon
<1>2. CASE DetectGaps
  <2>1. ProducerInv(q)' /\ (Accounted(q) => Accounted(q)')
    BY <1>2, Zenon DEF DetectGaps, history, ProducerInv, UntrackedInv, WindowInv, PendingBelow,
                CountsAgree, SeenAbove, FalseLoss, Accounted
  <2>2. /\ streamed'[q] = streamed[q] + Delta(q)
        /\ lastReportedLost'[q] = confirmedLost[q]
        /\ confirmedLost'[q] = confirmedLost[q]
        /\ suspected'[q] = suspected[q]
    BY <1>2, Zenon DEF DetectGaps, history
  <2>3. /\ streamed[q] \in Nat /\ lastReportedLost[q] \in Nat
        /\ confirmedLost[q] \in Nat /\ suspected[q] \in Nat
        /\ q \notin tracked => confirmedLost[q] = 0
    BY Zenon DEF TypeOK, ProducerInv, UntrackedInv
  <2>4. LiveInv(q) => LiveInv(q)'
    BY <2>2, <2>3 DEF LiveInv, Delta
  <2> QED BY <2>1, <2>4, Zenon
<1>3. CASE Reset
  <2>1. /\ streamed' = streamed /\ suspected' = suspected
        /\ streamed[q] \in Nat /\ suspected[q] \in Nat
    BY <1>3, Zenon DEF Reset, TypeOK
  <2>2. /\ q \notin tracked'
        /\ window'[q] = {} /\ pendingLost'[q] = {} /\ delivered'[q] = {} /\ sliders'[q] = {}
        /\ confirmedLost'[q] = 0 /\ lastReportedLost'[q] = 0
    BY <1>3, Zenon DEF Reset, Zero, Empty
  <2>3. CountsAgree(q)'
    BY <2>2, FS_EmptySet, Zenon DEF CountsAgree
  <2>4. ProducerInv(q)' /\ Accounted(q)'
    BY <2>2, <2>3, Zenon DEF ProducerInv, UntrackedInv, WindowInv, PendingBelow, SeenAbove, FalseLoss,
                      Accounted
  <2>5. LiveInv(q) => LiveInv(q)'
    BY <2>1, <2>2 DEF LiveInv
  <2> QED BY <2>4, <2>5, Zenon
<1>4. CASE UNCHANGED vars
  BY <1>4, Zenon DEF vars, producerState, history, ProducerInv, UntrackedInv, WindowInv, PendingBelow,
              CountsAgree, SeenAbove, FalseLoss, Accounted, LiveInv
<1> QED BY <1>1, <1>2, <1>3, <1>4, Zenon DEF Next

LEMMA Inductive == Spec => []IInv
<1>1. IInv /\ [Next]_vars => IInv'
  BY NextInv, NextType, Zenon DEF IInv
<1> QED BY <1>1, InitInv, PTL DEF Spec

(***************************************************************************)
(* A reported loss that is false is about a sequence that overran the      *)
(* window, whatever the window size and however far ahead deliveries are.  *)
(***************************************************************************)
THEOREM FalseLossBounded == Spec => []FalseLossOnlyFromSliders
<1>1. IInv => FalseLossOnlyFromSliders
  BY Zenon DEF IInv, TypeOK, ProducerInv, FalseLoss, FalseLossOnlyFromSliders
<1> QED BY <1>1, Inductive, PTL

(***************************************************************************)
(* The live loss metric is at least what was reported and at most what was *)
(* evicted, for every interleaving of Record, DetectGaps and Reset.        *)
(***************************************************************************)
THEOREM LiveLossSound == Spec => []LiveLossIsBacked
<1> DEFINE L == \A p \in Producers : LiveInv(p)
<1>1. Init => L
  BY InitInv, Zenon
<1>2. IInv /\ L /\ [Next]_vars => L'
  BY NextInv, Zenon
<1>3. L => LiveLossIsBacked
  BY Zenon DEF LiveInv, LiveLossIsBacked
<1> HIDE DEF L
<1> QED BY <1>1, <1>2, <1>3, Inductive, PTL DEF Spec

(* Everything between the baseline and the watermark is delivered or pending. *)
LEMMA AlwaysAccounted ==
    ASSUME Ahead <= 2 * Window + 1
    PROVE  Spec => [](\A p \in Producers : Accounted(p))
<1> DEFINE A == \A p \in Producers : Accounted(p)
<1>1. Init => A
  BY InitInv, Zenon
<1>2. IInv /\ A /\ [Next]_vars => A'
  BY NextInv, Zenon
<1> HIDE DEF A
<1>3. Spec => []A
  BY <1>1, <1>2, Inductive, PTL DEF Spec
<1> QED BY <1>3, Zenon DEF A

(***************************************************************************)
(* TotalLost never under-reports, provided no delivery is more than two    *)
(* windows (plus one) ahead of the watermark.  The run TrackerFarAhead     *)
(* shows that the proviso is needed.                                       *)
(***************************************************************************)
THEOREM LossReported ==
    ASSUME Ahead <= 2 * Window + 1
    PROVE  Spec => []LossNotUnderreported
<1>1. IInv /\ (\A p \in Producers : Accounted(p)) => LossNotUnderreported
  <2> SUFFICES ASSUME IInv, \A p \in Producers : Accounted(p), NEW p \in tracked
               PROVE  Cardinality(Missing(p)) <= confirmedLost[p]
    BY Zenon DEF LossNotUnderreported
  <2>1. p \in Producers /\ pendingLost[p] \in SUBSET Seqs
    BY Zenon DEF IInv, TypeOK
  <2>2. Missing(p) \in SUBSET pendingLost[p]
    BY <2>1, Zenon DEF Missing, Accounted
  <2>3. Cardinality(Missing(p)) <= Cardinality(pendingLost[p])
    <3>1. IsFiniteSet(pendingLost[p])
      BY <2>1, SeqsFinite, Zenon
    <3> QED BY <2>2, <3>1, FS_Subset, Zenon
  <2>4. confirmedLost[p] = Cardinality(pendingLost[p])
    BY <2>1, Zenon DEF IInv, ProducerInv, CountsAgree
  <2> QED BY <2>3, <2>4, Zenon
<1> QED BY <1>1, Inductive, AlwaysAccounted, PTL

(***************************************************************************)
(* A delivery judged a duplicate had been delivered before or is older     *)
(* than the baseline, under the same proviso.                              *)
(***************************************************************************)
THEOREM DuplicatesReal ==
    ASSUME Ahead <= 2 * Window + 1
    PROVE  Spec => DuplicateIsRedelivery
<1> DEFINE A == \A p \in Producers : Accounted(p)
           D == \A p \in Producers :
                  JudgedDuplicate(p) => lastSeen'[p] \in delivered[p] \/ lastSeen'[p] < baseline[p]
<1>1. IInv /\ A /\ [Next]_vars => [D]_vars
  <2> SUFFICES ASSUME IInv, A, Next, NEW q \in Producers, JudgedDuplicate(q)
               PROVE  lastSeen'[q] \in delivered[q] \/ lastSeen'[q] < baseline[q]
    BY Zenon
  <2>0. duplicates'[q] > duplicates[q] /\ duplicates[q] \in Nat
    BY Zenon DEF JudgedDuplicate, IInv, TypeOK
  <2>d. duplicates'[q] # duplicates[q]
    BY <2>0
  <2>1. CASE DetectGaps \/ Reset
    <3>1. CASE DetectGaps
      BY <2>0, <3>1 DEF DetectGaps
    <3>2. CASE Reset
      BY <2>0, <3>2 DEF Reset, Zero
    <3> QED BY <2>1, <3>1, <3>2, Zenon
  <2>2. ASSUME NEW p \in Producers, NEW seq \in Seqs, Record(p, seq)
        PROVE  lastSeen'[q] \in delivered[q] \/ lastSeen'[q] < baseline[q]
    <3>1. q = p
      <4>1. q # p => duplicates'[q] = duplicates[q] /\ received'[q] = received[q]
        BY <2>2, RecordOthers, Zenon DEF IInv
      <4> QED BY <2>d, <4>1, Zenon
    <3>2. RecordDuplicate(p, seq)
      <4>1. duplicates'[p] # duplicates[p]
        BY <2>d, <3>1, Zenon
      <4>2. ~RecordFirst(p, seq) /\ ~RecordRecovered(p, seq) /\ ~RecordInWindow(p, seq)
        BY <4>1, Zenon DEF RecordFirst, RecordRecovered, RecordInWindow, RecordLater
      <4>3. ~RecordBeyondWindow(p, seq)
        BY <4>1, Zenon DEF RecordBeyondWindow, RecordLater
      <4> QED BY <2>2, <4>2, <4>3, Zenon DEF Record
    <3>3. /\ lastSeen'[p] = seq /\ p \in tracked
          /\ \/ seq <= highContiguous[p] /\ seq \notin pendingLost[p]
             \/ seq \in window[p]
      BY <3>2, Zenon DEF RecordDuplicate, Seen, RecordLater, IInv, TypeOK
    <3>4. window[p] \subseteq delivered[p]
      BY Zenon DEF IInv, ProducerInv, WindowInv
    <3>5. baseline[p] .. highContiguous[p] \subseteq delivered[p] \cup pendingLost[p]
      BY <3>3, Zenon DEF Accounted
    <3>6. seq \in Int /\ baseline[p] \in Int /\ highContiguous[p] \in Int
      BY DEF IInv, TypeOK, Seqs
    <3>7. CASE seq \in window[p]
      BY <3>1, <3>3, <3>4, <3>7, Zenon
    <3>8. CASE seq <= highContiguous[p] /\ seq \notin pendingLost[p]
      <4>1. seq >= baseline[p] => seq \in baseline[p] .. highContiguous[p]
        BY <3>6, <3>8
      <4>2. seq >= baseline[p] => seq \in delivered[p]
        BY <3>5, <3>8, <4>1, Zenon
      <4> QED BY <3>1, <3>3, <3>6, <4>2
    <3> QED BY <3>3, <3>7, <3>8, Zenon
  <2> QED BY <2>1, <2>2, Zenon DEF Next
<1> HIDE DEF A, D
<1>2. Spec => []A
  BY AlwaysAccounted, Zenon DEF A
<1>3. Spec => [][D]_vars
  BY <1>1, <1>2, Inductive, PTL DEF Spec
<1> QED BY <1>3, Zenon DEF D, DuplicateIsRedelivery

(***************************************************************************)
(* A delivery judged distinct is the first one of its sequence, unless the *)
(* sequence had overrun the window.                                        *)
(***************************************************************************)
THEOREM DistinctFirst == Spec => DistinctIsFirstDelivery
<1> DEFINE D == \A p \in Producers :
                  JudgedDistinct(p) => lastSeen'[p] \notin delivered[p] \/ lastSeen'[p] \in sliders[p]
<1>1. IInv /\ [Next]_vars => [D]_vars
  <2> SUFFICES ASSUME IInv, Next, NEW q \in Producers, JudgedDistinct(q)
               PROVE  lastSeen'[q] \notin delivered[q] \/ lastSeen'[q] \in sliders[q]
    BY Zenon
  <2>0. /\ q \in tracked /\ received'[q] > received[q] /\ received[q] \in Nat
        /\ duplicates'[q] = duplicates[q] /\ duplicates[q] \in Nat
    BY Zenon DEF JudgedDistinct, IInv, TypeOK
  <2>1. CASE DetectGaps \/ Reset
    <3>1. CASE DetectGaps
      BY <2>0, <3>1 DEF DetectGaps
    <3>2. CASE Reset
      BY <2>0, <3>2 DEF Reset, Zero
    <3> QED BY <2>1, <3>1, <3>2, Zenon
  <2>2. ASSUME NEW p \in Producers, NEW seq \in Seqs, Record(p, seq)
        PROVE  lastSeen'[q] \notin delivered[q] \/ lastSeen'[q] \in sliders[q]
    <3>1. q = p
      <4>1. q # p => duplicates'[q] = duplicates[q] /\ received'[q] = received[q]
        BY <2>2, RecordOthers, Zenon DEF IInv
      <4> QED BY <2>0, <4>1
    <3>2. /\ ProducerInv(p)
          /\ seq \in Int /\ highContiguous[p] \in Int
          /\ \A n \in window[p] : n \in Int
      BY DEF IInv, TypeOK, Seqs
    <3>3. CASE RecordFirst(p, seq)
      BY <2>0, <3>1, <3>3, Zenon DEF RecordFirst
    <3>4. CASE RecordRecovered(p, seq)
      <4>1. lastSeen'[p] = seq /\ seq \in pendingLost[p]
        BY <3>4, Zenon DEF RecordRecovered, RecordLater, IInv, TypeOK
      <4> QED BY <3>1, <3>2, <4>1, Zenon DEF ProducerInv, FalseLoss
    <3>5. CASE RecordDuplicate(p, seq)
      BY <2>0, <3>1, <3>5 DEF RecordDuplicate, Seen, IInv, TypeOK
    <3>6. CASE RecordInWindow(p, seq)
      <4>1. lastSeen'[p] = seq /\ seq > highContiguous[p] /\ seq \notin window[p]
        BY <3>6, Zenon DEF RecordInWindow, Seen, RecordLater, IInv, TypeOK
      <4> QED BY <3>1, <3>2, <4>1, Zenon DEF ProducerInv, SeenAbove
    <3>7. CASE RecordBeyondWindow(p, seq)
      <4>1. /\ lastSeen'[p] = seq /\ seq > highContiguous[p]
            /\ seq - highContiguous[p] - 1 >= Window
        BY <3>7, Zenon DEF RecordBeyondWindow, RecordLater, IInv, TypeOK
      <4>2. seq \notin window[p]
        <5>1. seq \in window[p] => seq <= highContiguous[p] + Window
          BY <3>2, Zenon DEF ProducerInv, WindowInv
        <5>2. ~(seq <= highContiguous[p] + Window)
          BY <3>2, <4>1, TrackerAssumption
        <5> QED BY <5>1, <5>2, Zenon
      <4> QED BY <3>1, <3>2, <4>1, <4>2, Zenon DEF ProducerInv, SeenAbove
    <3> QED BY <2>2, <3>3, <3>4, <3>5, <3>6, <3>7, Zenon DEF Record
  <2> QED BY <2>1, <2>2, Zenon DEF Next
<1> HIDE DEF D
<1>2. Spec => [][D]_vars
  BY <1>1, Inductive, PTL DEF Spec
<1> QED BY <1>2, Zenon DEF D, DistinctIsFirstDelivery
=============================================================================
