------------------------------ MODULE Tracker ------------------------------
(***************************************************************************)
(* The per-producer sequence tracker of the burn-in harness                *)
(* (src/burnin/tracker/tracker.go).  Every consumer goroutine of a worker  *)
(* calls Record, the engine's gap detector calls DetectGaps, and the       *)
(* warmup calls Reset; each call holds the tracker's mutex throughout, so  *)
(* each is one atomic action.                                              *)
(*                                                                         *)
(* The bitset "window" of the code is a set of sequences: bit i of the     *)
(* window is set iff highContiguous + 1 + i is in window[p].  Shifting the *)
(* bitset while raising highContiguous leaves that set alone, apart from   *)
(* the members shifted out.                                                *)
(***************************************************************************)
EXTENDS Integers, FiniteSets

CONSTANTS
    Producers,  \* the producer ids that can appear in a message
    Window,     \* reorderWindow
    MaxSeq,     \* bound: largest sequence delivered
    Ahead,      \* how far above the watermark a delivery can be
    MaxCalls    \* bound: number of Record calls explored

ASSUME TrackerAssumption ==
    /\ Window \in Nat \ {0}
    /\ MaxSeq \in Nat
    /\ Ahead \in Nat
    /\ MaxCalls \in Nat

Seqs == 0 .. MaxSeq

VARIABLES
    tracked,           \* the keys of the producers map
    highContiguous,    \* this and the next six: the fields of producerState
    window,
    pendingLost,
    confirmedLost,
    lastReportedLost,
    lastSeen,
    received,
    duplicates,
    outOfOrder,
    streamed,          \* what DetectGaps has reported so far, per producer
    baseline,          \* history: the first sequence recorded
    delivered,         \* history: every sequence recorded since Reset
    sliders,           \* history: the recorded ones that overran the window
    suspected,         \* history: how many sequences were ever evicted unseen
    calls              \* bound: Record calls so far

producerState == <<highContiguous, window, pendingLost, confirmedLost,
                   lastReportedLost, lastSeen, received, duplicates, outOfOrder>>

history == <<baseline, delivered, sliders, suspected>>

vars == <<tracked, producerState, streamed, history, calls>>

Zero == [p \in Producers |-> 0]
Empty == [p \in Producers |-> {}]

(***************************************************************************)
(* New(reorderWindow): no producer is tracked.  The fields of an untracked *)
(* producer do not exist in the code; they are zero here.                  *)
(***************************************************************************)
Init ==
    /\ tracked = {}
    /\ highContiguous = Zero
    /\ window = Empty
    /\ pendingLost = Empty
    /\ confirmedLost = Zero
    /\ lastReportedLost = Zero
    /\ lastSeen = Zero
    /\ received = Zero
    /\ duplicates = Zero
    /\ outOfOrder = Zero
    /\ streamed = Zero
    /\ baseline = Zero
    /\ delivered = Empty
    /\ sliders = Empty
    /\ suspected = Zero
    /\ calls = 0

-----------------------------------------------------------------------------
(***************************************************************************)
(* advanceContiguous: while the sequence after the watermark is in the     *)
(* window, the watermark moves over it.  Run(h, w) is the run of sequences *)
(* it moves over; the watermark ends at the last of them.                  *)
(***************************************************************************)
Run(h, w) == {n \in w : (h + 1) .. n \subseteq w /\ n > h}

Advanced(h, w) == h + Cardinality(Run(h, w))

advanceContiguous(p, h, w) ==
    /\ highContiguous' = [highContiguous EXCEPT ![p] = Advanced(h, w)]
    /\ window' = [window EXCEPT ![p] = {n \in w : n > Advanced(h, w)}]

(***************************************************************************)
(* The first delivery of a producer: highContiguous = seq - 1 with bit 0   *)
(* set, and advanceContiguous then moves over seq itself.  For seq = 0 the *)
(* unsigned seq - 1 wraps and highContiguous++ wraps back, so -1 is an     *)
(* exact stand-in.                                                         *)
(***************************************************************************)
RecordFirst(p, seq) ==
    /\ p \notin tracked
    /\ tracked' = tracked \cup {p}
    /\ advanceContiguous(p, seq - 1, {seq})
    /\ lastSeen' = [lastSeen EXCEPT ![p] = seq]
    /\ received' = [received EXCEPT ![p] = 1]
    /\ baseline' = [baseline EXCEPT ![p] = seq]
    /\ UNCHANGED <<pendingLost, confirmedLost, lastReportedLost, duplicates,
                   outOfOrder, sliders, suspected>>

(***************************************************************************)
(* What every later delivery does first: count it, and count it as out of  *)
(* order when it is below the previous one.                                *)
(***************************************************************************)
RecordLater(p, seq) ==
    /\ p \in tracked
    /\ received' = [received EXCEPT ![p] = @ + 1]
    /\ outOfOrder' = [outOfOrder EXCEPT ![p] = IF seq < lastSeen[p] THEN @ + 1 ELSE @]
    /\ lastSeen' = [lastSeen EXCEPT ![p] = seq]
    /\ UNCHANGED <<tracked, lastReportedLost, baseline>>

(* At or below the watermark, but suspected lost: the delivery recovers it. *)
RecordRecovered(p, seq) ==
    /\ RecordLater(p, seq)
    /\ seq <= highContiguous[p]
    /\ seq \in pendingLost[p]
    /\ pendingLost' = [pendingLost EXCEPT ![p] = @ \ {seq}]
    /\ confirmedLost' = [confirmedLost EXCEPT ![p] = Cardinality(pendingLost'[p])]
    /\ UNCHANGED <<highContiguous, window, duplicates, sliders, suspected>>

(* Deliberately wrong variants like this one show that a property can fail.  Wrong: a late *)
(* delivery of a suspected loss is a duplicate.                                           *)
SeenIfBelow(p, seq) == seq <= highContiguous[p] \/ seq \in window[p]

(* Below the watermark and not suspected, or its bit already set. *)
Seen(p, seq) ==
    \/ seq <= highContiguous[p] /\ seq \notin pendingLost[p]
    \/ seq \in window[p]

RecordDuplicate(p, seq) ==
    /\ RecordLater(p, seq)
    /\ Seen(p, seq)
    /\ duplicates' = [duplicates EXCEPT ![p] = @ + 1]
    /\ UNCHANGED <<highContiguous, window, pendingLost, confirmedLost, sliders, suspected>>

(* Inside the window and not seen yet. *)
RecordInWindow(p, seq) ==
    /\ RecordLater(p, seq)
    /\ seq > highContiguous[p]
    /\ seq - highContiguous[p] - 1 < Window
    /\ ~Seen(p, seq)
    /\ advanceContiguous(p, highContiguous[p], window[p] \cup {seq})
    /\ UNCHANGED <<pendingLost, confirmedLost, duplicates, sliders, suspected>>

(***************************************************************************)
(* slideWindow.  The new watermark is newSeq - Window - 1.  The unseen     *)
(* sequences among the slideDist that leave the window become suspected    *)
(* losses, and slideDist is capped at the window.  Both setBit calls are   *)
(* guarded by offset < Window, where offset is newSeq - highContiguous - 1.*)
(***************************************************************************)
Minimum(a, b) == IF a <= b THEN a ELSE b

(* Wrong: the last sequence to leave the window is not looked at. *)
EvictedOneShort(p, newHigh) ==
    LET slideDist == Minimum(newHigh - highContiguous[p], Window)
    IN  {n \in (highContiguous[p] + 1) .. (highContiguous[p] + slideDist - 1) : n \notin window[p]}

(* Wrong: sequences that were seen are suspected too. *)
EvictedSeenToo(p, newHigh) ==
    LET slideDist == Minimum(newHigh - highContiguous[p], Window)
    IN  (highContiguous[p] + 1) .. (highContiguous[p] + slideDist)

Evicted(p, newHigh) ==
    LET slideDist == Minimum(newHigh - highContiguous[p], Window)
    IN  {n \in (highContiguous[p] + 1) .. (highContiguous[p] + slideDist) : n \notin window[p]}

Marked(newSeq, h) == {n \in {newSeq} : n - h - 1 < Window}

slideWindow(p, newSeq) ==
    LET newHigh == newSeq - Window - 1
    IN  IF newHigh <= highContiguous[p]
        THEN /\ window' = [window EXCEPT ![p] = @ \cup Marked(newSeq, highContiguous[p])]
             /\ UNCHANGED <<highContiguous, pendingLost, confirmedLost, suspected>>
        ELSE /\ pendingLost' = [pendingLost EXCEPT ![p] = @ \cup Evicted(p, newHigh)]
             /\ confirmedLost' = [confirmedLost EXCEPT ![p] = Cardinality(pendingLost'[p])]
             /\ suspected' = [suspected EXCEPT ![p] = @ + Cardinality(Evicted(p, newHigh))]
             /\ advanceContiguous(p, newHigh,
                    {n \in window[p] : n > newHigh} \cup Marked(newSeq, newHigh))

RecordBeyondWindow(p, seq) ==
    /\ RecordLater(p, seq)
    /\ seq > highContiguous[p]
    /\ seq - highContiguous[p] - 1 >= Window
    /\ slideWindow(p, seq)
    /\ sliders' = [sliders EXCEPT ![p] = @ \cup {seq}]
    /\ UNCHANGED duplicates

(***************************************************************************)
(* Record(producerID, seq), for any delivery the transport can make: a new *)
(* sequence, a redelivery or a late one, at most Ahead above the watermark.*)
(***************************************************************************)
Record(p, seq) ==
    /\ calls < MaxCalls
    /\ p \in tracked => seq <= highContiguous[p] + Ahead
    /\ \/ RecordFirst(p, seq)
       \/ RecordRecovered(p, seq)
       \/ RecordDuplicate(p, seq)
       \/ RecordInWindow(p, seq)
       \/ RecordBeyondWindow(p, seq)
    /\ calls' = calls + 1
    /\ delivered' = [delivered EXCEPT ![p] = @ \cup {seq}]
    /\ UNCHANGED streamed

(* The positive part of the change since the previous call, per producer. *)
Delta(p) ==
    IF p \in tracked /\ confirmedLost[p] > lastReportedLost[p]
    THEN confirmedLost[p] - lastReportedLost[p]
    ELSE 0

DetectGaps ==
    /\ streamed' = [p \in Producers |-> streamed[p] + Delta(p)]
    /\ lastReportedLost' = [p \in Producers |-> confirmedLost[p]]
    /\ UNCHANGED <<tracked, highContiguous, window, pendingLost, confirmedLost, lastSeen,
                   received, duplicates, outOfOrder, history, calls>>

(* Reset, called by BaseWorker.ResetAfterWarmup: a new, empty producers map. *)
Reset ==
    /\ tracked' = {}
    /\ highContiguous' = Zero
    /\ window' = Empty
    /\ pendingLost' = Empty
    /\ confirmedLost' = Zero
    /\ lastReportedLost' = Zero
    /\ lastSeen' = Zero
    /\ received' = Zero
    /\ duplicates' = Zero
    /\ outOfOrder' = Zero
    /\ baseline' = Zero
    /\ delivered' = Empty
    /\ sliders' = Empty
    /\ UNCHANGED <<streamed, suspected, calls>>

Next ==
    \/ \E p \in Producers, seq \in Seqs : Record(p, seq)
    \/ DetectGaps
    \/ Reset

Spec == Init /\ [][Next]_vars
-----------------------------------------------------------------------------
(***************************************************************************)
(* Type correctness: every field of producerState keeps its type, and the  *)
(* sets of sequences stay inside the sequences that can be delivered.      *)
(***************************************************************************)
TypeOK ==
    /\ tracked \subseteq Producers
    /\ highContiguous \in [Producers -> Seqs]
    /\ window \in [Producers -> SUBSET Seqs]
    /\ pendingLost \in [Producers -> SUBSET Seqs]
    /\ confirmedLost \in [Producers -> Nat]
    /\ lastReportedLost \in [Producers -> Nat]
    /\ lastSeen \in [Producers -> Seqs]
    /\ received \in [Producers -> Nat]
    /\ duplicates \in [Producers -> Nat]
    /\ outOfOrder \in [Producers -> Nat]
    /\ streamed \in [Producers -> Nat]
    /\ baseline \in [Producers -> Seqs]
    /\ delivered \in [Producers -> SUBSET Seqs]
    /\ sliders \in [Producers -> SUBSET Seqs]
    /\ suspected \in [Producers -> Nat]
    /\ calls \in 0 .. MaxCalls

(* The sequences between the first one recorded and the watermark that never arrived. *)
Missing(p) == (baseline[p] .. highContiguous[p]) \ delivered[p]

(***************************************************************************)
(* No loss is hidden: TotalLost, the number the verdict's loss gate reads, *)
(* is at least the number of sequences the watermark has passed and that   *)
(* never arrived (tracker.go's slideWindow keeps every one of them in      *)
(* pendingLost until a late delivery clears it).                           *)
(***************************************************************************)
LossNotUnderreported ==
    \A p \in tracked : Cardinality(Missing(p)) <= confirmedLost[p]

(***************************************************************************)
(* A loss the tracker reports for a sequence that did arrive can only be   *)
(* about a sequence that itself overran the window: slideWindow never sets *)
(* the bit of the sequence that made it slide.  All other suspected losses *)
(* are sequences that have not been delivered.                             *)
(***************************************************************************)
FalseLossOnlyFromSliders ==
    \A p \in tracked : pendingLost[p] \cap delivered[p] \subseteq sliders[p]

(***************************************************************************)
(* What comment tracker.go:216 says of the suspected losses that are left: *)
(* they are the true loss, so none of them has been delivered.             *)
(***************************************************************************)
SurvivingPendingIsTrueLoss ==
    \A p \in tracked : pendingLost[p] \cap delivered[p] = {}

(***************************************************************************)
(* The live loss metric, fed by DetectGaps, never misses a reported loss   *)
(* and never counts an eviction twice, however often losses are recovered  *)
(* and however the polls interleave with Record and Reset.                 *)
(***************************************************************************)
LiveLossIsBacked ==
    \A p \in Producers : lastReportedLost[p] <= streamed[p] /\ streamed[p] <= suspected[p]

(* The step is a Record of p's that was, or was not, judged a duplicate. *)
JudgedDuplicate(p) == duplicates'[p] > duplicates[p]
JudgedDistinct(p) == p \in tracked /\ received'[p] > received[p] /\ duplicates'[p] = duplicates[p]

(***************************************************************************)
(* A delivery judged a duplicate really had been delivered before, or is   *)
(* from before the tracker's baseline (the first sequence after Reset):    *)
(* the first late delivery of a suspected loss is never a duplicate.       *)
(***************************************************************************)
DuplicateIsRedelivery ==
    [][\A p \in Producers :
        JudgedDuplicate(p) => lastSeen'[p] \in delivered[p] \/ lastSeen'[p] < baseline[p]]_vars

(***************************************************************************)
(* A delivery judged distinct is one the tracker had not seen, unless the  *)
(* earlier delivery of the same sequence had overrun the window.           *)
(***************************************************************************)
DistinctIsFirstDelivery ==
    [][\A p \in Producers :
        JudgedDistinct(p) => lastSeen'[p] \notin delivered[p] \/ lastSeen'[p] \in sliders[p]]_vars
=============================================================================
