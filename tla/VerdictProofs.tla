--------------------------- MODULE VerdictProofs ---------------------------
(***************************************************************************)
(* Theorems about Verdict, for any number of channels and runs, whatever   *)
(* the runs enable.                                                        *)
(***************************************************************************)
EXTENDS Verdict, WellFoundedInduction, TLAPS

-----------------------------------------------------------------------------
(* Totals.                                                                 *)

LEMMA Least ==
    ASSUME NEW B, B \subseteq Nat, B # {}
    PROVE  \E m \in B : \A k \in B : m <= k
<1>1. PICK m \in B : \A k \in B : <<k, m>> \notin OpToRel(<, Nat)
  BY WFMin, NatLessThanWellFounded, Zenon
<1>2. \A k \in B : ~(k < m)
  BY <1>1, Zenon DEF OpToRel
<1> QED BY <1>2

(* Induction over the channels, as a fact about sets. *)
LEMMA UpToAll ==
    ASSUME NEW S, 0 \in S, \A n \in 1 .. NumChannels : n - 1 \in S => n \in S
    PROVE  0 .. NumChannels \subseteq S
<1> DEFINE B == (0 .. NumChannels) \ S
<1>0. NumChannels \in Nat
  BY VerdictAssumption, Zenon
<1> SUFFICES ASSUME B # {} PROVE FALSE
  BY Zenon
<1>1. B \subseteq Nat
  BY <1>0
<1>2. PICK m \in B : \A k \in B : m <= k
  BY <1>1, Least, Zenon
<1>3. m \in 1 .. NumChannels /\ m - 1 \in 0 .. NumChannels /\ ~(m <= m - 1)
  BY <1>0, <1>2
<1>4. m - 1 \in S
  BY <1>2, <1>3, Zenon
<1> QED BY <1>2, <1>3, <1>4, Zenon

(* The subtotals that Total adds up to the channel m. *)
Adds(g, f, m) == g = [n \in 0 .. m |-> IF n = 0 THEN 0 ELSE g[n - 1] + f[n]]
Subtotals(f) == CHOOSE g : Adds(g, f, NumChannels)

LEMMA TotalIs == \A f : Total(f) = Subtotals(f)[NumChannels]
  BY Zenon DEF Total, Subtotals, Adds

LEMMA AddsExists ==
    ASSUME NEW f
    PROVE  \E g : Adds(g, f, NumChannels)
<1> DEFINE S == {m \in 0 .. NumChannels : \E g : Adds(g, f, m)}
<1>0. NumChannels \in Nat
  BY VerdictAssumption, Zenon
<1>1. 0 \in S
  <2>1. Adds([n \in 0 .. 0 |-> 0], f, 0)
    BY DEF Adds
  <2> QED BY <1>0, <2>1
<1>2. ASSUME NEW m \in 1 .. NumChannels, m - 1 \in S PROVE m \in S
  <2>1. PICK g : Adds(g, f, m - 1)
    BY <1>2, Zenon
  <2> DEFINE h == [n \in 0 .. m |-> IF n = m THEN g[m - 1] + f[m] ELSE g[n]]
  <2>2. ASSUME NEW n \in 0 .. m PROVE h[n] = IF n = 0 THEN 0 ELSE h[n - 1] + f[n]
    <3>1. CASE n = m
      BY <1>0, <1>2, <3>1
    <3>2. CASE n # m
      <4>1. n \in 0 .. m - 1 /\ (n # 0 => n - 1 \in 0 .. m /\ n - 1 # m)
        BY <1>0, <3>2
      <4>2. g[n] = IF n = 0 THEN 0 ELSE g[n - 1] + f[n]
        BY <2>1, <4>1, Zenon DEF Adds
      <4> QED BY <3>2, <4>1, <4>2, Zenon
    <3> QED BY <3>1, <3>2, Zenon
  <2>3. h = [n \in 0 .. m |-> IF n = 0 THEN 0 ELSE h[n - 1] + f[n]]
    BY <2>2, Zenon
  <2>4. Adds(h, f, m)
    BY <2>3, Zenon DEF Adds
  <2> QED BY <1>0, <2>4
<1>3. 0 .. NumChannels \subseteq S
  <2> HIDE DEF S
  <2> QED BY <1>1, <1>2, UpToAll, Zenon
<1> QED BY <1>0, <1>3

LEMMA SubtotalsAdd ==
    \A f : /\ Subtotals(f)[0] = 0
           /\ \A n \in 1 .. NumChannels : Subtotals(f)[n] = Subtotals(f)[n - 1] + f[n]
<1> TAKE f
<1> DEFINE g == Subtotals(f)
<1>0. NumChannels \in Nat
  BY VerdictAssumption
<1>1. Adds(g, f, NumChannels)
  BY AddsExists, Zenon DEF Subtotals
<1>2. \A n \in 0 .. NumChannels : g[n] = IF n = 0 THEN 0 ELSE g[n - 1] + f[n]
  <2> HIDE DEF g
  <2> QED BY <1>1, Zenon DEF Adds
<1>3. 0 \in 0 .. NumChannels /\ \A n \in 1 .. NumChannels : n \in 0 .. NumChannels /\ n # 0
  BY <1>0
<1> HIDE DEF g
<1>4. g[0] = 0 /\ \A n \in 1 .. NumChannels : g[n] = g[n - 1] + f[n]
  BY <1>2, <1>3, Zenon
<1> QED BY <1>4, Zenon DEF g
(* A total of integers is one, and what holds of every addend holds of it: sign, ... *)
LEMMA TotalInt ==
    ASSUME NEW f, \A c \in Channels : f[c] \in Int
    PROVE  \A n \in 0 .. NumChannels : Subtotals(f)[n] \in Int
<1> DEFINE g == Subtotals(f)
           S == {n \in 0 .. NumChannels : g[n] \in Int}
<1>0. NumChannels \in Nat /\ \A n \in 1 .. NumChannels : n \in 0 .. NumChannels /\ f[n] \in Int
  BY VerdictAssumption DEF Channels
<1>1. g[0] = 0 /\ \A n \in 1 .. NumChannels : g[n] = g[n - 1] + f[n]
  BY SubtotalsAdd, Zenon
<1> HIDE DEF g
<1>2. 0 \in S /\ \A n \in 1 .. NumChannels : n - 1 \in S => n \in S
  BY <1>0, <1>1
<1> HIDE DEF S
<1>3. 0 .. NumChannels \subseteq S
  BY <1>2, UpToAll, Zenon
<1> QED BY <1>3, Zenon DEF S, g

(* ... order, strict when it is on every channel, ... *)
LEMMA TotalLess ==
    ASSUME NEW f, NEW g, NEW d \in {0, 1},
           \A c \in Channels : f[c] \in Int /\ g[c] \in Int /\ f[c] + d <= g[c]
    PROVE  /\ Total(f) \in Int /\ Total(g) \in Int
           /\ Total(f) + d <= Total(g)
<1> DEFINE F == Subtotals(f)
           G == Subtotals(g)
           S == {n \in 0 .. NumChannels : F[n] <= G[n] /\ (n > 0 => F[n] + d <= G[n])}
<1>0. NumChannels \in Nat \ {0} /\ \A n \in 1 .. NumChannels : /\ n \in 0 .. NumChannels /\ n > 0 /\ n - 1 \in 0 .. NumChannels
                                                   /\ f[n] \in Int /\ g[n] \in Int /\ f[n] + d <= g[n]
  BY VerdictAssumption DEF Channels
<1>1. /\ F[0] = 0 /\ \A n \in 1 .. NumChannels : F[n] = F[n - 1] + f[n]
      /\ G[0] = 0 /\ \A n \in 1 .. NumChannels : G[n] = G[n - 1] + g[n]
  BY SubtotalsAdd, Zenon
<1>2. \A n \in 0 .. NumChannels : F[n] \in Int /\ G[n] \in Int
  BY TotalInt, Zenon
<1> HIDE DEF F, G
<1>3. 0 \in S
  BY <1>0, <1>1
<1>4. ASSUME NEW n \in 1 .. NumChannels, n - 1 \in S PROVE n \in S
  BY <1>0, <1>1, <1>2, <1>4
<1> HIDE DEF S
<1>5. 0 .. NumChannels \subseteq S
  BY <1>3, <1>4, UpToAll, Zenon
<1>6. NumChannels \in S /\ NumChannels > 0 /\ NumChannels \in 0 .. NumChannels
  BY <1>0, <1>5
<1>7. Total(f) = F[NumChannels] /\ Total(g) = G[NumChannels]
  BY TotalIs, Zenon DEF F, G
<1> QED BY <1>2, <1>6, <1>7, Zenon DEF S

(* ... sums, ... *)
LEMMA TotalSum ==
    ASSUME NEW f, NEW g, NEW h,
           \A c \in Channels : f[c] \in Int /\ g[c] \in Int /\ h[c] = f[c] + g[c]
    PROVE  Total(h) = Total(f) + Total(g)
<1> DEFINE F == Subtotals(f)
           G == Subtotals(g)
           H == Subtotals(h)
           S == {n \in 0 .. NumChannels : H[n] = F[n] + G[n]}
<1>0. /\ NumChannels \in Nat \ {0}
      /\ \A n \in 1 .. NumChannels : /\ n \in 0 .. NumChannels /\ n - 1 \in 0 .. NumChannels
                                     /\ f[n] \in Int /\ g[n] \in Int /\ h[n] = f[n] + g[n]
  BY VerdictAssumption DEF Channels
<1>1. /\ F[0] = 0 /\ \A n \in 1 .. NumChannels : F[n] = F[n - 1] + f[n]
      /\ G[0] = 0 /\ \A n \in 1 .. NumChannels : G[n] = G[n - 1] + g[n]
      /\ H[0] = 0 /\ \A n \in 1 .. NumChannels : H[n] = H[n - 1] + h[n]
  BY SubtotalsAdd, Zenon
<1>2. \A n \in 0 .. NumChannels : F[n] \in Int /\ G[n] \in Int
  BY TotalInt, Zenon
<1> HIDE DEF F, G, H
<1>3. 0 \in S
  BY <1>0, <1>1
<1>4. ASSUME NEW n \in 1 .. NumChannels, n - 1 \in S PROVE n \in S
  BY <1>0, <1>1, <1>2, <1>4
<1> HIDE DEF S
<1>5. 0 .. NumChannels \subseteq S
  BY <1>3, <1>4, UpToAll, Zenon
<1>6. NumChannels \in S
  BY <1>0, <1>5
<1>7. Total(f) = F[NumChannels] /\ Total(g) = G[NumChannels] /\ Total(h) = H[NumChannels]
  BY TotalIs, Zenon DEF F, G, H
<1> QED BY <1>6, <1>7, Zenon DEF S

(* ... and multiples. *)
LEMMA TotalTimes ==
    ASSUME NEW f, NEW h, NEW q \in Int,
           \A c \in Channels : f[c] \in Int /\ h[c] = f[c] * q
    PROVE  Total(h) = Total(f) * q
<1> DEFINE F == Subtotals(f)
           H == Subtotals(h)
           S == {n \in 0 .. NumChannels : H[n] = F[n] * q}
<1>0. /\ NumChannels \in Nat \ {0}
      /\ \A n \in 1 .. NumChannels : /\ n \in 0 .. NumChannels /\ n - 1 \in 0 .. NumChannels
                                     /\ f[n] \in Int /\ h[n] = f[n] * q
  BY VerdictAssumption DEF Channels
<1>1. /\ F[0] = 0 /\ \A n \in 1 .. NumChannels : F[n] = F[n - 1] + f[n]
      /\ H[0] = 0 /\ \A n \in 1 .. NumChannels : H[n] = H[n - 1] + h[n]
  BY SubtotalsAdd, Zenon
<1>2. \A n \in 0 .. NumChannels : F[n] \in Int
  BY TotalInt, Zenon
<1>a. \A x, y \in Int : x * q + y * q = (x + y) * q
  OBVIOUS
<1> HIDE DEF F, H
<1>3. 0 \in S
  BY <1>0, <1>1
<1>4. ASSUME NEW n \in 1 .. NumChannels, n - 1 \in S PROVE n \in S
  <2>1. H[n] = F[n - 1] * q + f[n] * q
    BY <1>0, <1>1, <1>4, Zenon
  <2>2. F[n - 1] * q + f[n] * q = (F[n - 1] + f[n]) * q
    BY <1>0, <1>2, <1>a, Zenon
  <2> QED BY <1>0, <1>1, <2>1, <2>2, Zenon
<1> HIDE DEF S
<1>5. 0 .. NumChannels \subseteq S
  BY <1>3, <1>4, UpToAll, Zenon
<1>6. NumChannels \in S
  BY <1>0, <1>5
<1>7. Total(f) = F[NumChannels] /\ Total(h) = H[NumChannels]
  BY TotalIs, Zenon DEF F, H
<1> QED BY <1>6, <1>7, Zenon DEF S
(* A total of naturals is at least each of them, and positive only when one is. *)
LEMMA TotalNat ==
    ASSUME NEW f, \A c \in Channels : f[c] \in Nat
    PROVE  /\ Total(f) \in Nat
           /\ \A c \in Channels : f[c] <= Total(f)
           /\ Total(f) > 0 => \E c \in Channels : f[c] > 0
<1> DEFINE F == Subtotals(f)
           S == {n \in 0 .. NumChannels : F[n] >= 0 /\ \A c \in 1 .. n : f[c] <= F[n]}
<1>0. /\ NumChannels \in Nat \ {0}
      /\ \A n \in 1 .. NumChannels : /\ n \in 0 .. NumChannels /\ n - 1 \in 0 .. NumChannels
                                     /\ f[n] \in Nat
  BY VerdictAssumption DEF Channels
<1>1. F[0] = 0 /\ \A n \in 1 .. NumChannels : F[n] = F[n - 1] + f[n]
  BY SubtotalsAdd, Zenon
<1>2. \A n \in 0 .. NumChannels : F[n] \in Int
  BY TotalInt
<1> HIDE DEF F
<1>3. 0 \in S
  BY <1>0, <1>1
<1>4. ASSUME NEW n \in 1 .. NumChannels, n - 1 \in S PROVE n \in S
  <2>1. F[n] = F[n - 1] + f[n] /\ f[n] \in Nat /\ F[n - 1] \in Int /\ F[n - 1] >= 0 /\ F[n] \in Int
    BY <1>0, <1>1, <1>2, <1>4, Zenon
  <2>2. ASSUME NEW c \in 1 .. n PROVE f[c] <= F[n]
    <3>1. CASE c = n
      BY <2>1, <3>1
    <3>2. CASE c # n
      <4>1. c \in 1 .. n - 1 /\ f[c] \in Nat
        BY <1>0, <3>2
      <4>2. f[c] <= F[n - 1]
        BY <1>4, <4>1, Zenon
      <4> QED BY <2>1, <4>1, <4>2
    <3> QED BY <3>1, <3>2, Zenon
  <2> QED BY <1>0, <2>1, <2>2
<1> HIDE DEF S
<1>5. 0 .. NumChannels \subseteq S
  BY <1>3, <1>4, UpToAll, Zenon
<1>6. NumChannels \in S
  BY <1>0, <1>5
<1>7. Total(f) = F[NumChannels]
  BY TotalIs, Zenon DEF F
<1>8. Total(f) \in Nat /\ \A c \in Channels : f[c] <= Total(f)
  BY <1>0, <1>2, <1>6, <1>7 DEF S, Channels
<1>9. ASSUME \A c \in Channels : ~(f[c] > 0) PROVE Total(f) = 0
  <2>1. \A c \in Channels : f[c] \in Int /\ f[c] = f[c] * 0
    BY <1>9
  <2>2. Total(f) = Total(f) * 0
    BY <2>1, TotalTimes
  <2> QED BY <1>8, <2>2
<1> QED BY <1>8, <1>9

(* Naturals on every channel have a greatest. *)
LEMMA Greatest ==
    ASSUME NEW f, \A c \in Channels : f[c] \in Nat
    PROVE  \E c \in Channels : \A d \in Channels : f[d] <= f[c]
<1> DEFINE B == {b \in Nat : \A c \in Channels : f[c] <= b}
<1>1. Total(f) \in B
  BY TotalNat, Zenon
<1>2. PICK m \in B : \A b \in B : m <= b
  BY <1>1, Least, Zenon
<1>3. \E c \in Channels : f[c] = m
  <2> SUFFICES ASSUME \A c \in Channels : f[c] # m PROVE FALSE
    BY Zenon
  <2>1. 1 \in Channels
    BY VerdictAssumption DEF Channels
  <2>2. m - 1 \in B
    BY <1>2, <2>1
  <2> QED BY <1>2, <2>2
<1> QED BY <1>2, <1>3, Zenon

(* A share of the total that is exceeded is exceeded on a channel, ... *)
LEMMA ShareOfOne ==
    ASSUME NEW f, NEW g, \A c \in Channels : f[c] \in Nat /\ g[c] \in Nat, NEW q \in Nat,
           Exceeds(Total(f), Total(g), q)
    PROVE  \E c \in Channels : Exceeds(f[c], g[c], q)
<1> DEFINE F == [c \in Channels |-> f[c] * 1000]
           G == [c \in Channels |-> g[c] * q]
<1> SUFFICES ASSUME \A c \in Channels : ~Exceeds(f[c], g[c], q) PROVE FALSE
  BY Zenon
<1>1. \A c \in Channels : F[c] \in Int /\ G[c] \in Int /\ F[c] + 0 <= G[c]
  BY DEF Exceeds
<1>2. Total(F) = Total(f) * 1000 /\ Total(G) = Total(g) * q
  <2>1. \A c \in Channels : f[c] \in Int /\ F[c] = f[c] * 1000
    OBVIOUS
  <2>2. \A c \in Channels : g[c] \in Int /\ G[c] = g[c] * q
    OBVIOUS
  <2> HIDE DEF F, G
  <2> QED BY <2>1, <2>2, TotalTimes
<1> HIDE DEF F, G
<1>3. Total(F) + 0 <= Total(G) /\ Total(F) \in Int /\ Total(G) \in Int
  BY <1>1, TotalLess, Zenon
<1> QED BY <1>2, <1>3 DEF Exceeds

(* ... and one that every channel exceeds is exceeded by the total. *)
LEMMA ShareOfAll ==
    ASSUME NEW f, NEW g, \A c \in Channels : f[c] \in Nat /\ g[c] \in Nat, NEW q \in Nat,
           \A c \in Channels : Exceeds(f[c], g[c], q)
    PROVE  Exceeds(Total(f), Total(g), q)
<1> DEFINE F == [c \in Channels |-> f[c] * 1000]
           G == [c \in Channels |-> g[c] * q]
<1>1. \A c \in Channels : F[c] \in Int /\ G[c] \in Int /\ G[c] + 1 <= F[c]
  BY DEF Exceeds
<1>2. Total(F) = Total(f) * 1000 /\ Total(G) = Total(g) * q
  <2>1. \A c \in Channels : f[c] \in Int /\ F[c] = f[c] * 1000
    OBVIOUS
  <2>2. \A c \in Channels : g[c] \in Int /\ G[c] = g[c] * q
    OBVIOUS
  <2> HIDE DEF F, G
  <2> QED BY <2>1, <2>2, TotalTimes
<1> HIDE DEF F, G
<1>3. Total(G) + 1 <= Total(F) /\ Total(F) \in Int /\ Total(G) \in Int
  BY <1>1, TotalLess, Zenon
<1> QED BY <1>2, <1>3 DEF Exceeds
-----------------------------------------------------------------------------
(* Readings and gates.                                                     *)

Counters(k) ==
    [sent : Nat, received : Nat, lost : Nat, duplicated : Nat, corrupted : Nat, errors : Nat,
     violations : Nat, republished : Nat, attempts : Nat,
     ran : SUBSET Probes(k), confirmed : [Probes(k) -> Nat],
     samples : Nat, latency : [Percentiles -> Nat]]

(* What a channel may have counted: nothing is lost or doubled of nothing. *)
Readable(k) ==
    {r \in Counters(k) : /\ r.sent = 0 => r.lost = 0
                         /\ r.received = 0 => r.duplicated = 0
                         /\ r.sent + r.received = 0 => r.errors = 0}

(* The thresholds a gate compares with. *)
Thresholds(c) ==
    /\ c.maxLoss \in Nat /\ c.maxDup \in Nat /\ c.maxErrors \in Nat
    /\ c.minThroughput \in Nat /\ c.rate \in Nat
    /\ \A p \in Percentiles : c.maxLatency[p] > 0

(* The readings the model takes are of this kind. *)
LEMMA ReadingReadable ==
    ASSUME NEW k, NEW d \in Deviations(k)
    PROVE  Reading(k, d) \in Readable(k)
<1> DEFINE n == Normal(k)
           N == [p \in Probes(k) |-> 1]
<1>1. /\ n \in Counters(k) /\ n.sent = 200 /\ n.received = 200
      /\ n.lost = 0 /\ n.duplicated = 0 /\ n.errors = 0
      /\ Latency(0, 0) \in [Percentiles -> Nat] /\ Latency(1, 3) \in [Percentiles -> Nat]
      /\ Latency(3, 3) \in [Percentiles -> Nat]
  BY DEF Normal, Counters, Latency
<1>2. Probes(k) \subseteq {"lease_extend", "lease_reject", "cross", "confirmations", "schema"}
  BY Zenon DEF Probes
<1>3. \/ d \in {"normal", "idle", "slow_producer", "boundary_loss", "loss", "duplicate", "corrupted",
               "errors", "slow_tail", "few_slow", "violation", "attempts"}
      \/ d \in Probes(k)
  BY Zenon DEF Deviations
<1> HIDE DEF n
<1>4. CASE d = "normal"
  <2>1. Reading(k, d) = n
    BY <1>2, <1>4, Zenon DEF Reading, n
  <2> QED BY <1>1, <2>1, Zenon DEF Readable, Counters
<1>5. CASE d = "idle"
  <2>1. Reading(k, d) = [n EXCEPT !.sent = 0, !.received = 0, !.samples = 0,
                                !.latency = Latency(0, 0), !.republished = 0, !.attempts = 0,
                                !.ran = {}, !.confirmed = [p \in Probes(k) |-> 0]]
    BY <1>2, <1>5, Zenon DEF Reading, n
  <2> DEFINE r1 == [n EXCEPT !.sent = 0]
             r2 == [r1 EXCEPT !.received = 0]
             r3 == [r2 EXCEPT !.samples = 0]
             r4 == [r3 EXCEPT !.latency = Latency(0, 0)]
             r5 == [r4 EXCEPT !.republished = 0]
             r6 == [r5 EXCEPT !.attempts = 0]
             r7 == [r6 EXCEPT !.ran = {}]
             r8 == [r7 EXCEPT !.confirmed = [p \in Probes(k) |-> 0]]
  <2>2. Reading(k, d) = r8
    BY <2>1, Zenon
  <2>3. r1 \in Counters(k) /\ r1.sent = 0 /\ r1.received = 200 /\ r1.lost = 0 /\ r1.duplicated = 0 /\ r1.errors = 0
    BY <1>1, Zenon DEF Counters
  <2> HIDE DEF r1
  <2>4. r2 \in Counters(k) /\ r2.sent = 0 /\ r2.received = 0 /\ r2.lost = 0 /\ r2.duplicated = 0 /\ r2.errors = 0
    BY <1>1, <2>3, Zenon DEF Counters
  <2> HIDE DEF r2
  <2>5. r3 \in Counters(k) /\ r3.sent = 0 /\ r3.received = 0 /\ r3.lost = 0 /\ r3.duplicated = 0 /\ r3.errors = 0
    BY <1>1, <2>4, Zenon DEF Counters
  <2> HIDE DEF r3
  <2>6. r4 \in Counters(k) /\ r4.sent = 0 /\ r4.received = 0 /\ r4.lost = 0 /\ r4.duplicated = 0 /\ r4.errors = 0
    BY <1>1, <2>5, Zenon DEF Counters
  <2> HIDE DEF r4
  <2>7. r5 \in Counters(k) /\ r5.sent = 0 /\ r5.received = 0 /\ r5.lost = 0 /\ r5.duplicated = 0 /\ r5.errors = 0
    BY <1>1, <2>6, Zenon DEF Counters
  <2> HIDE DEF r5
  <2>8. r6 \in Counters(k) /\ r6.sent = 0 /\ r6.received = 0 /\ r6.lost = 0 /\ r6.duplicated = 0 /\ r6.errors = 0
    BY <1>1, <2>7, Zenon DEF Counters
  <2> HIDE DEF r6
  <2>9. r7 \in Counters(k) /\ r7.sent = 0 /\ r7.received = 0 /\ r7.lost = 0 /\ r7.duplicated = 0 /\ r7.errors = 0
    BY <1>1, <2>8, Zenon DEF Counters
  <2> HIDE DEF r7
  <2>10. r8 \in Counters(k) /\ r8.sent = 0 /\ r8.received = 0 /\ r8.lost = 0 /\ r8.duplicated = 0 /\ r8.errors = 0
    BY <1>1, <2>9, Zenon DEF Counters
  <2> HIDE DEF r8
  <2> QED BY <2>2, <2>10, Zenon DEF Readable
<1>6. CASE d = "slow_producer"
  <2>1. Reading(k, d) = [n EXCEPT !.sent = 100, !.received = 100, !.samples = 100]
    BY <1>2, <1>6, Zenon DEF Reading, n
  <2> DEFINE r1 == [n EXCEPT !.sent = 100]
             r2 == [r1 EXCEPT !.received = 100]
             r3 == [r2 EXCEPT !.samples = 100]
  <2>2. Reading(k, d) = r3
    BY <2>1, Zenon
  <2>3. r1 \in Counters(k) /\ r1.sent = 100 /\ r1.received = 200 /\ r1.lost = 0 /\ r1.duplicated = 0 /\ r1.errors = 0
    BY <1>1 DEF Counters
  <2> HIDE DEF r1
  <2>4. r2 \in Counters(k) /\ r2.sent = 100 /\ r2.received = 100 /\ r2.lost = 0 /\ r2.duplicated = 0 /\ r2.errors = 0
    BY <1>1, <2>3, Zenon DEF Counters
  <2> HIDE DEF r2
  <2>5. r3 \in Counters(k) /\ r3.sent = 100 /\ r3.received = 100 /\ r3.lost = 0 /\ r3.duplicated = 0 /\ r3.errors = 0
    BY <1>1, <2>4, Zenon DEF Counters
  <2> HIDE DEF r3
  <2> QED BY <2>2, <2>5, Zenon DEF Readable
<1>7. CASE d = "boundary_loss"
  <2>1. Reading(k, d) = [n EXCEPT !.lost = 1]
    BY <1>2, <1>7, Zenon DEF Reading, n
  <2> QED BY <1>1, <2>1 DEF Readable, Counters
<1>8. CASE d = "loss"
  <2>1. Reading(k, d) = [n EXCEPT !.lost = 3]
    BY <1>2, <1>8, Zenon DEF Reading, n
  <2> QED BY <1>1, <2>1 DEF Readable, Counters
<1>9. CASE d = "duplicate"
  <2>1. Reading(k, d) = [n EXCEPT !.duplicated = 1]
    BY <1>2, <1>9, Zenon DEF Reading, n
  <2> QED BY <1>1, <2>1 DEF Readable, Counters
<1>10. CASE d = "corrupted"
  <2>1. Reading(k, d) = [n EXCEPT !.corrupted = 1]
    BY <1>2, <1>10, Zenon DEF Reading, n
  <2> QED BY <1>1, <2>1 DEF Readable, Counters
<1>11. CASE d = "errors"
  <2>1. Reading(k, d) = [n EXCEPT !.errors = 5]
    BY <1>2, <1>11, Zenon DEF Reading, n
  <2> QED BY <1>1, <2>1 DEF Readable, Counters
<1>12. CASE d = "slow_tail"
  <2>1. Reading(k, d) = [n EXCEPT !.latency = Latency(1, 3)]
    BY <1>2, <1>12, Zenon DEF Reading, n
  <2> QED BY <1>1, <2>1 DEF Readable, Counters
<1>13. CASE d = "few_slow"
  <2>1. Reading(k, d) = [n EXCEPT !.latency = Latency(3, 3), !.samples = 1]
    BY <1>2, <1>13, Zenon DEF Reading, n
  <2> DEFINE r1 == [n EXCEPT !.latency = Latency(3, 3)]
             r2 == [r1 EXCEPT !.samples = 1]
  <2>2. Reading(k, d) = r2
    BY <2>1, Zenon
  <2>3. r1 \in Counters(k) /\ r1.sent = 200 /\ r1.received = 200 /\ r1.lost = 0 /\ r1.duplicated = 0 /\ r1.errors = 0
    BY <1>1, Zenon DEF Counters
  <2> HIDE DEF r1
  <2>4. r2 \in Counters(k) /\ r2.sent = 200 /\ r2.received = 200 /\ r2.lost = 0 /\ r2.duplicated = 0 /\ r2.errors = 0
    BY <1>1, <2>3, Zenon DEF Counters
  <2> HIDE DEF r2
  <2> QED BY <2>2, <2>4, Zenon DEF Readable
<1>14. CASE d = "violation"
  <2>1. Reading(k, d) = [n EXCEPT !.violations = 1]
    BY <1>2, <1>14, Zenon DEF Reading, n
  <2> QED BY <1>1, <2>1 DEF Readable, Counters
<1>15. CASE d = "attempts"
  <2>1. Reading(k, d) = [n EXCEPT !.attempts = 0]
    BY <1>2, <1>15, Zenon DEF Reading, n
  <2> QED BY <1>1, <2>1 DEF Readable, Counters
<1>16. CASE d \in Probes(k)
  <2>1. Reading(k, d) = [n EXCEPT !.confirmed[d] = 0]
    BY <1>2, <1>16, Zenon DEF Reading, n
  <2> QED BY <1>1, <2>1 DEF Readable, Counters
<1> QED BY <1>3, <1>4, <1>5, <1>6, <1>7, <1>8, <1>9, <1>10, <1>11, <1>12, <1>13, <1>14, <1>15, <1>16, Zenon
Numbers == {"sent", "received", "lost", "duplicated", "corrupted", "errors", "violations", "republished"}

GateNames == {"corruption", "loss", "duplication", "latency", "errors", "throughput", "violations", "attempts"}

(* A failure is a gate of the table that holds, or a probe without a confirmation. *)
LEMMA FailuresAre ==
    ASSUME NEW k, NEW s, NEW c, s.ran \subseteq Probes(k)
    PROVE  /\ Failures(k, s, c) \subseteq GateNames \cup Probes(k)
           /\ \A p \in Probes(k) : p \in Failures(k, s, c) <=> p \in s.ran /\ s.confirmed[p] = 0
           /\ \A g \in GateNames : g \in Failures(k, s, c) <=> Gates(k, s, c)[g]
<1>1. DOMAIN Gates(k, s, c) = GateNames
  BY Zenon DEF Gates, GateNames
<1>2. \A g : g \in Failures(k, s, c) <=> (g \in GateNames /\ Gates(k, s, c)[g]) \/ g \in Unconfirmed(s)
  BY <1>1, Zenon DEF Failures
<1>3. Unconfirmed(s) \subseteq Probes(k) /\ Probes(k) \cap GateNames = {}
  BY Zenon DEF Unconfirmed, Probes, GateNames
<1>4. \A p \in Probes(k) : p \in Failures(k, s, c) <=> p \in s.ran /\ s.confirmed[p] = 0
  BY <1>2, <1>3, Zenon DEF Unconfirmed
<1>5. \A g \in GateNames : g \in Failures(k, s, c) <=> Gates(k, s, c)[g]
  BY <1>2, <1>3, Zenon
<1> QED BY <1>2, <1>3, <1>4, <1>5, Zenon

LEMMA CorruptionGate ==
    ASSUME NEW k, NEW s, NEW c, s.ran \subseteq Probes(k)
    PROVE  "corruption" \in Failures(k, s, c) <=>
              s.corrupted > 0
<1>1. "corruption" \in Failures(k, s, c) <=> Gates(k, s, c)["corruption"]
  BY FailuresAre, Zenon DEF GateNames
<1> QED BY <1>1, Zenon DEF Gates, Present

LEMMA LossGate ==
    ASSUME NEW k, NEW s, NEW c, s.ran \subseteq Probes(k)
    PROVE  "loss" \in Failures(k, s, c) <=>
              /\ s.sent > 0
              /\ Exceeds(s.lost, s.sent, c.maxLoss)
              /\ Exceeds(s.lost, s.sent, BoundaryLoss)
<1>1. "loss" \in Failures(k, s, c) <=> Gates(k, s, c)["loss"]
  BY FailuresAre, Zenon DEF GateNames
<1> QED BY <1>1, Zenon DEF Gates, Present

LEMMA DuplicationGate ==
    ASSUME NEW k, NEW s, NEW c, s.ran \subseteq Probes(k)
    PROVE  "duplication" \in Failures(k, s, c) <=>
              /\ s.received > 0
              /\ ~IsDuplicationGateExempt(k)
              /\ Exceeds(s.duplicated, s.received, c.maxDup)
<1>1. "duplication" \in Failures(k, s, c) <=> Gates(k, s, c)["duplication"]
  BY FailuresAre, Zenon DEF GateNames
<1> QED BY <1>1, Zenon DEF Gates, Present

LEMMA LatencyGate ==
    ASSUME NEW k, NEW s, NEW c, s.ran \subseteq Probes(k)
    PROVE  "latency" \in Failures(k, s, c) <=>
              /\ ~IsLatencyGateExempt(k)
              /\ \E p \in Percentiles : s.latency[p] > 0 /\ c.maxLatency[p] > 0 /\ s.latency[p] > c.maxLatency[p]
<1>1. "latency" \in Failures(k, s, c) <=> Gates(k, s, c)["latency"]
  BY FailuresAre, Zenon DEF GateNames
<1> QED BY <1>1, Zenon DEF Gates, Present

LEMMA ErrorsGate ==
    ASSUME NEW k, NEW s, NEW c, s.ran \subseteq Probes(k)
    PROVE  "errors" \in Failures(k, s, c) <=>
              /\ s.sent + s.received > 0
              /\ Exceeds(s.errors, s.sent + s.received, c.maxErrors)
<1>1. "errors" \in Failures(k, s, c) <=> Gates(k, s, c)["errors"]
  BY FailuresAre, Zenon DEF GateNames
<1> QED BY <1>1, Zenon DEF Gates, Present

LEMMA ThroughputGate ==
    ASSUME NEW k, NEW s, NEW c, s.ran \subseteq Probes(k)
    PROVE  "throughput" \in Failures(k, s, c) <=>
              /\ s.sent > 0
              /\ ~IsThroughputGateExempt(k)
              /\ s.sent * 1000 < c.minThroughput * c.rate * Duration
<1>1. "throughput" \in Failures(k, s, c) <=> Gates(k, s, c)["throughput"]
  BY FailuresAre, Zenon DEF GateNames
<1>2. Gates(k, s, c)["throughput"] = (/\ s.sent > 0 /\ ~IsThroughputGateExempt(k)
                                      /\ s.sent * 1000 < c.minThroughput * c.rate * Duration)
  BY Zenon DEF Gates
<1> QED BY <1>1, <1>2

LEMMA ViolationsGate ==
    ASSUME NEW k, NEW s, NEW c, s.ran \subseteq Probes(k)
    PROVE  "violations" \in Failures(k, s, c) <=>
              s.violations > 0
<1>1. "violations" \in Failures(k, s, c) <=> Gates(k, s, c)["violations"]
  BY FailuresAre, Zenon DEF GateNames
<1> QED BY <1>1, Zenon DEF Gates, Present

LEMMA AttemptsGate ==
    ASSUME NEW k, NEW s, NEW c, s.ran \subseteq Probes(k)
    PROVE  "attempts" \in Failures(k, s, c) <=>
              /\ k = "dead_letter"
              /\ s.republished > 0
              /\ s.attempts = 0
<1>1. "attempts" \in Failures(k, s, c) <=> Gates(k, s, c)["attempts"]
  BY FailuresAre, Zenon DEF GateNames
<1> QED BY <1>1, Zenon DEF Gates, Present

(* A channel on its own, as FailuresAlone judges it. *)
Alone(k, r) ==
    [r EXCEPT !.lost = IF k = "fan_out" THEN 0 ELSE @,
              !.violations = IF k = "fan_out" THEN @ + r.lost ELSE @]

IsAlone(k, r, a) ==
    /\ a.sent = r.sent /\ a.received = r.received /\ a.duplicated = r.duplicated
    /\ a.corrupted = r.corrupted /\ a.errors = r.errors
    /\ a.republished = r.republished /\ a.attempts = r.attempts
    /\ a.ran = r.ran /\ a.confirmed = r.confirmed /\ a.latency = r.latency
    /\ a.lost = IF k = "fan_out" THEN 0 ELSE r.lost
    /\ a.violations = IF k = "fan_out" THEN r.violations + r.lost ELSE r.violations

LEMMA AloneIs ==
    ASSUME NEW k, NEW r \in Counters(k)
    PROVE  IsAlone(k, r, Alone(k, r))
  BY Zenon DEF Alone, Counters, IsAlone

LEMMA CountersNat ==
    ASSUME NEW k, NEW r \in [Channels -> Readable(k)], NEW f \in Numbers, NEW c \in Channels
    PROVE  r[c] \in Counters(k) /\ r[c][f] \in Nat /\ [d \in Channels |-> r[d][f]][c] = r[c][f]
  BY Zenon DEF Readable, Counters, Numbers

(* A counter of the group is at least that of each channel, and positive only when one of them is. *)
LEMMA AddedUp ==
    ASSUME NEW k, NEW r \in [Channels -> Readable(k)], NEW f \in Numbers
    PROVE  /\ Added(r, f) \in Nat
           /\ \A c \in Channels : r[c][f] <= Added(r, f)
           /\ Added(r, f) > 0 => \E c \in Channels : r[c][f] > 0
<1> DEFINE F == [c \in Channels |-> r[c][f]]
<1>1. \A c \in Channels : F[c] = r[c][f] /\ F[c] \in Nat
  BY CountersNat, Zenon
<1>2. Added(r, f) = Total(F)
  BY Zenon DEF Added
<1> HIDE DEF F
<1>3. /\ Total(F) \in Nat /\ \A c \in Channels : F[c] <= Total(F)
      /\ Total(F) > 0 => \E c \in Channels : F[c] > 0
  BY <1>1, TotalNat, Zenon
<1> QED BY <1>1, <1>2, <1>3, Zenon

(* What a channel has published and received. *)
Traffic(r) == [c \in Channels |-> r[c].sent + r[c].received]

LEMMA TrafficAdded ==
    ASSUME NEW k, NEW r \in [Channels -> Readable(k)]
    PROVE  /\ Total(Traffic(r)) = Added(r, "sent") + Added(r, "received")
           /\ \A c \in Channels : Traffic(r)[c] = r[c].sent + r[c].received /\ Traffic(r)[c] \in Nat
<1> DEFINE F == [c \in Channels |-> r[c]["sent"]]
           G == [c \in Channels |-> r[c]["received"]]
<1>1. \A c \in Channels : /\ F[c] = r[c].sent /\ F[c] \in Nat
                          /\ G[c] = r[c].received /\ G[c] \in Nat
  BY CountersNat, Zenon DEF Numbers
<1>2. Added(r, "sent") = Total(F) /\ Added(r, "received") = Total(G)
  BY Zenon DEF Added
<1> HIDE DEF F, G
<1>3. \A c \in Channels : /\ F[c] \in Int /\ G[c] \in Int /\ Traffic(r)[c] = F[c] + G[c]
                          /\ Traffic(r)[c] = r[c].sent + r[c].received /\ Traffic(r)[c] \in Nat
  BY <1>1 DEF Traffic
<1>4. Total(Traffic(r)) = Total(F) + Total(G)
  BY <1>3, TotalSum, Zenon
<1> QED BY <1>2, <1>3, <1>4, Zenon

(* The shares that the loss and the duplication gate look at, ... *)
LEMMA Shares ==
    ASSUME NEW k, NEW r \in [Channels -> Readable(k)], NEW f \in Numbers, NEW g \in Numbers, NEW q \in Nat
    PROVE  /\ Exceeds(Added(r, f), Added(r, g), q) => \E c \in Channels : Exceeds(r[c][f], r[c][g], q)
           /\ (\A c \in Channels : Exceeds(r[c][f], r[c][g], q)) => Exceeds(Added(r, f), Added(r, g), q)
<1> DEFINE F == [c \in Channels |-> r[c][f]]
           G == [c \in Channels |-> r[c][g]]
<1>1. \A c \in Channels : F[c] = r[c][f] /\ F[c] \in Nat /\ G[c] = r[c][g] /\ G[c] \in Nat
  BY CountersNat, Zenon
<1>2. Added(r, f) = Total(F) /\ Added(r, g) = Total(G)
  BY Zenon DEF Added
<1> HIDE DEF F, G
<1>3. ASSUME Exceeds(Total(F), Total(G), q) PROVE \E c \in Channels : Exceeds(F[c], G[c], q)
  BY <1>1, <1>3, ShareOfOne, Zenon
<1>4. ASSUME \A c \in Channels : Exceeds(F[c], G[c], q) PROVE Exceeds(Total(F), Total(G), q)
  BY <1>1, <1>4, ShareOfAll, Zenon
<1> QED BY <1>1, <1>2, <1>3, <1>4, Zenon

(* ... and the error gate. *)
LEMMA ErrorShares ==
    ASSUME NEW k, NEW r \in [Channels -> Readable(k)], NEW q \in Nat
    PROVE  /\ Exceeds(Added(r, "errors"), Added(r, "sent") + Added(r, "received"), q) =>
                 \E c \in Channels : Exceeds(r[c].errors, r[c].sent + r[c].received, q)
           /\ (\A c \in Channels : Exceeds(r[c].errors, r[c].sent + r[c].received, q)) =>
                 Exceeds(Added(r, "errors"), Added(r, "sent") + Added(r, "received"), q)
<1> DEFINE F == [c \in Channels |-> r[c]["errors"]]
<1>1. \A c \in Channels : F[c] = r[c].errors /\ F[c] \in Nat
  BY CountersNat, Zenon DEF Numbers
<1>2. Added(r, "errors") = Total(F)
  BY Zenon DEF Added
<1> HIDE DEF F
<1>3. /\ Total(Traffic(r)) = Added(r, "sent") + Added(r, "received")
      /\ \A c \in Channels : Traffic(r)[c] = r[c].sent + r[c].received /\ Traffic(r)[c] \in Nat
  BY TrafficAdded, Zenon
<1>4. ASSUME Exceeds(Total(F), Total(Traffic(r)), q)
      PROVE  \E c \in Channels : Exceeds(F[c], Traffic(r)[c], q)
  BY <1>1, <1>3, <1>4, ShareOfOne, Zenon
<1>5. ASSUME \A c \in Channels : Exceeds(F[c], Traffic(r)[c], q)
      PROVE  Exceeds(Total(F), Total(Traffic(r)), q)
  BY <1>1, <1>3, <1>5, ShareOfAll, Zenon
<1> QED BY <1>1, <1>2, <1>3, <1>4, <1>5, Zenon
(* A channel with the most samples exists. *)
LEMMA MostSamplesIn ==
    ASSUME NEW k, NEW r \in [Channels -> Readable(k)]
    PROVE  MostSamples(r) \in Channels
<1> DEFINE F == [c \in Channels |-> r[c].samples]
           B == {c \in Channels : \A d \in Channels : F[d] <= F[c]}
<1>0. \A c \in Channels : F[c] = r[c].samples /\ F[c] \in Nat
  BY Zenon DEF Readable, Counters
<1>a. Channels \subseteq Nat
  BY VerdictAssumption DEF Channels
<1> HIDE DEF F
<1>1. B # {}
  BY <1>0, Greatest, Zenon
<1>2. PICK m \in B : \A c \in B : m <= c
  BY <1>1, <1>a, Least, Zenon
<1>3. ASSUME NEW d \in Channels
      PROVE  r[d].samples < r[m].samples \/ (r[d].samples = r[m].samples /\ m <= d)
  <2>1. F[d] \in Nat /\ F[m] \in Nat /\ F[d] <= F[m] /\ r[d].samples = F[d] /\ r[m].samples = F[m]
    BY <1>0, <1>2, Zenon
  <2>2. CASE F[d] = F[m]
    <3>1. d \in B
      BY <1>2, <2>2, Zenon
    <3> QED BY <1>2, <2>1, <2>2, <3>1, Zenon
  <2>3. CASE F[d] # F[m]
    BY <2>1, <2>3
  <2> QED BY <2>2, <2>3, Zenon
<1>4. \E c \in Channels :
        \A d \in Channels : r[d].samples < r[c].samples \/ (r[d].samples = r[c].samples /\ c <= d)
  BY <1>2, <1>3, Zenon
<1> QED BY <1>4, Zenon DEF MostSamples

(* The most delivery attempts are none only when every channel has none. *)
LEMMA MostAttempts ==
    ASSUME NEW k, NEW r \in [Channels -> Readable(k)]
    PROVE  Max({r[c].attempts : c \in Channels}) = 0 <=> \A c \in Channels : r[c].attempts = 0
<1> DEFINE F == [c \in Channels |-> r[c].attempts]
           M == {r[c].attempts : c \in Channels}
<1>0. \A c \in Channels : F[c] = r[c].attempts /\ F[c] \in Nat
  BY Zenon DEF Readable, Counters
<1>1. PICK m \in Channels : \A d \in Channels : F[d] <= F[m]
  <2> HIDE DEF F
  <2> QED BY <1>0, Greatest, Zenon
<1>2. r[m].attempts \in M /\ \A y \in M : r[m].attempts >= y
  BY <1>0, <1>1, Zenon
<1>3. Max(M) \in M /\ \A y \in M : Max(M) >= y
  <2> HIDE DEF M
  <2> QED BY <1>2, Zenon DEF Max
<1>4. M \subseteq Nat
  BY <1>0, Zenon
<1>5. ASSUME Max(M) = 0, NEW c \in Channels PROVE r[c].attempts = 0
  <2>1. r[c].attempts \in M /\ r[c].attempts \in Nat
    BY <1>0, Zenon
  <2> HIDE DEF M
  <2>2. 0 >= r[c].attempts
    BY <1>3, <1>5, <2>1, Zenon
  <2> QED BY <2>1, <2>2
<1>6. ASSUME \A c \in Channels : r[c].attempts = 0 PROVE Max(M) = 0
  BY <1>3, <1>6, Zenon
<1> QED BY <1>5, <1>6, Zenon

(* What captureWorkerSnapshots makes of the channels. *)
IsGroup(k, r, s) ==
    /\ s.sent = Added(r, "sent") /\ s.received = Added(r, "received")
    /\ s.duplicated = Added(r, "duplicated") /\ s.corrupted = Added(r, "corrupted")
    /\ s.errors = Added(r, "errors") /\ s.republished = Added(r, "republished")
    /\ s.lost = IF k = "fan_out" THEN 0 ELSE Added(r, "lost")
    /\ s.violations = IF k = "fan_out" THEN Added(r, "violations") + Added(r, "lost")
                                       ELSE Added(r, "violations")
    /\ s.attempts = Max({r[i].attempts : i \in Channels})
    /\ s.ran = UNION {r[i].ran : i \in Channels}
    /\ s.confirmed = Confirmed(k, r)
    /\ s.latency = r[MostSamples(r)].latency

LEMMA SnapshotIs ==
    ASSUME NEW k, NEW r
    PROVE  IsGroup(k, r, Snapshot(k, r))
  BY Zenon DEF Snapshot, IsGroup

(***************************************************************************)
(* captureWorkerSnapshots and the gates: whatever the channels of a worker *)
(* type have counted, a gate that fails the group fails one of them alone. *)
(***************************************************************************)
LEMMA GroupHasCause ==
    ASSUME NEW k, NEW r \in [Channels -> Readable(k)], NEW c, Thresholds(c),
           NEW s, IsGroup(k, r, s), NEW a, \A i \in Channels : IsAlone(k, r[i], a[i]),
           NEW g \in Failures(k, s, c)
    PROVE  \E i \in Channels : g \in Failures(k, a[i], c)
<1>1. \A i \in Channels : r[i] \in Counters(k) /\ r[i] \in Readable(k)
  BY Zenon DEF Readable
<1>2. s.ran \subseteq Probes(k) /\ \A i \in Channels : a[i].ran \subseteq Probes(k)
  <2>1. \A i \in Channels : r[i].ran \subseteq Probes(k)
    BY <1>1, Zenon DEF Counters
  <2>2. s.ran = UNION {r[i].ran : i \in Channels} /\ \A i \in Channels : a[i].ran = r[i].ran
    BY Zenon DEF IsGroup, IsAlone
  <2> QED BY <2>1, <2>2, Zenon
<1>3. \A f \in Numbers : /\ Added(r, f) \in Nat
                         /\ \A i \in Channels : r[i][f] <= Added(r, f) /\ r[i][f] \in Nat
                         /\ Added(r, f) > 0 => \E i \in Channels : r[i][f] > 0
  BY AddedUp, CountersNat, Zenon
<1>4. g \in GateNames \cup Probes(k)
  BY <1>2, FailuresAre, Zenon
<1>5. CASE g = "corruption"
  <2>1. Added(r, "corrupted") > 0
    BY <1>2, <1>5, CorruptionGate, Zenon DEF IsGroup
  <2>2. PICK i \in Channels : r[i]["corrupted"] > 0
    BY <1>3, <2>1, Zenon DEF Numbers
  <2>3. a[i].corrupted > 0
    BY <2>2, Zenon DEF IsAlone
  <2> QED BY <1>2, <1>5, <2>3, CorruptionGate, Zenon
<1>6. CASE g = "loss"
  <2>1. s.sent > 0 /\ Exceeds(s.lost, s.sent, c.maxLoss) /\ Exceeds(s.lost, s.sent, BoundaryLoss)
    BY <1>2, <1>6, LossGate, Zenon
  <2>2. /\ s.lost = IF k = "fan_out" THEN 0 ELSE Added(r, "lost")
        /\ s.sent = Added(r, "sent") /\ Added(r, "sent") \in Nat
    BY <1>3, Zenon DEF Numbers, IsGroup
  <2>3. k # "fan_out" /\ s.lost = Added(r, "lost")
    BY <2>1, <2>2 DEF Exceeds, BoundaryLoss
  <2>4. PICK q \in Nat : /\ q = c.maxLoss \/ q = BoundaryLoss
                         /\ c.maxLoss <= q /\ BoundaryLoss <= q
    BY DEF Thresholds, BoundaryLoss
  <2>5. Exceeds(Added(r, "lost"), Added(r, "sent"), q)
    BY <2>1, <2>2, <2>3, <2>4, Zenon
  <2>6. PICK i \in Channels : Exceeds(r[i]["lost"], r[i]["sent"], q)
    BY <2>5, Shares, Zenon DEF Numbers
  <2>7. r[i].lost \in Nat /\ r[i].sent \in Nat /\ (r[i].sent = 0 => r[i].lost = 0)
    BY <1>1, Zenon DEF Readable, Counters
  <2>8. /\ r[i].sent > 0
        /\ Exceeds(r[i].lost, r[i].sent, c.maxLoss) /\ Exceeds(r[i].lost, r[i].sent, BoundaryLoss)
    BY <2>4, <2>6, <2>7 DEF Exceeds, Thresholds, BoundaryLoss
  <2>9. a[i].sent = r[i].sent /\ a[i].lost = r[i].lost
    BY <2>3, Zenon DEF IsAlone
  <2> QED BY <1>2, <1>6, <2>8, <2>9, LossGate, Zenon
<1>7. CASE g = "duplication"
  <2>1. /\ s.received > 0 /\ ~IsDuplicationGateExempt(k)
        /\ Exceeds(s.duplicated, s.received, c.maxDup)
    BY <1>2, <1>7, DuplicationGate, Zenon
  <2>2. Exceeds(Added(r, "duplicated"), Added(r, "received"), c.maxDup) /\ c.maxDup \in Nat
    BY <2>1, Zenon DEF IsGroup, Thresholds
  <2>3. PICK i \in Channels : Exceeds(r[i]["duplicated"], r[i]["received"], c.maxDup)
    BY <2>2, Shares, Zenon DEF Numbers
  <2>4. /\ r[i].duplicated \in Nat /\ r[i].received \in Nat
        /\ r[i].received = 0 => r[i].duplicated = 0
    BY <1>1, Zenon DEF Readable, Counters
  <2>5. r[i].received > 0
    BY <2>2, <2>3, <2>4 DEF Exceeds
  <2>6. a[i].received = r[i].received /\ a[i].duplicated = r[i].duplicated
    BY Zenon DEF IsAlone
  <2> QED BY <1>2, <1>7, <2>1, <2>3, <2>5, <2>6, DuplicationGate, Zenon
<1>8. CASE g = "latency"
  <2>1. /\ ~IsLatencyGateExempt(k)
        /\ \E p \in Percentiles : s.latency[p] > 0 /\ c.maxLatency[p] > 0 /\ s.latency[p] > c.maxLatency[p]
    BY <1>2, <1>8, LatencyGate, Zenon
  <2>2. MostSamples(r) \in Channels
    BY MostSamplesIn, Zenon
  <2>3. s.latency = a[MostSamples(r)].latency
    BY <2>2, Zenon DEF IsAlone, IsGroup
  <2> QED BY <1>2, <1>8, <2>1, <2>2, <2>3, LatencyGate, Zenon
<1>9. CASE g = "errors"
  <2>1. Exceeds(s.errors, s.sent + s.received, c.maxErrors) /\ c.maxErrors \in Nat
    BY <1>2, <1>9, ErrorsGate, Zenon DEF Thresholds
  <2>2. PICK i \in Channels : Exceeds(r[i].errors, r[i].sent + r[i].received, c.maxErrors)
    BY <2>1, ErrorShares, Zenon DEF IsGroup
  <2>3. /\ r[i].errors \in Nat /\ r[i].sent \in Nat /\ r[i].received \in Nat
        /\ r[i].sent + r[i].received = 0 => r[i].errors = 0
    BY <1>1, Zenon DEF Readable, Counters
  <2>4. r[i].sent + r[i].received > 0
    BY <2>1, <2>2, <2>3 DEF Exceeds
  <2>5. a[i].errors = r[i].errors /\ a[i].sent = r[i].sent /\ a[i].received = r[i].received
    BY Zenon DEF IsAlone
  <2> QED BY <1>2, <1>9, <2>2, <2>4, <2>5, ErrorsGate, Zenon
<1>10. CASE g = "throughput"
  <2>1. /\ s.sent > 0 /\ ~IsThroughputGateExempt(k)
        /\ s.sent * 1000 < c.minThroughput * c.rate * Duration
    BY <1>2, <1>10, ThroughputGate
  <2>2. s.sent = Added(r, "sent") /\ Added(r, "sent") \in Nat
    BY <1>3, Zenon DEF IsGroup, Numbers
  <2>3. PICK i \in Channels : r[i]["sent"] > 0
    BY <1>3, <2>1, <2>2, Zenon DEF Numbers
  <2>4. r[i]["sent"] <= Added(r, "sent") /\ r[i]["sent"] \in Nat /\ a[i].sent = r[i].sent
    BY <1>3, Zenon DEF Numbers, IsAlone
  <2>5. c.minThroughput * c.rate * Duration \in Int
    BY DEF Thresholds, Duration
  <2>6. a[i].sent > 0 /\ a[i].sent * 1000 < c.minThroughput * c.rate * Duration
    BY <2>1, <2>2, <2>3, <2>4, <2>5
  <2> QED BY <1>2, <1>10, <2>1, <2>6, ThroughputGate
<1>11. CASE g = "violations"
  <2>1. s.violations > 0
    BY <1>2, <1>11, ViolationsGate, Zenon
  <2>2. Added(r, "violations") > 0 \/ (k = "fan_out" /\ Added(r, "lost") > 0)
    <3>1. Added(r, "violations") \in Nat /\ Added(r, "lost") \in Nat
      BY <1>3, Zenon DEF Numbers
    <3>2. s.violations = IF k = "fan_out" THEN Added(r, "violations") + Added(r, "lost")
                                          ELSE Added(r, "violations")
      BY Zenon DEF IsGroup
    <3> QED BY <2>1, <3>1, <3>2
  <2>3. PICK i \in Channels : r[i]["violations"] > 0 \/ (k = "fan_out" /\ r[i]["lost"] > 0)
    BY <1>3, <2>2, Zenon DEF Numbers
  <2>4. r[i].violations \in Nat /\ r[i].lost \in Nat
    BY <1>3, Zenon DEF Numbers
  <2>5. a[i].violations = IF k = "fan_out" THEN r[i].violations + r[i].lost ELSE r[i].violations
    BY Zenon DEF IsAlone
  <2>6. a[i].violations > 0
    BY <2>3, <2>4, <2>5
  <2> QED BY <1>2, <1>11, <2>6, ViolationsGate, Zenon
<1>12. CASE g = "attempts"
  <2>1. k = "dead_letter" /\ s.republished > 0 /\ s.attempts = 0
    BY <1>2, <1>12, AttemptsGate, Zenon
  <2>2. PICK i \in Channels : r[i]["republished"] > 0
    BY <1>3, <2>1, Zenon DEF Numbers, IsGroup
  <2>3. r[i].attempts = 0
    BY <2>1, MostAttempts, Zenon DEF IsGroup
  <2>4. a[i].republished > 0 /\ a[i].attempts = 0
    BY <2>2, <2>3, Zenon DEF IsAlone
  <2> QED BY <1>2, <1>12, <2>1, <2>4, AttemptsGate, Zenon
<1>13. CASE g \in Probes(k)
  <2>1. g \in s.ran /\ s.confirmed[g] = 0
    BY <1>2, <1>13, FailuresAre, Zenon
  <2>a. s.ran = UNION {r[i].ran : i \in Channels}
    BY Zenon DEF IsGroup
  <2>2. PICK i \in Channels : g \in r[i].ran
    BY <2>1, <2>a, Zenon
  <2> DEFINE F == [j \in Channels |-> r[j].confirmed[g]]
  <2>3. \A j \in Channels : F[j] = r[j].confirmed[g] /\ F[j] \in Nat
    BY <1>1, <1>13, Zenon DEF Counters
  <2>4. s.confirmed[g] = Total(F)
    BY <1>13, Zenon DEF IsGroup, Confirmed
  <2> HIDE DEF F
  <2>5. F[i] <= Total(F)
    BY <2>3, TotalNat, Zenon
  <2>6. r[i].confirmed[g] = 0
    BY <2>1, <2>3, <2>4, <2>5
  <2>7. g \in a[i].ran /\ a[i].confirmed[g] = 0
    BY <2>2, <2>6, Zenon DEF IsAlone
  <2> QED BY <1>2, <1>13, <2>7, FailuresAre, Zenon
<1> QED BY <1>4, <1>5, <1>6, <1>7, <1>8, <1>9, <1>10, <1>11, <1>12, <1>13, Zenon DEF GateNames
(***************************************************************************)
(* The other way round: a corruption or a violation on one channel fails   *)
(* the group, and so does any gate but throughput that every channel       *)
(* fails.                                                                  *)
(***************************************************************************)
LEMMA GroupMasksNothing ==
    ASSUME NEW k, NEW r \in [Channels -> Readable(k)], NEW c, Thresholds(c),
           NEW s, IsGroup(k, r, s), NEW a, \A i \in Channels : IsAlone(k, r[i], a[i])
    PROVE  /\ \A i \in Channels, g \in {"corruption", "violations"} :
                 g \in Failures(k, a[i], c) => g \in Failures(k, s, c)
           /\ \A g \in (GateNames \ {"throughput"}) \cup Probes(k) :
                 (\A i \in Channels : g \in Failures(k, a[i], c)) => g \in Failures(k, s, c)
<1>1. \A i \in Channels : r[i] \in Counters(k) /\ r[i] \in Readable(k)
  BY Zenon DEF Readable
<1>2. s.ran \subseteq Probes(k) /\ \A i \in Channels : a[i].ran \subseteq Probes(k)
  <2>1. \A i \in Channels : r[i].ran \subseteq Probes(k)
    BY <1>1, Zenon DEF Counters
  <2>2. s.ran = UNION {r[i].ran : i \in Channels} /\ \A i \in Channels : a[i].ran = r[i].ran
    BY Zenon DEF IsGroup, IsAlone
  <2> QED BY <2>1, <2>2, Zenon
<1>3. \A f \in Numbers : /\ Added(r, f) \in Nat
                         /\ \A i \in Channels : r[i][f] <= Added(r, f) /\ r[i][f] \in Nat
  BY AddedUp, CountersNat, Zenon
<1>4. 1 \in Channels
  BY VerdictAssumption DEF Channels
<1>5. ASSUME NEW i \in Channels, "corruption" \in Failures(k, a[i], c)
      PROVE  "corruption" \in Failures(k, s, c)
  <2>1. a[i].corrupted > 0 /\ a[i].corrupted = r[i].corrupted
    BY <1>2, <1>5, CorruptionGate, Zenon DEF IsAlone
  <2>2. r[i].corrupted <= Added(r, "corrupted") /\ r[i].corrupted \in Nat /\ Added(r, "corrupted") \in Nat
    BY <1>3, Zenon DEF Numbers
  <2>3. s.corrupted = Added(r, "corrupted")
    BY Zenon DEF IsGroup
  <2>4. s.corrupted > 0
    BY <2>1, <2>2, <2>3
  <2> QED BY <1>2, <2>4, CorruptionGate, Zenon
<1>6. ASSUME NEW i \in Channels, "violations" \in Failures(k, a[i], c)
      PROVE  "violations" \in Failures(k, s, c)
  <2>1. /\ a[i].violations > 0
        /\ a[i].violations = IF k = "fan_out" THEN r[i].violations + r[i].lost ELSE r[i].violations
    BY <1>2, <1>6, ViolationsGate, Zenon DEF IsAlone
  <2>2. /\ r[i].violations <= Added(r, "violations") /\ r[i].violations \in Nat /\ Added(r, "violations") \in Nat
        /\ r[i].lost <= Added(r, "lost") /\ r[i].lost \in Nat /\ Added(r, "lost") \in Nat
    BY <1>3, Zenon DEF Numbers
  <2>3. s.violations = IF k = "fan_out" THEN Added(r, "violations") + Added(r, "lost")
                                        ELSE Added(r, "violations")
    BY Zenon DEF IsGroup
  <2>4. s.violations > 0
    BY <2>1, <2>2, <2>3
  <2> QED BY <1>2, <2>4, ViolationsGate, Zenon
<1>7. ASSUME \A i \in Channels : "loss" \in Failures(k, a[i], c) PROVE "loss" \in Failures(k, s, c)
  <2>1. \A i \in Channels : /\ a[i].sent > 0 /\ Exceeds(a[i].lost, a[i].sent, c.maxLoss)
                            /\ Exceeds(a[i].lost, a[i].sent, BoundaryLoss)
    BY <1>2, <1>7, LossGate, Zenon
  <2>2. k # "fan_out"
    <3>1. a[1].lost = (IF k = "fan_out" THEN 0 ELSE r[1].lost) /\ a[1].sent = r[1].sent
      BY <1>4, Zenon DEF IsAlone
    <3>2. r[1].sent \in Nat /\ Exceeds(a[1].lost, a[1].sent, BoundaryLoss)
      BY <1>3, <1>4, <2>1, Zenon DEF Numbers
    <3> QED BY <3>1, <3>2 DEF Exceeds, BoundaryLoss
  <2>3. \A i \in Channels : a[i].lost = r[i]["lost"] /\ a[i].sent = r[i]["sent"]
    BY <2>2, Zenon DEF IsAlone
  <2>4. c.maxLoss \in Nat /\ BoundaryLoss \in Nat
    BY Zenon DEF Thresholds, BoundaryLoss
  <2>5. /\ Exceeds(Added(r, "lost"), Added(r, "sent"), c.maxLoss)
        /\ Exceeds(Added(r, "lost"), Added(r, "sent"), BoundaryLoss)
    BY <2>1, <2>3, <2>4, Shares, Zenon DEF Numbers
  <2>6. s.lost = Added(r, "lost") /\ s.sent = Added(r, "sent")
    BY <2>2, Zenon DEF IsGroup
  <2>7. s.sent > 0
    <3>1. r[1].sent <= Added(r, "sent") /\ r[1].sent \in Nat /\ Added(r, "sent") \in Nat /\ r[1].sent > 0
      BY <1>3, <1>4, <2>1, <2>3, Zenon DEF Numbers
    <3> QED BY <2>6, <3>1
  <2> QED BY <1>2, <2>5, <2>6, <2>7, LossGate, Zenon
<1>8. ASSUME \A i \in Channels : "duplication" \in Failures(k, a[i], c)
      PROVE  "duplication" \in Failures(k, s, c)
  <2>1. /\ ~IsDuplicationGateExempt(k)
        /\ \A i \in Channels : a[i].received > 0 /\ Exceeds(a[i].duplicated, a[i].received, c.maxDup)
    BY <1>2, <1>4, <1>8, DuplicationGate, Zenon
  <2>2. \A i \in Channels : a[i].received = r[i]["received"] /\ a[i].duplicated = r[i]["duplicated"]
    BY Zenon DEF IsAlone
  <2>3. Exceeds(Added(r, "duplicated"), Added(r, "received"), c.maxDup)
    BY <2>1, <2>2, Shares, Zenon DEF Numbers, Thresholds
  <2>4. s.duplicated = Added(r, "duplicated") /\ s.received = Added(r, "received")
    BY Zenon DEF IsGroup
  <2>5. s.received > 0
    <3>1. /\ r[1].received <= Added(r, "received") /\ r[1].received \in Nat /\ Added(r, "received") \in Nat
          /\ r[1].received > 0
      BY <1>3, <1>4, <2>1, <2>2, Zenon DEF Numbers
    <3> QED BY <2>4, <3>1
  <2> QED BY <1>2, <2>1, <2>3, <2>4, <2>5, DuplicationGate, Zenon
<1>9. ASSUME \A i \in Channels : "latency" \in Failures(k, a[i], c) PROVE "latency" \in Failures(k, s, c)
  <2>1. MostSamples(r) \in Channels
    BY MostSamplesIn, Zenon
  <2>2. s.latency = a[MostSamples(r)].latency
    BY <2>1, Zenon DEF IsAlone, IsGroup
  <2>3. "latency" \in Failures(k, a[MostSamples(r)], c) /\ a[MostSamples(r)].ran \subseteq Probes(k)
    BY <1>2, <1>9, <2>1, Zenon
  <2> QED BY <1>2, <2>2, <2>3, LatencyGate, Zenon
<1>10. ASSUME \A i \in Channels : "errors" \in Failures(k, a[i], c) PROVE "errors" \in Failures(k, s, c)
  <2>1. \A i \in Channels : /\ a[i].sent + a[i].received > 0
                            /\ Exceeds(a[i].errors, a[i].sent + a[i].received, c.maxErrors)
    BY <1>2, <1>10, ErrorsGate, Zenon
  <2>2. \A i \in Channels : /\ a[i].errors = r[i].errors
                            /\ a[i].sent = r[i].sent /\ a[i].received = r[i].received
    BY Zenon DEF IsAlone
  <2>3. Exceeds(Added(r, "errors"), Added(r, "sent") + Added(r, "received"), c.maxErrors)
    BY <2>1, <2>2, ErrorShares, Zenon DEF Thresholds
  <2>4. s.errors = Added(r, "errors") /\ s.sent = Added(r, "sent") /\ s.received = Added(r, "received")
    BY Zenon DEF IsGroup
  <2>5. s.sent + s.received > 0
    <3>1. /\ r[1].sent <= Added(r, "sent") /\ r[1].sent \in Nat /\ Added(r, "sent") \in Nat
          /\ r[1].received <= Added(r, "received") /\ r[1].received \in Nat /\ Added(r, "received") \in Nat
          /\ r[1].sent + r[1].received > 0
      BY <1>3, <1>4, <2>1, <2>2, Zenon DEF Numbers
    <3> QED BY <2>4, <3>1
  <2> QED BY <1>2, <2>3, <2>4, <2>5, ErrorsGate, Zenon
<1>11. ASSUME \A i \in Channels : "attempts" \in Failures(k, a[i], c) PROVE "attempts" \in Failures(k, s, c)
  <2>1. k = "dead_letter" /\ \A i \in Channels : a[i].republished > 0 /\ a[i].attempts = 0
    BY <1>2, <1>4, <1>11, AttemptsGate, Zenon
  <2>2. \A i \in Channels : a[i].republished = r[i].republished /\ a[i].attempts = r[i].attempts
    BY Zenon DEF IsAlone
  <2>3. s.attempts = 0
    <3>1. s.attempts = Max({r[i].attempts : i \in Channels})
      BY Zenon DEF IsGroup
    <3>2. \A i \in Channels : r[i].attempts = 0
      BY <2>1, <2>2, Zenon
    <3> QED BY <3>1, <3>2, MostAttempts, Zenon
  <2>4. s.republished > 0
    <3>1. /\ r[1].republished <= Added(r, "republished") /\ r[1].republished \in Nat
          /\ Added(r, "republished") \in Nat /\ r[1].republished > 0
      BY <1>3, <1>4, <2>1, <2>2, Zenon DEF Numbers
    <3>2. s.republished = Added(r, "republished")
      BY Zenon DEF IsGroup
    <3> QED BY <3>1, <3>2
  <2> QED BY <1>2, <2>1, <2>3, <2>4, AttemptsGate, Zenon
<1>12. ASSUME NEW p \in Probes(k), \A i \in Channels : p \in Failures(k, a[i], c)
       PROVE  p \in Failures(k, s, c)
  <2>1. \A i \in Channels : p \in a[i].ran /\ a[i].confirmed[p] = 0
    BY <1>2, <1>12, FailuresAre, Zenon
  <2>2. \A i \in Channels : p \in r[i].ran /\ r[i].confirmed[p] = 0
    BY <2>1, Zenon DEF IsAlone
  <2>3. p \in s.ran
    <3>1. s.ran = UNION {r[i].ran : i \in Channels}
      BY Zenon DEF IsGroup
    <3> QED BY <1>4, <2>2, <3>1, Zenon
  <2> DEFINE F == [j \in Channels |-> r[j].confirmed[p]]
  <2>4. \A j \in Channels : F[j] \in Nat /\ ~(F[j] > 0)
    BY <2>2
  <2>5. s.confirmed[p] = Total(F)
    BY <1>12, Zenon DEF IsGroup, Confirmed
  <2> HIDE DEF F
  <2>6. Total(F) \in Nat /\ ~(Total(F) > 0)
    BY <2>4, TotalNat, Zenon
  <2>7. s.confirmed[p] = 0
    BY <2>5, <2>6
  <2> QED BY <1>2, <1>12, <2>3, <2>7, FailuresAre, Zenon
<1>13. \A i \in Channels, g \in {"corruption", "violations"} :
          g \in Failures(k, a[i], c) => g \in Failures(k, s, c)
  BY <1>5, <1>6, Zenon
<1>14. ASSUME NEW g \in (GateNames \ {"throughput"}) \cup Probes(k),
              \A i \in Channels : g \in Failures(k, a[i], c)
       PROVE  g \in Failures(k, s, c)
  BY <1>4, <1>5, <1>6, <1>7, <1>8, <1>9, <1>10, <1>11, <1>12, <1>14, Zenon DEF GateNames
<1> QED BY <1>13, <1>14, Zenon
-----------------------------------------------------------------------------
(* The engine and a report that is put together beside it.                 *)

(***************************************************************************)
(* The engine.  The snapshots are those of what was captured; they are     *)
(* there only when the run is past its measurement, and a verdict is the   *)
(* one they give.                                                          *)
(***************************************************************************)
EngineInv ==
    /\ phase \in {"idle", "running", "captured", "stopped"}
    /\ runs \in 0 .. MaxRuns /\ (phase # "idle" => runs > 0)
    /\ Thresholds(runCfg)
    /\ outcome \in [1 .. MaxRuns -> Results \cup {None}]
    /\ \A k \in DOMAIN captured : captured[k] \in [Channels -> Readable(k)]
    /\ snaps = {[kind |-> k, snap |-> Snapshot(k, captured[k])] : k \in DOMAIN captured}
    /\ phase \in {"idle", "running"} => snaps = {}
    /\ phase # "stopped" => verdict = None
    /\ verdict # None => verdict = EngineVerdict(snaps, memory, runCfg) /\ verdict = outcome[runs]

LEMMA InitEngine == Init => EngineInv
<1> SUFFICES ASSUME Init PROVE EngineInv
  BY Zenon
<1>1. phase = "idle" /\ runs = 0 /\ runCfg = StartupConfig /\ snaps = {} /\ verdict = None
      /\ captured = <<>> /\ outcome = [r \in 1 .. MaxRuns |-> None]
  BY Zenon DEF Init
<1>2. Thresholds(runCfg)
  BY <1>1 DEF StartupConfig, Thresholds
<1>3. DOMAIN captured = {}
  BY <1>1
<1>4. snaps = {[kind |-> k, snap |-> Snapshot(k, captured[k])] : k \in DOMAIN captured}
  BY <1>1, <1>3, Zenon
<1>5. runs \in 0 .. MaxRuns
  BY <1>1, VerdictAssumption
<1> QED BY <1>1, <1>2, <1>3, <1>4, <1>5, Zenon DEF EngineInv

LEMMA ValidThresholds ==
    ASSUME NEW c, Validate(c), c.rate \in Nat
    PROVE  Thresholds(c)
<1>1. /\ c.maxLoss \in 0 .. Whole /\ c.maxDup \in 0 .. Whole /\ c.maxErrors \in 0 .. Whole
      /\ c.minThroughput \in 1 .. Whole /\ \A p \in Percentiles : c.maxLatency[p] > 0
  BY Zenon DEF Validate
<1>2. 0 .. Whole \subseteq Nat /\ 1 .. Whole \subseteq Nat
  BY DEF Whole
<1> QED BY <1>1, <1>2, Zenon DEF Thresholds

(* The configuration of a run is validated, whatever blocks the request replaces. *)
LEMMA AcceptedThresholds ==
    ASSUME NEW sets, NEW rc \in RunConfigs(sets), Accepts(Overlay(StartupConfig, rc))
    PROVE  Thresholds(Overlay(StartupConfig, rc))
<1> DEFINE c == Overlay(StartupConfig, rc)
<1>1. c.rate \in Nat
  <2>1. "rate" \notin DOMAIN rc.thresholds
    <3>1. CASE rc.thresholds = <<>>
      BY <3>1
    <3>2. CASE rc.thresholds # <<>>
      <4>1. PICK l, g, m : rc.thresholds = [maxLoss |-> l, maxDup |-> 1, maxErrors |-> 10, minThroughput |-> 800,
                                            maxGrowth |-> g, maxLatency |-> m]
        BY <3>2 DEF RunConfigs
      <4> QED BY <4>1, Zenon
    <3> QED BY <3>1, <3>2, Zenon
  <2>2. "rate" \in DOMAIN rc.workers => rc.workers.rate \in {0, 100}
    <3>1. CASE rc.workers = <<>>
      BY <3>1
    <3>2. CASE rc.workers # <<>>
      <4>1. PICK w, q : rc.workers = [enabled |-> w, rate |-> q] /\ q \in {0, 100}
        BY <3>2 DEF RunConfigs
      <4> QED BY <4>1
    <3> QED BY <3>1, <3>2, Zenon
  <2>3. "rate" \in DOMAIN StartupConfig /\ StartupConfig.rate = 100
    BY Zenon DEF StartupConfig
  <2>4. c.rate = IF "rate" \in DOMAIN rc.workers THEN rc.workers.rate ELSE 100
    BY <2>1, <2>3, Zenon DEF Overlay
  <2> QED BY <2>2, <2>4
<1>2. Validate(c)
  BY Zenon DEF Accepts
<1> HIDE DEF c
<1>3. Thresholds(c)
  BY <1>1, <1>2, ValidThresholds, Zenon
<1> QED BY <1>3, Zenon DEF c

LEMMA StartRunEngine ==
    ASSUME EngineInv, runs < MaxRuns, NEW rc \in RunConfigs(EnabledSets[runs + 1]), StartRun(rc)
    PROVE  EngineInv'
<1>1. /\ phase' = "running" /\ runs' = runs + 1 /\ runCfg' = Overlay(StartupConfig, rc)
      /\ Accepts(Overlay(StartupConfig, rc)) /\ snaps' = {} /\ verdict' = None /\ captured' = <<>>
      /\ outcome' = outcome
  BY Zenon DEF StartRun
<1>2. Thresholds(runCfg')
  BY <1>1, AcceptedThresholds, Zenon
<1>3. runs' \in 0 .. MaxRuns /\ runs' > 0
  BY <1>1, VerdictAssumption DEF EngineInv
<1>4. DOMAIN captured' = {}
  BY <1>1
<1>5. snaps' = {[kind |-> k, snap |-> Snapshot(k, captured'[k])] : k \in DOMAIN captured'}
  BY <1>1, <1>4, Zenon
<1>6. Thresholds(runCfg)'
  BY <1>2, Zenon DEF Thresholds
<1> QED BY <1>1, <1>3, <1>4, <1>5, <1>6, Zenon DEF EngineInv

LEMMA CaptureEngine ==
    ASSUME EngineInv, captureWorkerSnapshots
    PROVE  EngineInv'
<1>1. /\ phase = "running" /\ phase' = "captured" /\ runs' = runs /\ runCfg' = runCfg
      /\ verdict' = verdict /\ outcome' = outcome
      /\ snaps' = {[kind |-> k, snap |-> Snapshot(k, captured'[k])] : k \in runCfg.enabled}
  BY Zenon DEF captureWorkerSnapshots
<1>a. PICK D \in UNION {kSubset(n, runCfg.enabled \X Channels) : n \in 0 .. MaxDeviations[runs]} :
         \E d \in [D -> AllDeviations \ {"normal"}] :
            /\ \A x \in D : d[x] \in Deviations(x[1])
            /\ captured' = [k \in runCfg.enabled |->
                  [c \in Channels |->
                      Reading(k, IF <<k, c>> \in D THEN d[<<k, c>>] ELSE "normal")]]
  BY Zenon DEF captureWorkerSnapshots
<1>2. PICK d \in [D -> AllDeviations \ {"normal"}] :
            /\ \A x \in D : d[x] \in Deviations(x[1])
            /\ captured' = [k \in runCfg.enabled |->
                  [c \in Channels |->
                      Reading(k, IF <<k, c>> \in D THEN d[<<k, c>>] ELSE "normal")]]
  BY <1>a, Zenon
<1>3. DOMAIN captured' = runCfg.enabled
  BY <1>2, Zenon
<1>4. ASSUME NEW k \in runCfg.enabled PROVE captured'[k] \in [Channels -> Readable(k)]
  <2>1. captured'[k] = [c \in Channels |-> Reading(k, IF <<k, c>> \in D THEN d[<<k, c>>] ELSE "normal")]
    BY <1>2, Zenon
  <2>2. ASSUME NEW c \in Channels
        PROVE  Reading(k, IF <<k, c>> \in D THEN d[<<k, c>>] ELSE "normal") \in Readable(k)
    <3>1. (IF <<k, c>> \in D THEN d[<<k, c>>] ELSE "normal") \in Deviations(k)
      <4>1. CASE <<k, c>> \in D
        <5>1. d[<<k, c>>] \in Deviations(<<k, c>>[1])
          BY <1>2, <4>1, Zenon
        <5>2. <<k, c>>[1] = k
          BY Zenon
        <5> QED BY <4>1, <5>1, <5>2, Zenon
      <4>2. CASE <<k, c>> \notin D
        BY <4>2, Zenon DEF Deviations
      <4> QED BY <4>1, <4>2, Zenon
    <3> QED BY <3>1, ReadingReadable, Zenon
  <2> QED BY <2>1, <2>2, Zenon
<1>5. \A k \in DOMAIN captured' : captured'[k] \in [Channels -> Readable(k)]
  BY <1>3, <1>4, Zenon
<1>6. snaps' = {[kind |-> k, snap |-> Snapshot(k, captured'[k])] : k \in DOMAIN captured'}
  BY <1>1, <1>3, Zenon
<1>7. Thresholds(runCfg)'
  BY <1>1, Zenon DEF EngineInv, Thresholds
<1> QED BY <1>1, <1>5, <1>6, <1>7, Zenon DEF EngineInv

LEMMA EngineVerdictIs == \A ss, m, c : EngineVerdict(ss, m, c) \in Results
  BY Zenon DEF EngineVerdict, Results

LEMMA VerdictEngine ==
    ASSUME EngineInv, computeVerdict
    PROVE  EngineInv'
<1>1. /\ phase = "captured" /\ phase' = "stopped" /\ verdict' = EngineVerdict(snaps, memory, runCfg)
      /\ outcome' = [outcome EXCEPT ![runs] = verdict']
      /\ runs' = runs /\ runCfg' = runCfg /\ snaps' = snaps /\ memory' = memory /\ captured' = captured
  BY Zenon DEF computeVerdict
<1>2. verdict' \in Results
  BY <1>1, EngineVerdictIs, Zenon
<1>3. runs \in 1 .. MaxRuns
  BY <1>1, VerdictAssumption DEF EngineInv
<1>4. outcome' \in [1 .. MaxRuns -> Results \cup {None}] /\ outcome'[runs] = verdict'
  BY <1>1, <1>2, <1>3, Zenon DEF EngineInv
<1>5. Thresholds(runCfg)'
  BY <1>1, Zenon DEF EngineInv, Thresholds
<1>6. verdict' = EngineVerdict(snaps', memory', runCfg')
  BY <1>1, Zenon
<1>7. \A k \in DOMAIN captured' : captured'[k] \in [Channels -> Readable(k)]
  BY <1>1, Zenon DEF EngineInv
<1>8. snaps' = {[kind |-> k, snap |-> Snapshot(k, captured'[k])] : k \in DOMAIN captured'}
  BY <1>1, Zenon DEF EngineInv
<1> QED BY <1>1, <1>4, <1>5, <1>6, <1>7, <1>8, Zenon DEF EngineInv

(* What leaves the engine alone, but for the end of a run that is not judged. *)
LEMMA EngineKept ==
    ASSUME EngineInv, <<runs, runCfg, snaps, memory, verdict, captured, outcome>>' =
                      <<runs, runCfg, snaps, memory, verdict, captured, outcome>>,
           phase' = phase \/ (phase = "running" /\ phase' = "stopped")
    PROVE  EngineInv'
<1>1. /\ runs' = runs /\ runCfg' = runCfg /\ snaps' = snaps /\ memory' = memory /\ verdict' = verdict
      /\ captured' = captured /\ outcome' = outcome
  BY Zenon
<1>2. Thresholds(runCfg)'
  BY <1>1, Zenon DEF EngineInv, Thresholds
<1>3. (verdict # None => verdict = EngineVerdict(snaps, memory, runCfg) /\ verdict = outcome[runs])'
  BY <1>1, Zenon DEF EngineInv
<1>4. (phase # "stopped" => verdict = None)' /\ (phase \in {"idle", "running"} => snaps = {})'
      /\ phase' \in {"idle", "running", "captured", "stopped"} /\ (phase # "idle" => runs > 0)'
  BY <1>1, Zenon DEF EngineInv
<1>5. /\ runs' \in 0 .. MaxRuns /\ outcome' \in [1 .. MaxRuns -> Results \cup {None}]
      /\ \A k \in DOMAIN captured' : captured'[k] \in [Channels -> Readable(k)]
      /\ snaps' = {[kind |-> k, snap |-> Snapshot(k, captured'[k])] : k \in DOMAIN captured'}
  BY <1>1, Zenon DEF EngineInv
<1> QED BY <1>2, <1>3, <1>4, <1>5, Zenon DEF EngineInv

LEMMA EngineStep == EngineInv /\ [Next]_vars => EngineInv'
<1> SUFFICES ASSUME EngineInv, [Next]_vars PROVE EngineInv'
  BY Zenon
<1>1. ASSUME runs < MaxRuns, NEW rc \in RunConfigs(EnabledSets[runs + 1]), StartRun(rc) PROVE EngineInv'
  BY <1>1, StartRunEngine, Zenon
<1>2. CASE RunEndsEarly
  BY <1>2, EngineKept, Zenon DEF RunEndsEarly
<1>3. CASE RunReport
  BY <1>3, EngineKept, Zenon DEF RunReport, ReadSnapshots, ReadConfig, ReadMemory, ReadVerdict, engine
<1>4. CASE UNCHANGED vars
  BY <1>4, EngineKept, Zenon DEF vars, engine
<1> QED BY <1>1, <1>2, <1>3, <1>4, CaptureEngine, VerdictEngine, Zenon DEF Next

(***************************************************************************)
(* Adding up counters and percentages of any number of channels invents no *)
(* failure: a gate that fails a worker type fails one of its channels      *)
(* alone (captureWorkerSnapshots, computeVerdict).                         *)
(***************************************************************************)
THEOREM NoFailureInvented == Spec => []FailureHasCause
<1>1. ASSUME EngineInv PROVE FailureHasCause
  <2> SUFFICES ASSUME NEW k \in DOMAIN captured, NEW g \in GroupFailures(k)
               PROVE  \E i \in Channels : g \in FailuresAlone(k, i)
    BY Zenon DEF FailureHasCause
  <2>1. PICK t \in snaps : t.kind = k /\ g \in Failures(k, t.snap, runCfg)
    BY Zenon DEF GroupFailures
  <2>2. captured[k] \in [Channels -> Readable(k)] /\ Thresholds(runCfg)
    BY <1>1, Zenon DEF EngineInv
  <2>3. t.snap = Snapshot(k, captured[k])
    <3>1. PICK l \in DOMAIN captured : t = [kind |-> l, snap |-> Snapshot(l, captured[l])]
      BY <1>1, <2>1, Zenon DEF EngineInv
    <3> QED BY <2>1, <3>1, Zenon
  <2>4. IsGroup(k, captured[k], t.snap)
    BY <2>3, SnapshotIs, Zenon
  <2> DEFINE a == [i \in Channels |-> Alone(k, captured[k][i])]
  <2>5. \A i \in Channels : a[i] = Alone(k, captured[k][i]) /\ FailuresAlone(k, i) = Failures(k, a[i], runCfg)
    BY Zenon DEF FailuresAlone, Alone
  <2>6. \A i \in Channels : IsAlone(k, captured[k][i], a[i])
    BY <2>2, <2>5, AloneIs, Zenon DEF Readable
  <2> HIDE DEF a
  <2>7. \E i \in Channels : g \in Failures(k, a[i], runCfg)
    BY <2>1, <2>2, <2>4, <2>6, GroupHasCause, Zenon
  <2> QED BY <2>5, <2>7, Zenon
<1> QED BY <1>1, InitEngine, EngineStep, PTL DEF Spec

(***************************************************************************)
(* A run with corruption or violations on any channel of any worker type   *)
(* does not pass, and neither does one in which every channel of a worker  *)
(* type fails a gate other than throughput, for any number of channels     *)
(* (captureWorkerSnapshots, computeVerdict).                               *)
(***************************************************************************)
THEOREM NoFailureHidden == Spec => []NothingMasked
<1>1. ASSUME EngineInv PROVE NothingMasked
  <2> SUFFICES ASSUME verdict \in {"PASSED", "PASSED_WITH_WARNINGS"}, NEW k \in DOMAIN captured
               PROVE  /\ \A i \in Channels : FailuresAlone(k, i) \cap {"corruption", "violations"} = {}
                      /\ \A g \in (DOMAIN Gates(k, Normal(k), runCfg) \ {"throughput"}) \cup Probes(k) :
                            \E i \in Channels : g \notin FailuresAlone(k, i)
    BY Zenon DEF NothingMasked
  <2>1. captured[k] \in [Channels -> Readable(k)] /\ Thresholds(runCfg)
    BY <1>1, Zenon DEF EngineInv
  <2>2. verdict = EngineVerdict(snaps, memory, runCfg) /\ verdict # "FAILED"
    BY <1>1, Zenon DEF EngineInv, None
  <2>3. \A t \in snaps : Failures(t.kind, t.snap, runCfg) = {}
    BY <2>2, Zenon DEF EngineVerdict
  <2>4. Failures(k, Snapshot(k, captured[k]), runCfg) = {}
    <3>1. [kind |-> k, snap |-> Snapshot(k, captured[k])] \in snaps
      BY <1>1, Zenon DEF EngineInv
    <3> QED BY <2>3, <3>1, Zenon
  <2> DEFINE s == Snapshot(k, captured[k])
             a == [i \in Channels |-> Alone(k, captured[k][i])]
  <2>5. IsGroup(k, captured[k], s)
    BY SnapshotIs, Zenon
  <2>6. \A i \in Channels : a[i] = Alone(k, captured[k][i]) /\ FailuresAlone(k, i) = Failures(k, a[i], runCfg)
    BY Zenon DEF FailuresAlone, Alone
  <2>7. \A i \in Channels : IsAlone(k, captured[k][i], a[i])
    BY <2>1, <2>6, AloneIs, Zenon DEF Readable
  <2>8. DOMAIN Gates(k, Normal(k), runCfg) = GateNames
    BY Zenon DEF Gates, GateNames
  <2> HIDE DEF s, a
  <2>9. /\ \A i \in Channels, g \in {"corruption", "violations"} :
              g \in Failures(k, a[i], runCfg) => g \in Failures(k, s, runCfg)
        /\ \A g \in (GateNames \ {"throughput"}) \cup Probes(k) :
              (\A i \in Channels : g \in Failures(k, a[i], runCfg)) => g \in Failures(k, s, runCfg)
    BY <2>1, <2>5, <2>7, GroupMasksNothing, Zenon
  <2>10. Failures(k, s, runCfg) = {}
    BY <2>4, Zenon DEF s
  <2> QED BY <2>6, <2>8, <2>9, <2>10, Zenon
<1> QED BY <1>1, InitEngine, EngineStep, PTL DEF Spec
-----------------------------------------------------------------------------
(* The report.                                                             *)

(* The loss gate of the report takes the greater of the two thresholds the engine compares with. *)
LEMMA LossThreshold ==
    ASSUME NEW base \in Nat
    PROVE  /\ lossGateThreshold(base) \in Nat
           /\ base <= lossGateThreshold(base) /\ BoundaryLoss <= lossGateThreshold(base)
<1> DEFINE B == {base, BoundaryLoss}
<1>1. \E x \in B : \A y \in B : x >= y
  BY DEF BoundaryLoss
<1>2. Max(B) \in B /\ \A y \in B : Max(B) >= y
  <2> HIDE DEF B
  <2> QED BY <1>1, Zenon DEF Max
<1>3. lossGateThreshold(base) = Max(B)
  BY Zenon DEF lossGateThreshold
<1> QED BY <1>2, <1>3 DEF BoundaryLoss

LEMMA ExceedsLess ==
    ASSUME NEW part \in Nat, NEW whole \in Nat, NEW p \in Nat, NEW q \in Nat, p <= q, Exceeds(part, whole, q)
    PROVE  Exceeds(part, whole, p)
<1>1. whole * p <= whole * q
  OBVIOUS
<1>2. whole * p \in Nat /\ whole * q \in Nat /\ part * 1000 \in Nat
  OBVIOUS
<1> QED BY <1>1, <1>2 DEF Exceeds

(***************************************************************************)
(* A hard check of the report that fails is a gate of the engine that      *)
(* fails (verdict.go, computeVerdict): for a validated configuration the   *)
(* report is nowhere stricter.                                             *)
(***************************************************************************)
LEMMA HardIsGate ==
    ASSUME NEW k, NEW s, NEW c, Thresholds(c), s.ran \subseteq Probes(k),
           s.sent \in Nat, s.lost \in Nat, addHard(k, s, c)
    PROVE  Failures(k, s, c) # {}
<1>1. CASE s.sent > 0 /\ Exceeds(s.lost, s.sent, lossGateThreshold(c.maxLoss))
  <2>1. c.maxLoss \in Nat /\ BoundaryLoss \in Nat
    BY Zenon DEF Thresholds, BoundaryLoss
  <2>2. Exceeds(s.lost, s.sent, c.maxLoss) /\ Exceeds(s.lost, s.sent, BoundaryLoss)
    BY <1>1, <2>1, LossThreshold, ExceedsLess, Zenon
  <2> QED BY <1>1, <2>2, LossGate, Zenon
<1>2. CASE s.received > 0 /\ ~IsDuplicationGateExempt(k) /\ Exceeds(s.duplicated, s.received, c.maxDup)
  BY <1>2, DuplicationGate, Zenon
<1>3. CASE s.latency["p99"] > 0 /\ ~IsLatencyGateExempt(k) /\ s.latency["p99"] > c.maxLatency["p99"]
  <2>1. "p99" \in Percentiles /\ c.maxLatency["p99"] > 0
    BY Zenon DEF Percentiles, Thresholds
  <2> QED BY <1>3, <2>1, LatencyGate, Zenon
<1>4. CASE s.sent + s.received > 0 /\ Exceeds(s.errors, s.sent + s.received, c.maxErrors)
  BY <1>4, ErrorsGate, Zenon
<1>5. CASE s.violations > 0
  BY <1>5, ViolationsGate, Zenon
<1>6. CASE s.corrupted > 0
  BY <1>6, CorruptionGate, Zenon
<1> QED BY <1>1, <1>2, <1>3, <1>4, <1>5, <1>6, Zenon DEF addHard

(* The snapshots the report judges. *)
Listed == {s \in snaps : s.kind \in runCfg.enabled}

(* A report that fails its snapshots fails a run whose verdict is FAILED. *)
LEMMA OwnFailureIsVerdict ==
    ASSUME EngineInv, verdict # None, GenerateVerdict(Listed, memory, runCfg) = "FAILED"
    PROVE  verdict = "FAILED"
<1>1. PICK t \in snaps : addHard(t.kind, t.snap, runCfg)
  BY Zenon DEF GenerateVerdict, Listed
<1>2. PICK k \in DOMAIN captured : t = [kind |-> k, snap |-> Snapshot(k, captured[k])]
  BY <1>1, Zenon DEF EngineInv
<1>3. t.kind = k /\ IsGroup(k, captured[k], t.snap)
  BY <1>2, SnapshotIs, Zenon
<1>4. captured[k] \in [Channels -> Readable(k)] /\ Thresholds(runCfg)
  BY Zenon DEF EngineInv
<1> DEFINE r == captured[k]
<1> HIDE DEF r
<1>5. r \in [Channels -> Readable(k)] /\ IsGroup(k, r, t.snap)
  BY <1>3, <1>4, Zenon DEF r
<1>6. t.snap.ran \subseteq Probes(k)
  <2>1. \A i \in Channels : r[i].ran \subseteq Probes(k)
    BY <1>5, Zenon DEF Counters, Readable
  <2>2. t.snap.ran = UNION {r[i].ran : i \in Channels}
    BY <1>5, Zenon DEF IsGroup
  <2> QED BY <2>1, <2>2, Zenon
<1>7. t.snap.sent \in Nat /\ t.snap.lost \in Nat
  <2>1. Added(r, "sent") \in Nat /\ Added(r, "lost") \in Nat
    BY <1>5, AddedUp, Zenon DEF Numbers
  <2>2. /\ t.snap.sent = Added(r, "sent")
        /\ t.snap.lost = IF k = "fan_out" THEN 0 ELSE Added(r, "lost")
    BY <1>5, Zenon DEF IsGroup
  <2> QED BY <2>1, <2>2
<1>8. Failures(t.kind, t.snap, runCfg) # {}
  BY <1>1, <1>3, <1>4, <1>6, <1>7, HardIsGate, Zenon
<1>9. verdict = EngineVerdict(snaps, memory, runCfg)
  BY Zenon DEF EngineInv
<1> QED BY <1>8, <1>9, Zenon DEF EngineVerdict

LEMMA GenerateVerdictIs == \A ss, m, c : GenerateVerdict(ss, m, c) \in Results
  BY Zenon DEF GenerateVerdict, Results

(* What ReportAgrees says of a report and of the verdict of its run. *)
Agrees(rp, v) ==
    /\ rp.own = "FAILED" => v = "FAILED"
    /\ rp.result = "FAILED" <=> v = "FAILED"
    /\ v = "PASSED_WITH_WARNINGS" => rp.result = "PASSED_WITH_WARNINGS"

LEMMA ReconciledAgrees ==
    ASSUME EngineInv, verdict # None, NEW own, own = GenerateVerdict(Listed, memory, runCfg),
           NEW rp, rp.own = own, rp.result = Reconcile(own, verdict)
    PROVE  Agrees(rp, outcome[runs])
<1>1. own = "FAILED" => verdict = "FAILED"
  BY OwnFailureIsVerdict, Zenon
<1>2. own \in {"PASSED", "PASSED_WITH_WARNINGS", "FAILED"}
  BY GenerateVerdictIs, Zenon DEF Results
<1>3. verdict = outcome[runs] /\ verdict \in {"PASSED", "PASSED_WITH_WARNINGS", "FAILED"}
  BY EngineVerdictIs, Zenon DEF EngineInv, Results
<1>4. Reconcile(own, verdict) = IF verdict = "FAILED" THEN "FAILED"
                                ELSE IF verdict = "PASSED_WITH_WARNINGS" /\ own = "PASSED"
                                     THEN "PASSED_WITH_WARNINGS" ELSE own
  BY <1>3, Zenon DEF Reconcile
<1>5. rp.result = IF verdict = "FAILED" THEN "FAILED"
                  ELSE IF verdict = "PASSED_WITH_WARNINGS" /\ own = "PASSED"
                       THEN "PASSED_WITH_WARNINGS" ELSE own
  BY <1>4, Zenon
<1> QED BY <1>1, <1>2, <1>3, <1>5, Zenon DEF Agrees

(***************************************************************************)
(* A report in progress.  As long as it has read from the current run      *)
(* alone, what it holds is what the engine still holds: a run's snapshots  *)
(* are taken once and stay until the next run is started.  A report that   *)
(* has seen the verdict of the one run it read from agrees with it, and    *)
(* that verdict stays.                                                     *)
(***************************************************************************)
ReportInv ==
    /\ rep.at \in {"snapshots", "config", "memory", "verdict"}
    /\ rep.at # "snapshots" => rep.of \in 1 .. runs /\ rep.of \in rep.read
    /\ rep.at = "config" /\ rep.of = runs => snaps # {} /\ rep.snaps = snaps
    /\ rep.at = "memory" /\ rep.of = runs /\ rep.read = {runs} =>
          snaps # {} /\ rep.snaps = Listed /\ rep.cfg = runCfg
    /\ rep.at = "verdict" => rep.own \in Results
    /\ rep.at = "verdict" /\ rep.of = runs /\ rep.read = {runs} =>
          snaps # {} /\ rep.own = GenerateVerdict(Listed, memory, runCfg)
    /\ report # NoReport => report.of \in 1 .. runs /\ report.result \in Results
    /\ report # NoReport /\ report.seen # None /\ report.read = {report.of} =>
          Agrees(report, outcome[report.of]) /\ (report.of = runs => verdict # None)

LEMMA InitReport == Init => ReportInv
  BY DEF Init, Idle, ReportInv
(* The engine moves on and the report stays where it is. *)
LEMMA StartRunReport ==
    ASSUME EngineInv, ReportInv, NEW rc, StartRun(rc)
    PROVE  ReportInv'
<1>1. runs' = runs + 1 /\ rep' = rep /\ report' = report /\ outcome' = outcome
  BY Zenon DEF StartRun
<1>2. runs \in Int
  BY VerdictAssumption DEF EngineInv
<1>3. /\ \A n \in 1 .. runs : n \in 1 .. runs' /\ n # runs'
  BY <1>1, <1>2
<1>4. rep.at # "snapshots" => rep.of \in 1 .. runs' /\ rep.of # runs'
  BY <1>3, Zenon DEF ReportInv
<1>5. report # NoReport => report.of \in 1 .. runs' /\ report.of # runs'
  BY <1>3, Zenon DEF ReportInv
<1> QED BY <1>1, <1>4, <1>5, Zenon DEF ReportInv

LEMMA CaptureReport ==
    ASSUME EngineInv, ReportInv, captureWorkerSnapshots
    PROVE  ReportInv'
<1>1. /\ phase = "running" /\ runs' = runs /\ verdict' = verdict
      /\ rep' = rep /\ report' = report /\ outcome' = outcome
  BY Zenon DEF captureWorkerSnapshots
<1>2. snaps = {}
  BY <1>1, Zenon DEF EngineInv
<1> QED BY <1>1, <1>2, Zenon DEF ReportInv

LEMMA VerdictReport ==
    ASSUME EngineInv, ReportInv, computeVerdict
    PROVE  ReportInv'
<1>1. /\ phase = "captured" /\ runs' = runs /\ runCfg' = runCfg /\ snaps' = snaps /\ memory' = memory
      /\ rep' = rep /\ report' = report /\ outcome' = [outcome EXCEPT ![runs] = verdict']
  BY Zenon DEF computeVerdict
<1>2. verdict = None /\ runs \in 0 .. MaxRuns
  BY <1>1, Zenon DEF EngineInv
<1>3. Listed' = Listed
  BY <1>1, Zenon DEF Listed
<1>4. GenerateVerdict(Listed, memory, runCfg)' = GenerateVerdict(Listed, memory, runCfg)
  BY <1>1, <1>3, Zenon
<1>5. ASSUME report # NoReport, report.seen # None, report.read = {report.of}
      PROVE  report.of # runs /\ outcome'[report.of] = outcome[report.of] /\ Agrees(report, outcome[report.of])
  <2>1. report.of # runs /\ report.of \in 1 .. runs /\ Agrees(report, outcome[report.of])
    BY <1>2, <1>5, Zenon DEF ReportInv
  <2>2. report.of \in 1 .. MaxRuns
    BY <1>2, <2>1, VerdictAssumption
  <2>3. report.of \in DOMAIN outcome
    BY <2>2, Zenon DEF EngineInv
  <2> QED BY <1>1, <2>1, <2>3, Zenon
<1>6. (report # NoReport /\ report.seen # None /\ report.read = {report.of} =>
          Agrees(report, outcome[report.of]) /\ (report.of = runs => verdict # None))'
  BY <1>1, <1>5, Zenon
<1> QED BY <1>1, <1>3, <1>4, <1>6, Zenon DEF ReportInv

(* The engine stays where it is, and the report reads one value more. *)
EngineStays ==
    /\ runs' = runs /\ runCfg' = runCfg /\ snaps' = snaps /\ memory' = memory /\ verdict' = verdict
    /\ outcome' = outcome

(* What ReportInv says of the report that is out. *)
ReportOut ==
    /\ report # NoReport => report.of \in 1 .. runs /\ report.result \in Results
    /\ report # NoReport /\ report.seen # None /\ report.read = {report.of} =>
          Agrees(report, outcome[report.of]) /\ (report.of = runs => verdict # None)

LEMMA StaysListed ==
    ASSUME EngineStays
    PROVE  Listed' = Listed /\ GenerateVerdict(Listed, memory, runCfg)' = GenerateVerdict(Listed, memory, runCfg)
<1>1. Listed' = Listed
  BY Zenon DEF EngineStays, Listed
<1> QED BY <1>1, Zenon DEF EngineStays

LEMMA OutStays ==
    ASSUME ReportInv, EngineStays, report' = report
    PROVE  ReportOut'
  BY Zenon DEF ReportInv, EngineStays, ReportOut

LEMMA ReadSnapshotsReport ==
    ASSUME EngineInv, ReportInv, ReadSnapshots
    PROVE  ReportInv'
<1>1. /\ EngineStays /\ report' = report /\ snaps # {}
      /\ rep' = [at |-> "config", snaps |-> snaps, of |-> runs, read |-> {runs}]
  BY Zenon DEF ReadSnapshots, engine, EngineStays
<1>2. runs \in 1 .. runs
  <2>1. phase # "idle"
    BY <1>1, Zenon DEF EngineInv
  <2> QED BY <2>1, VerdictAssumption DEF EngineInv
<1>3. rep'.at = "config" /\ rep'.snaps = snaps /\ rep'.of = runs /\ rep'.read = {runs}
  BY <1>1, Zenon
<1>4. ReportOut'
  BY <1>1, OutStays, Zenon
<1> QED BY <1>1, <1>2, <1>3, <1>4, Zenon DEF EngineStays, ReportInv, ReportOut

LEMMA ReadConfigReport ==
    ASSUME EngineInv, ReportInv, ReadConfig
    PROVE  ReportInv'
<1>1. /\ EngineStays /\ report' = report /\ rep.at = "config"
      /\ rep' = [at |-> "memory", snaps |-> {s \in rep.snaps : s.kind \in runCfg.enabled},
                 cfg |-> runCfg, of |-> rep.of, read |-> rep.read \cup {runs}]
  BY Zenon DEF ReadConfig, engine, EngineStays
<1>2. /\ rep'.at = "memory" /\ rep'.snaps = {s \in rep.snaps : s.kind \in runCfg.enabled}
      /\ rep'.cfg = runCfg /\ rep'.of = rep.of /\ rep'.read = rep.read \cup {runs}
  BY <1>1, Zenon
<1>3. rep.of \in 1 .. runs /\ rep.of \in rep'.read
  BY <1>1, <1>2, Zenon DEF ReportInv
<1>4. rep.of = runs => snaps # {} /\ rep'.snaps = Listed
  BY <1>1, <1>2, Zenon DEF ReportInv, Listed
<1>5. ReportOut' /\ Listed' = Listed
  BY <1>1, OutStays, StaysListed, Zenon
<1> QED BY <1>1, <1>2, <1>3, <1>4, <1>5, Zenon DEF EngineStays, ReportInv, ReportOut

LEMMA ReadMemoryReport ==
    ASSUME EngineInv, ReportInv, ReadMemory
    PROVE  ReportInv'
<1>1. /\ EngineStays /\ report' = report /\ rep.at = "memory"
      /\ rep' = [at |-> "verdict", own |-> GenerateVerdict(rep.snaps, memory, rep.cfg),
                 of |-> rep.of, read |-> rep.read \cup {runs}]
  BY Zenon DEF ReadMemory, engine, EngineStays
<1>2. /\ rep'.at = "verdict" /\ rep'.own = GenerateVerdict(rep.snaps, memory, rep.cfg)
      /\ rep'.of = rep.of /\ rep'.read = rep.read \cup {runs}
  BY <1>1, Zenon
<1>3. rep.of \in 1 .. runs /\ rep.of \in rep.read /\ rep.of \in rep'.read
  BY <1>1, <1>2, Zenon DEF ReportInv
<1>4. ASSUME rep.of = runs, rep'.read = {runs}
      PROVE  snaps # {} /\ rep'.own = GenerateVerdict(Listed, memory, runCfg)
  <2>1. rep.read = {runs}
    BY <1>2, <1>3, <1>4, Zenon
  <2> QED BY <1>1, <1>2, <1>4, <2>1, Zenon DEF ReportInv
<1>5. rep'.own \in Results
  <2>1. GenerateVerdict(rep.snaps, memory, rep.cfg) \in Results
    BY GenerateVerdictIs
  <2> QED BY <1>2, <2>1
<1>6. ReportOut' /\ GenerateVerdict(Listed, memory, runCfg)' = GenerateVerdict(Listed, memory, runCfg)
  BY <1>1, OutStays, StaysListed, Zenon
<1> QED BY <1>1, <1>2, <1>3, <1>4, <1>5, <1>6, Zenon DEF EngineStays, ReportInv, ReportOut

LEMMA ReadVerdictReport ==
    ASSUME EngineInv, ReportInv, ReadVerdict
    PROVE  ReportInv'
<1>1. /\ EngineStays /\ rep.at = "verdict" /\ rep' = Idle
      /\ report' = [result |-> Reconcile(rep.own, verdict), own |-> rep.own, seen |-> verdict,
                    of |-> rep.of, read |-> rep.read \cup {runs}]
  BY Zenon DEF ReadVerdict, engine, EngineStays
<1>2. /\ report'.result = Reconcile(rep.own, verdict) /\ report'.own = rep.own /\ report'.seen = verdict
      /\ report'.of = rep.of /\ report'.read = rep.read \cup {runs}
  BY <1>1, Zenon
<1>3. rep.of \in 1 .. runs /\ rep.of \in rep.read /\ rep.own \in Results
  BY <1>1, Zenon DEF ReportInv
<1>4. Reconcile(rep.own, verdict) \in Results
  <2>1. verdict = "FAILED" \/ verdict # "FAILED"
    BY Zenon
  <2> QED BY <1>3, <2>1, Zenon DEF Reconcile, Results
<1>5. ASSUME verdict # None, rep.read \cup {runs} = {rep.of}
      PROVE  Agrees(report', outcome[rep.of])
  <2>1. rep.of = runs /\ rep.read = {runs}
    BY <1>3, <1>5, Zenon
  <2>2. rep.own = GenerateVerdict(Listed, memory, runCfg)
    BY <1>1, <2>1, Zenon DEF ReportInv
  <2> QED BY <1>2, <1>5, <2>1, <2>2, ReconciledAgrees, Zenon
<1>6. ReportOut'
  <2>1. report'.of \in 1 .. runs' /\ report'.result \in Results
    BY <1>1, <1>2, <1>3, <1>4, Zenon DEF EngineStays
  <2>2. report'.seen # None /\ report'.read = {report'.of} =>
            Agrees(report', outcome'[report'.of]) /\ verdict' # None
    BY <1>1, <1>2, <1>5, Zenon DEF EngineStays
  <2> QED BY <2>1, <2>2, Zenon DEF ReportOut
<1>7. rep'.at = "snapshots"
  BY <1>1, Zenon DEF Idle
<1> QED BY <1>6, <1>7, Zenon DEF ReportInv, ReportOut

LEMMA ReportStep == EngineInv /\ ReportInv /\ [Next]_vars => ReportInv'
<1> SUFFICES ASSUME EngineInv, ReportInv, [Next]_vars PROVE ReportInv'
  BY Zenon
<1>1. ASSUME runs < MaxRuns, NEW rc \in RunConfigs(EnabledSets[runs + 1]), StartRun(rc) PROVE ReportInv'
  BY <1>1, StartRunReport, Zenon
<1>2. ASSUME EngineStays, rep' = rep, report' = report PROVE ReportInv'
  <2>1. ReportOut' /\ Listed' = Listed
        /\ GenerateVerdict(Listed, memory, runCfg)' = GenerateVerdict(Listed, memory, runCfg)
    BY <1>2, OutStays, StaysListed, Zenon
  <2> QED BY <1>2, <2>1, Zenon DEF EngineStays, ReportInv, ReportOut
<1>3. CASE RunEndsEarly
  BY <1>2, <1>3, Zenon DEF RunEndsEarly, EngineStays
<1>4. CASE UNCHANGED vars
  BY <1>2, <1>4, Zenon DEF vars, engine, EngineStays
<1>5. CASE RunReport
  BY <1>5, ReadSnapshotsReport, ReadConfigReport, ReadMemoryReport, ReadVerdictReport, Zenon DEF RunReport
<1> QED BY <1>1, <1>3, <1>4, <1>5, CaptureReport, VerdictReport, Zenon DEF Next

(***************************************************************************)
(* A report put together within one run after its verdict says what the    *)
(* exit code says, whatever else the engine does between its reads         *)
(* (RunReport, GenerateVerdict).                                           *)
(***************************************************************************)
THEOREM ReportMirrorsVerdict == Spec => []ReportAgrees
<1>1. ReportInv => ReportAgrees
  BY Zenon DEF ReportInv, ReportAgrees, Agrees
<1> QED BY <1>1, InitEngine, EngineStep, InitReport, ReportStep, PTL DEF Spec

(***************************************************************************)
(* Type correctness: the configuration of a run is validated, a run is     *)
(* judged by the snapshots of every worker type it enables, and a report   *)
(* gives one of the three results (StartRun, RunReport).                   *)
(***************************************************************************)
THEOREM TypeCorrect == Spec => []TypeOK
<1> DEFINE J == /\ Validate(runCfg)
                /\ phase = "captured" => snaps # {} /\ DOMAIN captured = runCfg.enabled
<1>1. Init => J
  <2> SUFFICES ASSUME Init PROVE J
    BY Zenon
  <2>1. runCfg = StartupConfig /\ phase = "idle"
    BY Zenon DEF Init
  <2>2. StartupKinds # {}
    BY VerdictAssumption, Zenon
  <2>3. Validate(runCfg)
    BY <2>1, <2>2 DEF Validate, StartupConfig, Whole
  <2> QED BY <2>1, <2>3, Zenon
<1>2. J /\ EngineInv /\ [Next]_vars => J'
  <2> SUFFICES ASSUME J, EngineInv, [Next]_vars PROVE J'
    BY Zenon
  <2>1. ASSUME NEW rc, StartRun(rc) PROVE J'
    <3>1. runCfg' = Overlay(StartupConfig, rc) /\ phase' = "running" /\ Validate(Overlay(StartupConfig, rc))
      BY <2>1, Zenon DEF StartRun, Accepts
    <3>2. Validate(runCfg)'
      BY <3>1, Zenon DEF Validate
    <3> QED BY <3>1, <3>2, Zenon
  <2>2. ASSUME runCfg' = runCfg PROVE Validate(runCfg)'
    BY <2>2, Zenon DEF Validate
  <2>3. CASE captureWorkerSnapshots
    <3>1. runCfg' = runCfg /\ phase' = "captured"
          /\ snaps' = {[kind |-> k, snap |-> Snapshot(k, captured'[k])] : k \in runCfg.enabled}
      BY <2>3, Zenon DEF captureWorkerSnapshots
    <3>2. DOMAIN captured' = runCfg.enabled
      BY <2>3, Zenon DEF captureWorkerSnapshots
    <3>3. runCfg.enabled # {}
      BY Zenon DEF Validate
    <3>4. snaps' # {}
      BY <3>1, <3>3, Zenon
    <3> QED BY <2>2, <3>1, <3>2, <3>4, Zenon
  <2>4. CASE RunEndsEarly \/ computeVerdict
    <3>1. runCfg' = runCfg /\ phase' = "stopped"
      BY <2>4, Zenon DEF RunEndsEarly, computeVerdict
    <3> QED BY <2>2, <3>1, Zenon
  <2>5. CASE RunReport \/ UNCHANGED vars
    <3>1. runCfg' = runCfg /\ phase' = phase /\ snaps' = snaps /\ captured' = captured
      BY <2>5, Zenon DEF RunReport, ReadSnapshots, ReadConfig, ReadMemory, ReadVerdict, vars, engine
    <3> QED BY <2>2, <3>1, Zenon
  <2> QED BY <2>1, <2>3, <2>4, <2>5, Zenon DEF Next
<1>3. J /\ EngineInv /\ ReportInv => TypeOK
  <2> SUFFICES ASSUME J, EngineInv, ReportInv PROVE TypeOK
    BY Zenon
  <2>1. verdict = None \/ verdict = EngineVerdict(snaps, memory, runCfg)
    BY Zenon DEF EngineInv
  <2>2. verdict \in Results \cup {None}
    BY <2>1, EngineVerdictIs, Zenon
  <2> QED BY <2>2, Zenon DEF TypeOK, EngineInv, ReportInv
<1> HIDE DEF J
<1> QED BY <1>1, <1>2, <1>3, InitEngine, EngineStep, InitReport, ReportStep, PTL DEF Spec
=============================================================================
