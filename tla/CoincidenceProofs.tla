------------------------- MODULE CoincidenceProofs --------------------------
(***************************************************************************)
(* Proofs about Coincidence for any channels, delays, patterns, windows,   *)
(* times and hits: no hit is lost, events leave the backlog in time, and   *)
(* without delays each hit is counted once and no coincidence is missed.   *)
(***************************************************************************)
EXTENDS Coincidence, SequenceTheorems, FiniteSetTheorems, WellFoundedInduction, TLAPS

-----------------------------------------------------------------------------
(* The inductive invariant                                                 *)

SmallTypes == delay_ns_ \in Delays /\ energy_idx_ \subseteq Channels /\ clock \in 0..MaxTime

LogTypes == /\ backlog \in Seq(Events) /\ evicted \in Seq(Events)
            /\ pushed \in Seq(Hits) /\ pileups \subseteq Hits

\* A hit that is accepted opens at most one event, and an event counts once.
CountInv ==
  /\ Len(evicted) + Len(backlog) <= Len(pushed) /\ Len(pushed) <= MaxHits
  /\ total_events_ \in 0..Len(evicted) /\ flushed \in 0..total_events_

\* Where the hits are that were accepted.
HitInv ==
  /\ \A i \in 1..Len(pushed) : pushed[i].id = i
  /\ pileups \subseteq Range(pushed)
  /\ \A i \in 1..Len(All) : OnePerChannel(All[i]) /\ All[i].hits \subseteq Range(pushed)
  /\ \A h \in Range(pushed) : h \in pileups <=> \A i \in 1..Len(All) : h \notin All[i].hits

\* how much of the end of a window the rounding of a delay may cut off
CutOff == IF WholeTicks THEN 0 ELSE Tick

EvictInv == \A e \in Range(evicted) : clock + CutOff > e.lower_time + coinc_window_

\* In order of time one event is open at most; it was opened by the first hit
\* too late for the event before it, and is the only one that takes hits.
OrderInv ==
  InOrder =>
    /\ Len(backlog) <= 1
    /\ backlog = <<>> => pushed = <<>>
    /\ \A h \in Range(pushed) : h.timestamp <= clock
    /\ \A i \in 1..Len(backlog) :
         /\ backlog[i].lower_time <= clock
         /\ \A h \in Range(pushed) : h.timestamp <= backlog[i].lower_time + coinc_window_
    /\ \A i, j \in 1..Len(All) : All[i].hits \cap All[j].hits # {} => i = j
    /\ CoincidentHitsMeet

Inv == SmallTypes /\ LogTypes /\ CountInv /\ HitInv /\ EvictInv /\ OrderInv

-----------------------------------------------------------------------------
(* Delays                                                                  *)

\* Whole ticks, no fewer than the delay.
LEMMA Rounded == ASSUME NEW d \in Nat, NEW n \in Nat \ {0}
                 PROVE  LET q == (d + n - 1) \div n
                        IN  /\ q \in Nat
                            /\ d = 0 => n * q = 0
                            /\ d % n = 0 => n * q = d
                            /\ n * q < d + n
<1> DEFINE q == (d + n - 1) \div n
<1>1. q \in Int /\ n * q <= d + n - 1 /\ d + n - 1 < n * q + n
  OBVIOUS
<1>2. q \in Nat
  <2>1. CASE q < 0
    <3>1. n * q <= n * (-1)
      BY <1>1, <2>1
    <3> QED
      BY <1>1, <3>1
  <2> QED
    BY <1>1, <2>1
<1>3. d = 0 => n * q = 0
  <2>1. ASSUME d = 0, q >= 1 PROVE FALSE
    <3>1. n * q >= n * 1
      BY <1>1, <2>1
    <3> QED
      BY <1>1, <2>1, <3>1
  <2> QED
    BY <1>2, <2>1
<1>4. ASSUME d % n = 0 PROVE n * q = d
  <2> DEFINE m == d \div n
  <2>1. m \in Nat /\ d = n * m
    BY <1>4
  <2>2. CASE q > m
    <3>1. n * q >= n * (m + 1)
      BY <1>1, <2>1, <2>2
    <3> QED
      BY <1>1, <2>1, <3>1
  <2>3. CASE q < m
    <3>1. n * (q + 1) <= n * m
      BY <1>1, <2>1, <2>3
    <3> QED
      BY <1>1, <2>1, <3>1
  <2> QED
    BY <1>1, <2>1, <2>2, <2>3
<1> QED
  BY <1>2, <1>3, <1>4

\* The longest delay: a finite set of naturals has a greatest element.
LEMMA MaxOfIs == ASSUME NEW S \in SUBSET Nat, IsFiniteSet(S), S # {}
                 PROVE  MaxOf(S) \in S /\ \A y \in S : y <= MaxOf(S)
<1>0. PICK n \in Nat : ExistsSurjection(1..n, S)
  BY FS_NatSurjection
<1>1. PICK f \in [1..n -> S] : \A y \in S : \E i \in 1..n : f[i] = y
  BY <1>0 DEF ExistsSurjection, Surjection
<1> DEFINE Bounds(k) == {b \in Nat : \A i \in 1..k : f[i] <= b}
           Unbounded == {k \in 0..n : Bounds(k) = {}}
<1>2. Unbounded = {}
  <2> SUFFICES ASSUME Unbounded # {} PROVE FALSE
    OBVIOUS
  <2>1. PICK k \in Unbounded : \A j \in Unbounded : ~(<<j, k>> \in OpToRel(<, Nat))
    <3>1. Unbounded \subseteq Nat
      OBVIOUS
    <3> HIDE DEF Unbounded
    <3> QED
      BY <3>1, WFMin, NatLessThanWellFounded
  <2>2. k \in 0..n /\ Bounds(k) = {}
    OBVIOUS
  <2>3. k # 0
    <3>1. ASSUME k = 0 PROVE 0 \in Bounds(k)
      BY <3>1
    <3> QED
      BY <2>2, <3>1
  <2>4. k \in 1..n /\ k - 1 \in 0..n /\ k \in Nat /\ k - 1 \in Nat /\ k - 1 < k
    <3>1. k \in 0..n /\ n \in Nat /\ k # 0
      <4> HIDE DEF Bounds
      <4> QED
        BY <2>2, <2>3, <1>0
    <3> QED
      BY <3>1
  <2>5. k - 1 \notin Unbounded
    <3> HIDE DEF Unbounded
    <3> QED
      BY <2>1, <2>4 DEF OpToRel
  <2>6. PICK b \in Nat : \A i \in 1..k - 1 : f[i] <= b
    BY <2>4, <2>5
  <2>7. f[k] \in Nat
    BY <2>4
  <2>8. PICK c \in Nat : c >= b /\ c >= f[k]
    BY <2>6, <2>7
  <2>9. \A i \in 1..k : f[i] <= c
    <3> TAKE i \in 1..k
    <3>0. k \in 1..n /\ n \in Nat
      BY <2>4
    <3>1. f[i] \in Nat
      <4>1. i \in 1..n
        BY <3>0
      <4> QED
        BY <4>1
    <3>2. i = k \/ i \in 1..k - 1
      BY <3>0
    <3> QED
      BY <2>6, <2>7, <2>8, <3>1, <3>2
  <2> QED
    BY <2>2, <2>8, <2>9
<1>3. PICK b \in Nat : \A y \in S : y <= b
  <2>1. n \in 0..n
    OBVIOUS
  <2>2. n \notin Unbounded
    <3> HIDE DEF Unbounded
    <3> QED
      BY <1>2
  <2>3. PICK b \in Nat : \A i \in 1..n : f[i] <= b
    BY <2>1, <2>2
  <2> QED
    BY <1>1, <2>3
<1> DEFINE U == {b - y : y \in S}
<1>4. U \subseteq Nat /\ U # {}
  <2>1. \A y \in S : b - y \in Nat
    BY <1>3
  <2>2. PICK y \in S : TRUE
    OBVIOUS
  <2> QED
    BY <2>1, <2>2
<1>5. PICK u \in U : \A v \in U : ~(<<v, u>> \in OpToRel(<, Nat))
  <2> HIDE DEF U
  <2> QED
    BY <1>4, WFMin, NatLessThanWellFounded
<1>6. \A v \in U : ~(v < u)
  BY <1>4, <1>5 DEF OpToRel
<1>7. PICK x \in S : u = b - x
  BY <1>5
<1>8. \A y \in S : y <= x
  <2> TAKE y \in S
  <2>1. b - y \in U
    OBVIOUS
  <2>2. ~(b - y < b - x)
    BY <2>1, <1>6, <1>7
  <2>3. x \in Nat /\ y \in Nat /\ b \in Nat
    BY <1>3, <1>7
  <2> HIDE DEF U
  <2> QED
    BY <2>2, <2>3
<1> QED
  BY <1>8 DEF MaxOf

-----------------------------------------------------------------------------
(* Sequences                                                               *)

\* What Due() counts is how far the condition holds from the front on.
LEMMA PrefixIs ==
  ASSUME NEW n \in Nat, NEW P \in SUBSET (1..n), \A i \in P : \A j \in 1..i : j \in P
  PROVE  Cardinality(P) \in 0..n /\ P = 1..Cardinality(P)
<1> DEFINE Out == (1..n + 1) \ P
<1>1. n + 1 \in Out /\ Out \subseteq Nat
  OBVIOUS
<1>2. PICK m \in Out : \A j \in Out : ~(<<j, m>> \in OpToRel(<, Nat))
  <2> HIDE DEF Out
  <2> QED
    BY <1>1, WFMin, NatLessThanWellFounded
<1>3. \A j \in Out : ~(j < m)
  BY <1>1, <1>2 DEF OpToRel
<1>4. m \in 1..n + 1 /\ m \notin P
  BY <1>2
<1>5. P = 1..m - 1
  <2>1. \A j \in 1..m - 1 : j \in P
    BY <1>3, <1>4
  <2>2. \A i \in P : i \in 1..m - 1
    BY <1>4
  <2> QED
    BY <2>1, <2>2
<1>6. Cardinality(1..m - 1) = m - 1
  <2>1. 1 \in Int /\ m - 1 \in Int /\ m - 1 \in Nat
    BY <1>4
  <2>2. Cardinality(1..m - 1) = IF 1 > m - 1 THEN 0 ELSE (m - 1) - 1 + 1
    BY <2>1, FS_Interval
  <2> QED
    BY <2>1, <2>2
<1> QED
  BY <1>4, <1>5, <1>6

LEMMA Cuts == ASSUME NEW S, NEW q \in Seq(S), NEW k \in 0..Len(q)
              PROVE  LET p == SubSeq(q, 1, k)
                         r == SubSeq(q, k + 1, Len(q))
                     IN  /\ p \in Seq(S) /\ r \in Seq(S) /\ q = p \o r
                         /\ Len(p) = k /\ Len(r) = Len(q) - k
                         /\ \A i \in 1..k : p[i] = q[i]
                         /\ \A i \in 1..Len(q) - k : r[i] = q[k + i]
<1>1. Len(q) \in Nat /\ \A i \in 1..Len(q) : q[i] \in S
  BY LenProperties, ElementOfSeq
<1>2. /\ SubSeq(q, 1, k) \in Seq(S) /\ Len(SubSeq(q, 1, k)) = k
      /\ \A i \in 1..k : SubSeq(q, 1, k)[i] = q[i]
  <2>1. 1 \in Int /\ k \in Int /\ \A i \in 1..k : q[i] \in S
    BY <1>1
  <2>2. /\ SubSeq(q, 1, k) \in Seq(S) /\ Len(SubSeq(q, 1, k)) = IF 1 <= k THEN k - 1 + 1 ELSE 0
        /\ \A i \in 1..k - 1 + 1 : SubSeq(q, 1, k)[i] = q[1 + i - 1]
    BY <2>1, SubSeqProperties
  <2>3. \A i \in 1..k : i \in 1..k - 1 + 1 /\ 1 + i - 1 = i
    BY <1>1
  <2> QED
    BY <1>1, <2>2, <2>3
<1>3. /\ SubSeq(q, k + 1, Len(q)) \in Seq(S) /\ Len(SubSeq(q, k + 1, Len(q))) = Len(q) - k
      /\ \A i \in 1..Len(q) - k : SubSeq(q, k + 1, Len(q))[i] = q[k + i]
  <2> DEFINE n == Len(q)
             r == SubSeq(q, k + 1, n)
  <2>1. n \in Int /\ k + 1 \in Int /\ \A i \in k + 1..n : q[i] \in S
    BY <1>1
  <2>2. /\ r \in Seq(S) /\ Len(r) = IF k + 1 <= n THEN n - (k + 1) + 1 ELSE 0
        /\ \A i \in 1..n - (k + 1) + 1 : r[i] = q[k + 1 + i - 1]
    BY <2>1, SubSeqProperties
  <2> HIDE DEF r
  <2>3. \A i \in 1..n - k : i \in 1..n - (k + 1) + 1 /\ k + 1 + i - 1 = k + i
    BY <1>1
  <2>4. r \in Seq(S) /\ Len(r) = n - k /\ \A i \in 1..n - k : r[i] = q[k + i]
    BY <1>1, <2>2, <2>3
  <2> QED
    BY <2>4 DEF r
<1>4. SubSeq(q, 1, k) \o SubSeq(q, k + 1, Len(q)) = q
  <2>1. 1 \in 1..Len(q) + 1 /\ k \in 1 - 1..Len(q) /\ Len(q) \in k..Len(q)
    BY <1>1
  <2>2. SubSeq(q, 1, k) \o SubSeq(q, k + 1, Len(q)) = SubSeq(q, 1, Len(q))
    BY <2>1, ConcatAdjacentSubSeq
  <2> QED
    BY <2>2, SubSeqFull
<1> QED
  BY <1>2, <1>3, <1>4

LEMMA Elements == ASSUME NEW S, NEW q \in Seq(S)
                  PROVE  /\ Len(q) \in Nat /\ DOMAIN q = 1..Len(q)
                         /\ Range(q) \subseteq S
                         /\ \A x : x \in Range(q) <=> \E i \in 1..Len(q) : q[i] = x
                         /\ \A i \in 1..Len(q) : q[i] \in S
                         /\ q = <<>> <=> Len(q) = 0
BY LenProperties, ElementOfSeq, EmptySeq DEF Range

LEMMA Appended == ASSUME NEW S, NEW q \in Seq(S), NEW x \in S
                  PROVE  /\ Append(q, x) \in Seq(S) /\ Len(q) \in Nat
                         /\ Len(Append(q, x)) = Len(q) + 1
                         /\ Append(q, x)[Len(q) + 1] = x
                         /\ \A i \in 1..Len(q) : Append(q, x)[i] = q[i]
                         /\ Range(Append(q, x)) = Range(q) \cup {x}
<1> DEFINE a == Append(q, x)
           n == Len(q)
<1>1. /\ a \in Seq(S) /\ n \in Nat /\ Len(a) = n + 1 /\ a[n + 1] = x
      /\ \A i \in 1..n : a[i] = q[i]
  BY AppendProperties, LenProperties
<1> HIDE DEF a
<1>2. \A i \in 1..n + 1 : i \in 1..n \/ i = n + 1
  BY <1>1
<1>3. \A y : y \in Range(a) <=> \E i \in 1..n + 1 : a[i] = y
  BY <1>1, Elements
<1>4. \A y : y \in Range(q) <=> \E i \in 1..n : q[i] = y
  BY Elements
<1>5. n + 1 \in 1..n + 1 /\ 1..n \subseteq 1..n + 1
  BY <1>1
<1> HIDE DEF n
<1>6. Range(a) = Range(q) \cup {x}
  BY <1>1, <1>2, <1>3, <1>4, <1>5
<1> QED
  BY <1>1, <1>6 DEF a, n

-----------------------------------------------------------------------------
(* What a hit that is accepted does to the events                          *)

LEMMA Delayed ==
  ASSUME SmallTypes
  PROVE  LET longest == MaxOf({delay_ns_[c] : c \in Channels})
         IN  /\ longest \in Nat /\ coinc_window_ \in Nat /\ Tick \in Nat \ {0}
             /\ max_delay_ = longest + coinc_window_
             /\ \A c \in Channels : delay_ns_[c] \in Nat /\ delay_ns_[c] <= longest
             /\ InOrder => longest = 0 /\ WholeTicks
             /\ CutOff \in Nat
             /\ \A c \in Channels, t \in Nat :
                  /\ delayed(c, t) \in Nat /\ delayed(c, t) >= t
                  /\ InOrder => delayed(c, t) = t
                  /\ delayed(c, t) <= t + delay_ns_[c] + CutOff
<1> DEFINE D == {delay_ns_[c] : c \in Channels}
           longest == MaxOf(D)
<1>1. /\ coinc_window_ \in Nat /\ Tick \in Nat \ {0} /\ \A c \in Channels : delay_ns_[c] \in Nat
      /\ IsFiniteSet(Channels) /\ Channels # {}
  BY CoincidenceAssumption DEF SmallTypes
<1>2. IsFiniteSet(D) /\ D # {} /\ D \in SUBSET Nat
  <2> DEFINE f == [c \in Channels |-> delay_ns_[c]]
  <2>1. f \in Surjection(Channels, D)
    BY DEF Surjection
  <2>2. IsFiniteSet(D)
    <3> HIDE DEF D, f
    <3> QED
      BY <1>1, <2>1, FS_Surjection
  <2> QED
    BY <1>1, <2>2
<1>3. longest \in D /\ \A y \in D : y <= longest
  <2> HIDE DEF D
  <2> QED
    BY <1>2, MaxOfIs
<1>4. InOrder => longest = 0 /\ WholeTicks
  <2>1. 0 % Tick = 0
    BY <1>1
  <2> QED
    BY <1>3, <2>1 DEF InOrder, WholeTicks
<1>5. ASSUME NEW c \in Channels, NEW t \in Nat
      PROVE  /\ delayed(c, t) \in Nat /\ delayed(c, t) >= t
             /\ InOrder => delayed(c, t) = t
             /\ delayed(c, t) <= t + delay_ns_[c] + CutOff
  <2> DEFINE d == delay_ns_[c]
             q == (d + Tick - 1) \div Tick
  <2>1. d \in Nat /\ Tick \in Nat \ {0}
    BY <1>1
  <2>2. /\ q \in Nat /\ (d = 0 => Tick * q = 0) /\ (d % Tick = 0 => Tick * q = d)
        /\ Tick * q < d + Tick
    BY <2>1, Rounded
  <2>3. delayed(c, t) = t + Tick * q
    BY DEF delayed
  <2>4. Tick * q \in Nat
    <3> HIDE DEF q
    <3> QED
      BY <2>1, <2>2
  <2> HIDE DEF q
  <2>5. delayed(c, t) \in Nat /\ delayed(c, t) >= t
    BY <2>3, <2>4
  <2>6. InOrder => delayed(c, t) = t
    BY <2>2, <2>3 DEF InOrder
  <2>7. delayed(c, t) <= t + d + CutOff
    <3> DEFINE x == Tick * q
    <3>1. x \in Nat /\ x < d + Tick /\ (d % Tick = 0 => x = d) /\ delayed(c, t) = t + x
      BY <2>2, <2>3, <2>4
    <3> HIDE DEF x
    <3>2. CASE WholeTicks
      <4>1. d % Tick = 0 /\ CutOff = 0
        BY <3>2 DEF WholeTicks, CutOff
      <4> QED
        BY <2>1, <3>1, <4>1
    <3>3. CASE ~WholeTicks
      BY <2>1, <3>1, <3>3 DEF CutOff
    <3> QED
      BY <3>2, <3>3
  <2> QED
    BY <2>5, <2>6, <2>7
<1>6. longest \in Nat /\ \A c \in Channels : delay_ns_[c] <= longest
  BY <1>2, <1>3
<1>7. max_delay_ = longest + coinc_window_
  BY DEF max_delay_
<1> HIDE DEF longest
<1>8. /\ longest \in Nat /\ coinc_window_ \in Nat /\ Tick \in Nat \ {0}
      /\ max_delay_ = longest + coinc_window_
      /\ \A c \in Channels : delay_ns_[c] \in Nat /\ delay_ns_[c] <= longest
      /\ InOrder => longest = 0 /\ WholeTicks
      /\ CutOff \in Nat
  BY <1>1, <1>4, <1>6, <1>7 DEF CutOff
<1> QED
  BY <1>5, <1>8 DEF longest

LEMMA EventFields ==
  /\ \A e \in Events : e.lower_time \in Nat /\ e.hits \subseteq Hits
  /\ \A e \in Events, h \in Hits :
       /\ addHit(e, h) \in Events /\ addHit(e, h).lower_time = e.lower_time
       /\ addHit(e, h).hits = e.hits \cup {h}
  /\ \A h \in Hits : /\ NewEvent(h) \in Events /\ NewEvent(h).lower_time = h.timestamp
                     /\ NewEvent(h).hits = {h}
BY DEF Events, Hits, addHit, NewEvent

LEMMA HitFields == \A h \in Hits : /\ h.id \in Nat /\ h.channel \in Channels
                                   /\ h.timestamp \in Nat
BY CoincidenceAssumption DEF Hits

LEMMA WithHitIs ==
  ASSUME LogTypes, NEW h \in Hits
  PROVE  LET n == Len(backlog)
             log == WithHit(h)
         IN  /\ n \in Nat /\ log \in Seq(Events)
             /\ InWindow(h) \subseteq 1..n /\ Piled(h) \subseteq InWindow(h)
             /\ InWindow(h) = {} => Len(log) = n + 1 /\ log[n + 1] = NewEvent(h)
             /\ InWindow(h) # {} => Len(log) = n
             /\ \A i \in 1..n : log[i] = IF i \in InWindow(h) \ Piled(h)
                                         THEN addHit(backlog[i], h) ELSE backlog[i]
<1> DEFINE n == Len(backlog)
           log == WithHit(h)
           W == InWindow(h)
           P == Piled(h)
<1>1. backlog \in Seq(Events)
  BY DEF LogTypes
<1>2. n \in Nat /\ DOMAIN backlog = 1..n /\ \A i \in 1..n : backlog[i] \in Events
  BY <1>1, Elements
<1>3. W \subseteq 1..n /\ P \subseteq W
  BY <1>2 DEF InWindow, Reached, Piled
<1>4. CASE W = {}
  <2>1. log = Append(backlog, NewEvent(h)) /\ NewEvent(h) \in Events
    BY <1>4, EventFields DEF WithHit
  <2>2. /\ log \in Seq(Events) /\ Len(log) = n + 1 /\ log[n + 1] = NewEvent(h)
        /\ \A i \in 1..n : log[i] = backlog[i]
    BY <1>1, <2>1, Appended
  <2> QED
    BY <1>2, <1>3, <1>4, <2>2
<1>5. CASE W # {}
  <2> DEFINE to(i) == IF i \in W \ P THEN addHit(backlog[i], h) ELSE backlog[i]
  <2>1. log = [i \in 1..n |-> to(i)]
    BY <1>2, <1>5 DEF WithHit, Joined
  <2>2. \A i \in 1..n : to(i) \in Events
    BY <1>2, EventFields
  <2>3. log \in [1..n -> Events]
    BY <2>1, <2>2
  <2>4. log \in Seq(Events)
    BY <1>2, <2>3, SeqDef
  <2>5. Len(log) = n
    <3> HIDE DEF log, n
    <3> QED
      BY <1>2, <2>3, <2>4, LenProperties
  <2> QED
    BY <1>2, <1>3, <1>5, <2>1, <2>4, <2>5
<1> QED
  BY <1>4, <1>5

\* The front of the log that is past due.
LEMMA Leaving ==
  ASSUME LogTypes, NEW h \in Hits, NEW log \in Seq(Events)
  PROVE  /\ Due(log, h) \in 0..Len(log)
         /\ \A i \in 1..Due(log, h) : past_due(log[i], h)
         /\ Due(log, h) < Len(log) => ~past_due(log[Due(log, h) + 1], h)
<1> DEFINE n == Len(log)
           P == {i \in 1..n : \A j \in 1..i : past_due(log[j], h)}
           d == Cardinality(P)
<1>1. n \in Nat /\ DOMAIN log = 1..n
  BY Elements
<1>2. Due(log, h) = d
  BY <1>1 DEF Due
<1>3. P \in SUBSET (1..n) /\ \A i \in P : \A j \in 1..i : j \in P
  BY <1>1
<1>4. d \in 0..n /\ P = 1..d
  <2> HIDE DEF P
  <2> QED
    BY <1>1, <1>3, PrefixIs
<1>5. \A i \in 1..d : past_due(log[i], h)
  <2> TAKE i \in 1..d
  <2>1. i \in P /\ i \in 1..i
    BY <1>4, <1>1
  <2> QED
    BY <2>1
<1>6. ASSUME d < n, past_due(log[d + 1], h) PROVE FALSE
  <2> HIDE DEF d
  <2>1. d + 1 \in 1..n /\ d \in Nat
    BY <1>1, <1>4, <1>6
  <2>2. \A j \in 1..d + 1 : j \in 1..d \/ j = d + 1
    BY <2>1
  <2>3. \A j \in 1..d + 1 : past_due(log[j], h)
    BY <2>2, <1>5, <1>6
  <2>4. d + 1 \in P
    BY <2>1, <2>3
  <2> QED
    BY <2>1, <2>4, <1>4
<1> QED
  <2> HIDE DEF d
  <2> QED
    BY <1>1, <1>2, <1>4, <1>5, <1>6

\* The hit that PushHit makes, and what PushHit does when it is accepted.
Hit(c, t) == [id |-> Len(pushed) + 1, channel |-> c, timestamp |-> delayed(c, t)]

Accepts(c, t) ==
  LET h    == Hit(c, t)
      log  == WithHit(h)
      outs == SubSeq(log, 1, Due(log, h))
  IN /\ clock' = t
     /\ Len(pushed) < MaxHits
     /\ pushed' = Append(pushed, h)
     /\ pileups' = IF InWindow(h) # {} /\ InWindow(h) = Piled(h)
                   THEN pileups \cup {h} ELSE pileups
     /\ backlog' = SubSeq(log, Due(log, h) + 1, Len(log))
     /\ evicted' = evicted \o outs
     /\ total_events_' = total_events_ + Counted(outs)
     /\ UNCHANGED <<delay_ns_, energy_idx_, flushed>>

LEMMA PushSplits ==
  ASSUME NEW c, NEW t, NEW low, PushHit(c, t, low)
  PROVE  \/ Accepts(c, t)
         \/ clock' = t /\ UNCHANGED <<delay_ns_, backlog, energy_idx_, total_events_, flushed,
                                      pushed, evicted, pileups>>
BY DEF PushHit, Accepts, Hit

LEMMA NewHit ==
  ASSUME SmallTypes, LogTypes, NEW c \in Channels, NEW t \in Nat, Len(pushed) < MaxHits
  PROVE  /\ Hit(c, t) \in Hits /\ Hit(c, t).id = Len(pushed) + 1
         /\ Hit(c, t).channel = c /\ Hit(c, t).timestamp = delayed(c, t)
<1>1. Len(pushed) \in Nat /\ MaxHits \in Nat
  BY Elements, CoincidenceAssumption DEF LogTypes
<1>2. Len(pushed) + 1 \in 1..MaxHits
  BY <1>1
<1>3. delayed(c, t) \in Nat
  BY Delayed
<1> QED
  BY <1>2, <1>3 DEF Hit, Hits

-----------------------------------------------------------------------------
(* Where the events are after a hit: those that leave, then those that     *)
(* stay, are the events of before with the hit in some of them, and at     *)
(* most one new event behind.                                              *)

LEMMA Moved ==
  ASSUME LogTypes, NEW c \in Channels, NEW t \in Nat, Accepts(c, t), Hit(c, t) \in Hits
  PROVE  LET h   == Hit(c, t)
             log == WithHit(h)
             d   == Due(log, h)
         IN  /\ log \in Seq(Events) /\ d \in 0..Len(log)
             /\ backlog' \in Seq(Events) /\ evicted' \in Seq(Events)
             /\ Len(evicted') = Len(evicted) + d /\ Len(backlog') = Len(log) - d
             /\ \A i \in 1..Len(evicted) : evicted'[i] = evicted[i]
             /\ \A i \in 1..d : evicted'[Len(evicted) + i] = log[i]
             /\ \A i \in 1..Len(log) - d : backlog'[i] = log[d + i]
<1> DEFINE h == Hit(c, t)
           log == WithHit(h)
           d == Due(log, h)
           outs == SubSeq(log, 1, d)
           rest == SubSeq(log, d + 1, Len(log))
<1>1. evicted \in Seq(Events) /\ Len(evicted) \in Nat
  BY Elements DEF LogTypes
<1>2. log \in Seq(Events)
  BY WithHitIs
<1>3. d \in 0..Len(log) /\ Len(log) \in Nat
  BY <1>2, Leaving, Elements
<1>4. backlog' = rest /\ evicted' = evicted \o outs
  BY DEF Accepts
<1> HIDE DEF h, log, d
<1>5. /\ outs \in Seq(Events) /\ rest \in Seq(Events)
      /\ Len(outs) = d /\ Len(rest) = Len(log) - d
      /\ \A i \in 1..d : outs[i] = log[i]
      /\ \A i \in 1..Len(log) - d : rest[i] = log[d + i]
  BY <1>2, <1>3, Cuts
<1> HIDE DEF outs, rest
<1>6. /\ evicted \o outs \in Seq(Events) /\ Len(evicted \o outs) = Len(evicted) + Len(outs)
      /\ \A i \in 1..Len(evicted) + Len(outs) :
           (evicted \o outs)[i] = IF i <= Len(evicted) THEN evicted[i] ELSE outs[i - Len(evicted)]
  BY <1>1, <1>5, ConcatProperties
<1>7. \A i \in 1..Len(evicted) : evicted'[i] = evicted[i]
  <2> TAKE i \in 1..Len(evicted)
  <2>1. i \in 1..Len(evicted) + Len(outs) /\ i <= Len(evicted)
    BY <1>1, <1>3, <1>5
  <2> QED
    BY <2>1, <1>4, <1>6
<1>8. \A i \in 1..d : evicted'[Len(evicted) + i] = log[i]
  <2> TAKE i \in 1..d
  <2>1. /\ Len(evicted) + i \in 1..Len(evicted) + Len(outs)
        /\ ~(Len(evicted) + i <= Len(evicted)) /\ (Len(evicted) + i) - Len(evicted) = i
    BY <1>1, <1>3, <1>5
  <2> QED
    BY <2>1, <1>4, <1>5, <1>6
<1>9. /\ log \in Seq(Events) /\ d \in 0..Len(log)
      /\ backlog' \in Seq(Events) /\ evicted' \in Seq(Events)
      /\ Len(evicted') = Len(evicted) + d /\ Len(backlog') = Len(log) - d
      /\ \A i \in 1..Len(log) - d : backlog'[i] = log[d + i]
  BY <1>2, <1>3, <1>4, <1>5, <1>6
<1> QED
  BY <1>7, <1>8, <1>9 DEF h, log, d

\* the events of before that take the hit, by their places in All
Taking(h) == {i \in Len(evicted) + 1..Len(evicted) + Len(backlog) :
                i - Len(evicted) \in InWindow(h) \ Piled(h)}

LEMMA Behind ==
  ASSUME NEW S, NEW p \in Seq(S), NEW q \in Seq(S)
  PROVE  /\ p \o q \in Seq(S) /\ Len(p) \in Nat /\ Len(q) \in Nat /\ Len(p \o q) = Len(p) + Len(q)
         /\ \A i \in 1..Len(p) : (p \o q)[i] = p[i]
         /\ \A i \in 1..Len(q) : (p \o q)[Len(p) + i] = q[i]
         /\ \A i \in 1..Len(p) + Len(q) :
              i \in 1..Len(p) \/ \E j \in 1..Len(q) : i = Len(p) + j
<1>1. /\ p \o q \in Seq(S) /\ Len(p) \in Nat /\ Len(q) \in Nat /\ Len(p \o q) = Len(p) + Len(q)
      /\ \A i \in 1..Len(p) + Len(q) :
           (p \o q)[i] = IF i <= Len(p) THEN p[i] ELSE q[i - Len(p)]
  BY ConcatProperties, LenProperties
<1>2. ASSUME NEW i \in 1..Len(p) PROVE (p \o q)[i] = p[i]
  BY <1>1
<1>3. ASSUME NEW i \in 1..Len(q) PROVE (p \o q)[Len(p) + i] = q[i]
  <2>1. /\ Len(p) + i \in 1..Len(p) + Len(q) /\ ~(Len(p) + i <= Len(p))
        /\ (Len(p) + i) - Len(p) = i
    BY <1>1
  <2> QED
    BY <2>1, <1>1
<1>4. ASSUME NEW i \in 1..Len(p) + Len(q), i \notin 1..Len(p)
      PROVE  i - Len(p) \in 1..Len(q) /\ i = Len(p) + (i - Len(p))
  BY <1>1, <1>4
<1> QED
  BY <1>1, <1>2, <1>3, <1>4

LEMMA After ==
  ASSUME LogTypes, NEW c \in Channels, NEW t \in Nat, Accepts(c, t), Hit(c, t) \in Hits
  PROVE  LET h == Hit(c, t)
             k == Len(evicted) + Len(backlog)
         IN  /\ All \in Seq(Events) /\ Len(All) = k /\ k \in Nat
             /\ Len(All') = IF InWindow(h) = {} THEN k + 1 ELSE k
             /\ InWindow(h) = {} => All'[k + 1] = NewEvent(h)
             /\ \A i \in 1..k : All'[i] = IF i \in Taking(h) THEN addHit(All[i], h) ELSE All[i]
             /\ Len(evicted') + Len(backlog') = Len(All')
<1> DEFINE h == Hit(c, t)
           log == WithHit(h)
           d == Due(log, h)
           m == Len(evicted)
           n == Len(backlog)
           W == InWindow(h)
           P == Piled(h)
<1>1. /\ evicted \in Seq(Events) /\ backlog \in Seq(Events) /\ m \in Nat /\ n \in Nat
      /\ All \in Seq(Events) /\ Len(All) = m + n
      /\ \A i \in 1..m : All[i] = evicted[i]
      /\ \A i \in 1..n : All[m + i] = backlog[i]
      /\ \A i \in 1..m + n : i \in 1..m \/ \E j \in 1..n : i = m + j
  <2>1. evicted \in Seq(Events) /\ backlog \in Seq(Events)
    BY DEF LogTypes
  <2> QED
    BY <2>1, Behind DEF All
<1>2. /\ log \in Seq(Events) /\ d \in 0..Len(log)
      /\ backlog' \in Seq(Events) /\ evicted' \in Seq(Events)
      /\ Len(evicted') = m + d /\ Len(backlog') = Len(log) - d
      /\ \A i \in 1..m : evicted'[i] = evicted[i]
      /\ \A i \in 1..d : evicted'[m + i] = log[i]
      /\ \A i \in 1..Len(log) - d : backlog'[i] = log[d + i]
  BY Moved
<1>3. /\ W = {} => Len(log) = n + 1 /\ log[n + 1] = NewEvent(h)
      /\ W # {} => Len(log) = n
      /\ \A i \in 1..n : log[i] = IF i \in W \ P THEN addHit(backlog[i], h) ELSE backlog[i]
  BY WithHitIs
<1>4. Taking(h) = {i \in m + 1..m + n : i - m \in W \ P}
  BY DEF Taking
<1> HIDE DEF h, log, d, m, n, W, P
<1>5. /\ Len(All') = Len(evicted') + Len(backlog')
      /\ \A i \in 1..Len(evicted') : All'[i] = evicted'[i]
      /\ \A i \in 1..Len(backlog') : All'[Len(evicted') + i] = backlog'[i]
  <2>1. evicted' \in Seq(Events) /\ backlog' \in Seq(Events) /\ All' = evicted' \o backlog'
    BY <1>2 DEF All
  <2>2. PICK p \in Seq(Events), q \in Seq(Events) :
          p = evicted' /\ q = backlog' /\ All' = p \o q
    BY <2>1
  <2>3. /\ Len(p \o q) = Len(p) + Len(q)
        /\ \A i \in 1..Len(p) : (p \o q)[i] = p[i]
        /\ \A i \in 1..Len(q) : (p \o q)[Len(p) + i] = q[i]
    BY Behind
  <2> QED
    BY <2>2, <2>3
<1>6. Len(log) \in Nat
  BY <1>2, Elements
<1>7. Len(All') = m + Len(log)
  BY <1>1, <1>2, <1>5, <1>6
<1>8. \A i \in 1..m : All'[i] = All[i]
  <2> TAKE i \in 1..m
  <2>1. i \in 1..Len(evicted')
    BY <1>1, <1>2, <1>6
  <2> QED
    BY <2>1, <1>1, <1>2, <1>5
<1>9. \A i \in 1..Len(log) : All'[m + i] = log[i]
  <2> TAKE i \in 1..Len(log)
  <2>1. CASE i <= d
    <3>1. i \in 1..d /\ m + i \in 1..Len(evicted')
      BY <2>1, <1>1, <1>2, <1>6
    <3> QED
      BY <3>1, <1>2, <1>5
  <2>2. CASE i > d
    <3>1. i - d \in 1..Len(log) - d /\ m + i = (m + d) + (i - d) /\ d + (i - d) = i
      BY <2>2, <1>1, <1>2, <1>6
    <3>2. All'[Len(evicted') + (i - d)] = backlog'[i - d]
      BY <3>1, <1>2, <1>5
    <3>3. backlog'[i - d] = log[d + (i - d)]
      BY <3>1, <1>2
    <3> QED
      BY <3>1, <3>2, <3>3, <1>2
  <2> QED
    BY <2>1, <2>2, <1>2, <1>6
<1>10. ASSUME W = {} PROVE Len(All') = m + n + 1 /\ All'[m + n + 1] = NewEvent(h)
  <2>1. n + 1 \in 1..Len(log) /\ m + (n + 1) = m + n + 1
    BY <1>10, <1>1, <1>3
  <2> QED
    BY <2>1, <1>3, <1>7, <1>9, <1>10, <1>1
<1>11. ASSUME NEW i \in 1..m + n
       PROVE  All'[i] = IF i \in Taking(h) THEN addHit(All[i], h) ELSE All[i]
  <2>1. CASE i \in 1..m
    <3>1. i \notin Taking(h)
      BY <2>1, <1>1, <1>4
    <3> QED
      BY <3>1, <2>1, <1>8
  <2>2. ASSUME NEW j \in 1..n, i = m + j
        PROVE  All'[i] = IF i \in Taking(h) THEN addHit(All[i], h) ELSE All[i]
    <3>1. j \in 1..Len(log) /\ i - m = j /\ i \in m + 1..m + n
      BY <2>2, <1>1, <1>3
    <3>2. i \in Taking(h) <=> j \in W \ P
      BY <3>1, <1>4
    <3>3. All'[i] = log[j] /\ All[i] = backlog[j]
      BY <3>1, <2>2, <1>1, <1>9
    <3> QED
      BY <3>2, <3>3, <2>2, <1>3
  <2> QED
    BY <2>1, <2>2, <1>1
<1>12. W # {} => Len(All') = m + n
  BY <1>3, <1>7
<1>13. m + n \in Nat /\ Len(evicted') + Len(backlog') = Len(All')
  BY <1>1, <1>5
<1> QED
  BY <1>1, <1>10, <1>11, <1>12, <1>13 DEF h, m, n, W

\* Where the hits are then.
LEMMA HitsAfter ==
  ASSUME LogTypes, NEW c \in Channels, NEW t \in Nat, Accepts(c, t), Hit(c, t) \in Hits
  PROVE  LET h == Hit(c, t)
             k == Len(All)
         IN  /\ k \in Nat /\ Len(All') = IF InWindow(h) = {} THEN k + 1 ELSE k
             /\ \A i \in 1..k : All[i] \in Events
             /\ InWindow(h) = {} =>
                  All'[k + 1].hits = {h} /\ All'[k + 1].lower_time = h.timestamp
             /\ \A i \in 1..k : /\ All'[i].lower_time = All[i].lower_time
                                /\ i \in Taking(h) => All'[i].hits = All[i].hits \cup {h}
                                /\ i \notin Taking(h) => All'[i].hits = All[i].hits
             /\ Range(pushed') = Range(pushed) \cup {h}
<1> DEFINE h == Hit(c, t)
           k == Len(evicted) + Len(backlog)
<1>1. /\ All \in Seq(Events) /\ Len(All) = k /\ k \in Nat
      /\ Len(All') = IF InWindow(h) = {} THEN k + 1 ELSE k
      /\ InWindow(h) = {} => All'[k + 1] = NewEvent(h)
      /\ \A i \in 1..k : All'[i] = IF i \in Taking(h) THEN addHit(All[i], h) ELSE All[i]
  BY After
<1>2. \A i \in 1..k : All[i] \in Events
  BY <1>1, ElementOfSeq
<1>3. h \in Hits
  OBVIOUS
<1>4. Range(pushed') = Range(pushed) \cup {h}
  <2>1. pushed \in Seq(Hits) /\ pushed' = Append(pushed, h)
    BY DEF LogTypes, Accepts
  <2> QED
    BY <1>3, <2>1, Appended
<1> HIDE DEF h, k
<1> QED
  BY <1>1, <1>2, <1>3, <1>4, EventFields DEF h

-----------------------------------------------------------------------------
(* The invariant is inductive: an accepted hit, part by part               *)

LEMMA CountedIs == ASSUME NEW events \in Seq(Events)
                   PROVE  Counted(events) \in 0..Len(events)
<1> DEFINE n == Len(events)
           V == {i \in 1..n : validateEvent(events[i])}
<1>1. n \in Nat /\ DOMAIN events = 1..n
  BY Elements
<1>2. IsFiniteSet(1..n) /\ Cardinality(1..n) = n
  <2>1. 1 \in Int /\ n \in Int
    BY <1>1
  <2>2. IsFiniteSet(1..n) /\ Cardinality(1..n) = IF 1 > n THEN 0 ELSE n - 1 + 1
    BY <2>1, FS_Interval
  <2> QED
    BY <1>1, <2>2
<1>3. V \in SUBSET (1..n)
  OBVIOUS
<1>4. Counted(events) = Cardinality(V)
  BY <1>1 DEF Counted
<1> HIDE DEF V
<1>5. IsFiniteSet(V) /\ Cardinality(V) <= Cardinality(1..n)
  BY <1>2, <1>3, FS_Subset
<1>6. Cardinality(V) \in Nat
  BY <1>5, FS_CardinalityType
<1> QED
  BY <1>1, <1>2, <1>4, <1>5, <1>6

LEMMA CountStep ==
  ASSUME LogTypes, CountInv, NEW c \in Channels, NEW t \in Nat, Accepts(c, t), Hit(c, t) \in Hits
  PROVE  CountInv'
<1> DEFINE h == Hit(c, t)
           log == WithHit(h)
           d == Due(log, h)
           outs == SubSeq(log, 1, d)
           k == Len(evicted) + Len(backlog)
<1>1. k \in Nat /\ Len(All') \in {k, k + 1} /\ Len(evicted') + Len(backlog') = Len(All')
  BY After
<1>2. Len(pushed') = Len(pushed) + 1 /\ Len(pushed) \in Nat /\ Len(pushed) < MaxHits
  <2>1. pushed \in Seq(Hits) /\ pushed' = Append(pushed, h) /\ Len(pushed) < MaxHits
    BY DEF LogTypes, Accepts
  <2> QED
    BY <2>1, Appended
<1>3. log \in Seq(Events) /\ d \in 0..Len(log) /\ Len(evicted') = Len(evicted) + d
  BY Moved
<1>4. outs \in Seq(Events) /\ Len(outs) = d
  <2> HIDE DEF log, d
  <2> QED
    BY <1>3, Cuts
<1>5. Counted(outs) \in 0..Len(outs)
  BY <1>4, CountedIs
<1>6. total_events_' = total_events_ + Counted(outs) /\ flushed' = flushed
  BY DEF Accepts
<1>7. Len(evicted) \in Nat /\ Len(log) \in Nat /\ MaxHits \in Nat
  BY <1>3, Elements, CoincidenceAssumption DEF LogTypes
<1>8. /\ Len(evicted) + Len(backlog) <= Len(pushed)
      /\ total_events_ \in 0..Len(evicted) /\ flushed \in 0..total_events_
  BY DEF CountInv
<1> DEFINE x == Counted(outs)
<1>9. x \in 0..d /\ total_events_' = total_events_ + x
  BY <1>4, <1>5, <1>6
<1> HIDE DEF h, log, d, outs, k, x
<1>10. Len(evicted') + Len(backlog') <= Len(pushed') /\ Len(pushed') <= MaxHits
  BY <1>1, <1>2, <1>7, <1>8 DEF k
<1>11. total_events_' \in 0..Len(evicted') /\ flushed' \in 0..total_events_'
  BY <1>3, <1>6, <1>7, <1>8, <1>9
<1> QED
  BY <1>10, <1>11 DEF CountInv

\* Which events have the hit's channel, and whether any event has the hit.
LEMMA TakingIs ==
  ASSUME LogTypes, NEW h \in Hits
  PROVE  /\ \A i \in Taking(h) : i \in 1..Len(All) /\ ~HasChannel(All[i], h.channel)
         /\ Taking(h) = {} <=> InWindow(h) = Piled(h)
         /\ \A j \in InWindow(h) : /\ j \in 1..Len(backlog) /\ Len(evicted) + j \in 1..Len(All)
                                   /\ All[Len(evicted) + j] = backlog[j]
                                   /\ Len(evicted) + j \in Taking(h) \/ HasChannel(backlog[j], h.channel)
<1> DEFINE m == Len(evicted)
           n == Len(backlog)
           W == InWindow(h)
           P == Piled(h)
<1>1. /\ evicted \in Seq(Events) /\ backlog \in Seq(Events) /\ m \in Nat /\ n \in Nat
      /\ Len(All) = m + n /\ \A i \in 1..n : All[m + i] = backlog[i]
  <2>1. evicted \in Seq(Events) /\ backlog \in Seq(Events)
    BY DEF LogTypes
  <2> QED
    BY <2>1, Behind DEF All
<1>2. W \subseteq 1..n /\ P \subseteq W
  BY WithHitIs
<1>3. \A j \in W : j \in P <=> HasChannel(backlog[j], h.channel)
  BY DEF Piled
<1>4. Taking(h) = {i \in m + 1..m + n : i - m \in W \ P}
  BY DEF Taking
<1> HIDE DEF m, n, W, P
<1>5. ASSUME NEW i \in Taking(h) PROVE i \in 1..Len(All) /\ ~HasChannel(All[i], h.channel)
  <2>1. i \in m + 1..m + n /\ i - m \in W \ P
    BY <1>4
  <2>2. i - m \in 1..n /\ m + (i - m) = i /\ i \in 1..m + n
    BY <2>1, <1>1
  <2>3. All[i] = backlog[i - m] /\ ~HasChannel(backlog[i - m], h.channel)
    BY <2>1, <2>2, <1>1, <1>3
  <2> QED
    BY <2>2, <2>3, <1>1
<1>6. ASSUME NEW j \in W
      PROVE  /\ j \in 1..n /\ m + j \in 1..Len(All) /\ All[m + j] = backlog[j]
             /\ m + j \in Taking(h) <=> j \notin P
             /\ m + j \in Taking(h) \/ HasChannel(backlog[j], h.channel)
  <2>1. j \in 1..n /\ m + j \in m + 1..m + n /\ (m + j) - m = j /\ m + j \in 1..m + n
    BY <1>1, <1>2
  <2>2. m + j \in Taking(h) <=> j \notin P
    BY <2>1, <1>4
  <2> QED
    BY <2>1, <2>2, <1>1, <1>3
<1>7. Taking(h) = {} <=> W = P
  BY <1>2, <1>4, <1>6
<1> QED
  BY <1>5, <1>6, <1>7 DEF m, n, W, P

LEMMA HitStep ==
  ASSUME LogTypes, HitInv, NEW c \in Channels, NEW t \in Nat, Accepts(c, t), Hit(c, t) \in Hits
  PROVE  HitInv'
<1> DEFINE h == Hit(c, t)
           k == Len(All)
           W == InWindow(h)
           P == Piled(h)
           T == Taking(h)
<1>1. /\ k \in Nat /\ Len(All') = IF W = {} THEN k + 1 ELSE k
      /\ \A i \in 1..k : All[i] \in Events
      /\ W = {} => All'[k + 1].hits = {h}
      /\ \A i \in 1..k : /\ i \in T => All'[i].hits = All[i].hits \cup {h}
                         /\ i \notin T => All'[i].hits = All[i].hits
      /\ Range(pushed') = Range(pushed) \cup {h}
  BY HitsAfter
<1>2. /\ \A i \in T : i \in 1..k /\ ~HasChannel(All[i], h.channel)
      /\ T = {} <=> W = P
  BY TakingIs
<1>3. pushed \in Seq(Hits) /\ pushed' = Append(pushed, h) /\ Len(pushed) \in Nat /\ h \in Hits
  BY Elements DEF LogTypes, Accepts
<1>4. h.id = Len(pushed) + 1
  BY DEF Hit
<1>5. pileups' = IF W # {} /\ W = P THEN pileups \cup {h} ELSE pileups
  BY DEF Accepts
<1> HIDE DEF h, k, W, P, T
<1>6. \A i \in 1..Len(pushed') : pushed'[i].id = i
  <2>1. /\ Len(pushed') = Len(pushed) + 1 /\ pushed'[Len(pushed) + 1] = h
        /\ \A i \in 1..Len(pushed) : pushed'[i] = pushed[i]
    BY <1>3, Appended
  <2>2. \A i \in 1..Len(pushed) + 1 : i \in 1..Len(pushed) \/ i = Len(pushed) + 1
    BY <1>3
  <2> QED
    BY <2>1, <2>2, <1>4 DEF HitInv
<1>7. h \notin Range(pushed)
  <2>1. ASSUME NEW i \in 1..Len(pushed), pushed[i] = h PROVE FALSE
    <3>1. pushed[i].id = i
      BY DEF HitInv
    <3> QED
      BY <3>1, <2>1, <1>3, <1>4
  <2> QED
    BY <2>1, <1>3, Elements
<1>8. pileups' \subseteq Range(pushed')
  BY <1>1, <1>5 DEF HitInv
<1>9. \A i \in 1..Len(All') : i \in 1..k \/ (i = k + 1 /\ W = {})
  BY <1>1
<1>10. \A i \in 1..Len(All') : OnePerChannel(All'[i]) /\ All'[i].hits \subseteq Range(pushed')
  <2> TAKE i \in 1..Len(All')
  <2>1. CASE i \in 1..k
    <3>1. OnePerChannel(All[i]) /\ All[i].hits \subseteq Range(pushed)
      BY <2>1 DEF HitInv, k
    <3>2. CASE i \in T
      BY <3>1, <3>2, <2>1, <1>1, <1>2 DEF OnePerChannel, HasChannel
    <3>3. CASE i \notin T
      BY <3>1, <3>3, <2>1, <1>1 DEF OnePerChannel
    <3> QED
      BY <3>2, <3>3
  <2>2. CASE i = k + 1 /\ W = {}
    BY <2>2, <1>1 DEF OnePerChannel
  <2> QED
    BY <2>1, <2>2, <1>9
<1>11. ASSUME NEW g \in Range(pushed')
       PROVE  g \in pileups' <=> \A i \in 1..Len(All') : g \notin All'[i].hits
  <2>1. 1..k \subseteq 1..Len(All') /\ (W = {} => k + 1 \in 1..Len(All'))
    BY <1>1
  <2>2. CASE g = h
    <3>1. h \in pileups' <=> W # {} /\ T = {}
      BY <1>2, <1>5, <1>7 DEF HitInv
    <3>2. ASSUME W = {} PROVE h \in All'[k + 1].hits /\ k + 1 \in 1..Len(All')
      BY <3>2, <1>1, <2>1
    <3>3. ASSUME NEW i \in T PROVE h \in All'[i].hits /\ i \in 1..Len(All')
      BY <3>3, <1>1, <1>2, <2>1
    <3>4. ASSUME W # {}, T = {}, NEW i \in 1..Len(All') PROVE h \notin All'[i].hits
      <4>1. i \in 1..k /\ All'[i].hits = All[i].hits
        BY <3>4, <1>1, <1>9
      <4> QED
        BY <4>1, <1>7 DEF HitInv, k
    <3> QED
      BY <2>2, <3>1, <3>2, <3>3, <3>4
  <2>3. CASE g # h
    <3>1. g \in Range(pushed) /\ (g \in pileups' <=> g \in pileups)
      BY <2>3, <1>1, <1>5
    <3>2. g \in pileups <=> \A i \in 1..k : g \notin All[i].hits
      BY <3>1 DEF HitInv, k
    <3>3. \A i \in 1..k : g \in All'[i].hits <=> g \in All[i].hits
      BY <2>3, <1>1
    <3>4. W = {} => g \notin All'[k + 1].hits
      BY <2>3, <1>1
    <3> QED
      BY <3>1, <3>2, <3>3, <3>4, <1>9, <2>1
  <2> QED
    BY <2>2, <2>3
<1> QED
  BY <1>6, <1>8, <1>10, <1>11 DEF HitInv

\* An event that leaves ended before this hit arrived, whatever its delay, but
\* for what the rounding cuts off.
LEMMA EvictStep ==
  ASSUME SmallTypes, LogTypes, EvictInv, NEW c \in Channels, NEW t \in clock..MaxTime,
         Accepts(c, t), Hit(c, t) \in Hits
  PROVE  EvictInv'
<1> DEFINE h == Hit(c, t)
           log == WithHit(h)
           d == Due(log, h)
           m == Len(evicted)
           longest == MaxOf({delay_ns_[x] : x \in Channels})
<1>1. t \in Nat /\ clock \in Nat /\ t >= clock /\ clock' = t /\ delay_ns_' = delay_ns_
  BY CoincidenceAssumption DEF SmallTypes, Accepts
<1>2. SUFFICES ASSUME NEW e \in Range(evicted')
               PROVE  t + CutOff > e.lower_time + coinc_window_
  BY <1>1 DEF EvictInv, CutOff, WholeTicks
<1>3. /\ log \in Seq(Events) /\ d \in 0..Len(log) /\ evicted' \in Seq(Events)
      /\ Len(evicted') = m + d
      /\ \A i \in 1..m : evicted'[i] = evicted[i]
      /\ \A i \in 1..d : evicted'[m + i] = log[i]
  BY <1>1, Moved
<1>4. \A i \in 1..d : past_due(log[i], h)
  BY <1>3, Leaving
<1>5. /\ longest \in Nat /\ coinc_window_ \in Nat /\ max_delay_ = longest + coinc_window_
      /\ h.timestamp \in Nat /\ h.timestamp <= t + longest + CutOff /\ CutOff \in Nat
  <2>1. /\ longest \in Nat /\ coinc_window_ \in Nat /\ max_delay_ = longest + coinc_window_
        /\ delay_ns_[c] \in Nat /\ delay_ns_[c] <= longest
        /\ delayed(c, t) \in Nat /\ delayed(c, t) <= t + delay_ns_[c] + CutOff
        /\ CutOff \in Nat
    BY <1>1, Delayed
  <2>2. h.timestamp = delayed(c, t)
    BY DEF Hit
  <2> HIDE DEF h, longest
  <2> QED
    BY <2>1, <2>2, <1>1
<1>6. evicted \in Seq(Events) /\ m \in Nat /\ Len(log) \in Nat
  BY <1>3, Elements DEF LogTypes
<1> HIDE DEF h, log, d, m, longest
<1>7. PICK i \in 1..m + d : evicted'[i] = e
  BY <1>2, <1>3, Elements
<1>8. CASE i \in 1..m
  <2>1. e \in Range(evicted)
    BY <1>3, <1>6, <1>7, <1>8, Elements DEF m
  <2>2. e \in Events
    BY <2>1, <1>6, Elements
  <2>3. clock + CutOff > e.lower_time + coinc_window_ /\ e.lower_time \in Nat
    BY <2>1, <2>2, EventFields DEF EvictInv
  <2> QED
    BY <2>3, <1>1, <1>5
<1>9. CASE i \notin 1..m
  <2>1. i - m \in 1..d /\ m + (i - m) = i /\ i - m \in 1..Len(log)
    BY <1>3, <1>6, <1>7, <1>9
  <2>2. e = log[i - m]
    BY <2>1, <1>3, <1>7
  <2>3. past_due(e, h) /\ e \in Events
    BY <2>1, <2>2, <1>3, <1>4, Elements
  <2>4. e.lower_time \in Nat /\ h.timestamp >= e.lower_time
        /\ h.timestamp - e.lower_time > longest + coinc_window_
    BY <2>3, <1>5, EventFields DEF past_due
  <2> QED
    BY <2>4, <1>1, <1>5
<1> QED
  BY <1>8, <1>9

\* In order of time: the hit joins the one event that is open, or ends it.
LEMMA OneOpen ==
  ASSUME SmallTypes, LogTypes, OrderInv, InOrder, NEW c \in Channels, NEW t \in clock..MaxTime,
         Accepts(c, t), Hit(c, t) \in Hits
  PROVE  LET h == Hit(c, t)
         IN  /\ t \in Nat /\ clock \in Nat /\ clock <= t /\ h.timestamp = t
             /\ backlog' \in Seq(Events) /\ Len(backlog') = 1
             /\ InWindow(h) = {} => /\ backlog'[1] = NewEvent(h)
                                    /\ \/ backlog = <<>>
                                       \/ /\ Len(backlog) = 1
                                          /\ t > backlog[1].lower_time + coinc_window_
             /\ InWindow(h) # {} => /\ Len(backlog) = 1 /\ InWindow(h) = {1}
                                    /\ backlog'[1].lower_time = backlog[1].lower_time
                                    /\ t <= backlog[1].lower_time + coinc_window_
<1> DEFINE h == Hit(c, t)
           log == WithHit(h)
           d == Due(log, h)
           n == Len(backlog)
           W == InWindow(h)
<1>1. t \in Nat /\ clock \in Nat /\ clock <= t
  BY CoincidenceAssumption DEF SmallTypes
<1>2. h.timestamp = t /\ max_delay_ = coinc_window_ /\ coinc_window_ \in Nat
  <2>1. /\ MaxOf({delay_ns_[x] : x \in Channels}) = 0 /\ coinc_window_ \in Nat
        /\ max_delay_ = MaxOf({delay_ns_[x] : x \in Channels}) + coinc_window_
        /\ delayed(c, t) = t
    BY <1>1, Delayed
  <2>2. h.timestamp = delayed(c, t)
    BY DEF Hit
  <2> QED
    BY <2>1, <2>2
<1>3. /\ log \in Seq(Events) /\ d \in 0..Len(log)
      /\ backlog' \in Seq(Events) /\ Len(backlog') = Len(log) - d
      /\ \A i \in 1..Len(log) - d : backlog'[i] = log[d + i]
  BY <1>1, Moved
<1>4. /\ \A i \in 1..d : past_due(log[i], h)
      /\ d < Len(log) => ~past_due(log[d + 1], h)
  BY <1>3, Leaving
<1>5. /\ W \subseteq 1..n
      /\ W = {} => Len(log) = n + 1 /\ log[n + 1] = NewEvent(h)
      /\ W # {} => Len(log) = n
      /\ \A i \in 1..n : log[i] = IF i \in W \ Piled(h) THEN addHit(backlog[i], h) ELSE backlog[i]
  BY WithHitIs
<1>6. backlog \in Seq(Events) /\ n \in 0..1 /\ (n = 0 => backlog = <<>>)
  <2>1. backlog \in Seq(Events) /\ n \in Nat /\ (n = 0 => backlog = <<>>)
    BY Elements DEF LogTypes
  <2>2. Len(backlog) <= 1
    BY Zenon DEF OrderInv
  <2> QED
    BY <2>1, <2>2
<1>7. n = 1 => backlog[1] \in Events /\ backlog[1].lower_time \in Nat /\ backlog[1].lower_time <= t
  <2>1. ASSUME n = 1 PROVE backlog[1] \in Events /\ backlog[1].lower_time <= clock
    <3>1. 1 \in 1..n
      BY <2>1
    <3> QED
      BY <3>1, <1>6, Elements DEF OrderInv
  <2>2. n = 1 => backlog[1].lower_time \in Nat
    BY <2>1, EventFields
  <2> QED
    BY <2>1, <2>2, <1>1
<1>8. ASSUME n = 1
      PROVE  /\ 1 \in W <=> ~past_due(backlog[1], h)
             /\ past_due(backlog[1], h) <=> t > backlog[1].lower_time + coinc_window_
  <2>1. DOMAIN backlog = {1} /\ Last(backlog) = backlog[1]
    <3>1. DOMAIN backlog = 1..n
      BY <1>6, Elements
    <3> QED
      BY <3>1, <1>8 DEF Last
  <2>2. past_due(backlog[1], h) <=> t > backlog[1].lower_time + coinc_window_
    <3> HIDE DEF h
    <3> QED
      BY <1>1, <1>2, <1>7, <1>8 DEF past_due
  <2>3. in_window(backlog[1], h) <=> t <= backlog[1].lower_time + coinc_window_
    <3> HIDE DEF h
    <3> QED
      BY <1>1, <1>2, <1>7, <1>8 DEF in_window
  <2>4. 1 \in W <=> ~past_due(backlog[1], h) /\ in_window(backlog[1], h)
    <3>1. \A j \in 1..1 : j = 1
      OBVIOUS
    <3> HIDE DEF h
    <3> QED
      BY <3>1, <2>1 DEF InWindow, Reached
  <2> QED
    BY <2>2, <2>3, <2>4, <1>1, <1>2, <1>7, <1>8
<1>9. ~past_due(NewEvent(h), h)
  <2> HIDE DEF h
  <2> QED
    BY <1>1, <1>2 DEF past_due, NewEvent
<1> HIDE DEF h, log, d, n, W
<1>10. ASSUME W = {}
       PROVE  /\ Len(backlog') = 1 /\ backlog'[1] = NewEvent(h)
              /\ backlog = <<>> \/ (n = 1 /\ t > backlog[1].lower_time + coinc_window_)
  <2>1. Len(log) = n + 1 /\ log[n + 1] = NewEvent(h)
    BY <1>5, <1>10
  <2>2. d # n + 1
    <3>1. ASSUME d = n + 1 PROVE past_due(log[n + 1], h)
      <4>1. n + 1 \in 1..d
        BY <3>1, <1>6
      <4> QED
        BY <4>1, <1>4
    <3> QED
      BY <3>1, <2>1, <1>9
  <2>3. n = 1 => past_due(backlog[1], h) /\ d # 0 /\ t > backlog[1].lower_time + coinc_window_
    <3>1. ASSUME n = 1 PROVE past_due(backlog[1], h) /\ log[1] = backlog[1]
      BY <3>1, <1>5, <1>8, <1>10
    <3>2. ASSUME n = 1, d = 0 PROVE ~past_due(log[1], h)
      BY <3>2, <2>1, <1>4
    <3> QED
      BY <3>1, <3>2, <1>8
  <2>4. d = n
    BY <2>1, <2>2, <2>3, <1>3, <1>6
  <2>5. Len(log) - d = 1 /\ 1 \in 1..Len(log) - d /\ d + 1 = n + 1
    BY <2>1, <2>4, <1>6
  <2> QED
    BY <2>1, <2>3, <2>5, <1>3, <1>6
<1>11. ASSUME W # {}
       PROVE  /\ n = 1 /\ W = {1} /\ Len(backlog') = 1
              /\ backlog'[1].lower_time = backlog[1].lower_time
              /\ t <= backlog[1].lower_time + coinc_window_
  <2>1. n = 1 /\ W = {1}
    <3>1. PICK i \in W : TRUE
      BY <1>11
    <3>2. i \in 1..n
      BY <3>1, <1>5
    <3>3. n = 1
      BY <3>2, <1>6
    <3>4. \A j \in 1..n : j = 1
      BY <3>3
    <3> QED
      BY <3>1, <3>3, <3>4, <1>5
  <2>2. Len(log) = 1 /\ ~past_due(backlog[1], h)
    BY <2>1, <1>5, <1>8
  <2>3. log[1].lower_time = backlog[1].lower_time
    <3>1. log[1] = backlog[1] \/ log[1] = addHit(backlog[1], h)
      BY <2>1, <1>5
    <3> QED
      BY <3>1, <2>1, <1>7, EventFields DEF h
  <2>4. d = 0
    <3>1. ASSUME d = 1 PROVE past_due(backlog[1], h)
      BY <3>1, <2>3, <1>4 DEF past_due
    <3> QED
      BY <3>1, <2>2, <1>3
  <2>5. Len(backlog') = 1 /\ backlog'[1] = log[1]
    BY <2>2, <2>4, <1>3
  <2>6. t <= backlog[1].lower_time + coinc_window_
    BY <2>1, <2>2, <1>1, <1>2, <1>7, <1>8
  <2> QED
    BY <2>1, <2>3, <2>5, <2>6
<1> QED
  BY <1>1, <1>2, <1>3, <1>10, <1>11 DEF h, n, W

LEMMA OrderStep ==
  ASSUME SmallTypes, LogTypes, HitInv, EvictInv, OrderInv,
         NEW c \in Channels, NEW t \in clock..MaxTime, Accepts(c, t), Hit(c, t) \in Hits
  PROVE  OrderInv'
<1> DEFINE h == Hit(c, t)
           m == Len(evicted)
           n == Len(backlog)
           k == Len(All)
           W == InWindow(h)
           T == Taking(h)
<1>1. clock' = t /\ (InOrder' <=> InOrder)
  BY DEF Accepts, InOrder
<1>2. SUFFICES ASSUME InOrder
               PROVE  /\ Len(backlog') <= 1
                      /\ backlog' # <<>>
                      /\ \A g \in Range(pushed') : g.timestamp <= t
                      /\ \A i \in 1..Len(backlog') :
                           /\ backlog'[i].lower_time <= t
                           /\ \A g \in Range(pushed') :
                                g.timestamp <= backlog'[i].lower_time + coinc_window_
                      /\ \A i, j \in 1..Len(All') : All'[i].hits \cap All'[j].hits # {} => i = j
                      /\ CoincidentHitsMeet'
  BY <1>1, Zenon DEF OrderInv
<1>3. /\ t \in Nat /\ clock \in Nat /\ clock <= t /\ h.timestamp = t
      /\ backlog' \in Seq(Events) /\ Len(backlog') = 1
      /\ W = {} => /\ backlog'[1] = NewEvent(h)
                   /\ backlog = <<>> \/ (n = 1 /\ t > backlog[1].lower_time + coinc_window_)
      /\ W # {} => /\ n = 1 /\ W = {1}
                   /\ backlog'[1].lower_time = backlog[1].lower_time
                   /\ t <= backlog[1].lower_time + coinc_window_
  BY <1>2, OneOpen
<1>4. /\ k \in Nat /\ Len(All') = IF W = {} THEN k + 1 ELSE k
      /\ \A i \in 1..k : All[i] \in Events
      /\ W = {} => All'[k + 1].hits = {h} /\ All'[k + 1].lower_time = h.timestamp
      /\ \A i \in 1..k : /\ All'[i].lower_time = All[i].lower_time
                         /\ i \in T => All'[i].hits = All[i].hits \cup {h}
                         /\ i \notin T => All'[i].hits = All[i].hits
      /\ Range(pushed') = Range(pushed) \cup {h}
  BY <1>3, HitsAfter
<1>5. /\ backlog = <<>> => pushed = <<>>
      /\ \A g \in Range(pushed) : g.timestamp <= clock
      /\ \A i \in 1..n : /\ backlog[i].lower_time <= clock
                         /\ \A g \in Range(pushed) :
                              g.timestamp <= backlog[i].lower_time + coinc_window_
      /\ \A i, j \in 1..k : All[i].hits \cap All[j].hits # {} => i = j
      /\ \A i \in 1..k, g \in Range(pushed) :
           in_window(All[i], g) => HasChannel(All[i], g.channel)
      /\ Len(backlog) <= 1
  <2>1. DOMAIN All = 1..k
    <3>1. All \in Seq(Events)
      BY <1>3, After
    <3> QED
      BY <3>1, Elements
  <2> QED
    BY <1>2, <2>1, Zenon DEF OrderInv, CoincidentHitsMeet
<1>6. /\ evicted \in Seq(Events) /\ backlog \in Seq(Events) /\ m \in Nat /\ n \in Nat
      /\ k = m + n
      /\ \A i \in 1..m : All[i] = evicted[i]
      /\ \A i \in 1..n : All[m + i] = backlog[i]
      /\ \A i \in 1..m + n : i \in 1..m \/ \E j \in 1..n : i = m + j
  <2>1. evicted \in Seq(Events) /\ backlog \in Seq(Events)
    BY DEF LogTypes
  <2> QED
    BY <2>1, Behind DEF All
<1>7. pushed \in Seq(Hits) /\ \A g \in Range(pushed) : g \in Hits /\ g.timestamp \in Nat
  <2>1. pushed \in Seq(Hits)
    BY DEF LogTypes
  <2>2. Range(pushed) \subseteq Hits
    BY <2>1, Elements
  <2> QED
    BY <2>1, <2>2, HitFields
<1>8. h \notin Range(pushed)
  <2>1. ASSUME NEW i \in 1..Len(pushed), pushed[i] = h PROVE FALSE
    <3>1. pushed[i].id = i /\ h.id = Len(pushed) + 1
      BY DEF HitInv, Hit
    <3>2. Len(pushed) \in Nat
      BY <1>7, Elements
    <3> QED
      BY <3>1, <3>2, <2>1
  <2> QED
    BY <2>1, <1>7, Elements
<1>9. /\ W = {} => T = {}
      /\ \A i \in T : i = m + 1
      /\ \A j \in W : m + j \in T \/ HasChannel(backlog[j], h.channel)
  <2>1. T = {i \in m + 1..m + n : i - m \in W \ Piled(h)}
    BY DEF Taking
  <2>2. \A j \in W : m + j \in T \/ HasChannel(backlog[j], h.channel)
    BY TakingIs
  <2>3. W # {} => W = {1}
    BY <1>3
  <2> HIDE DEF W, T, m, n, h
  <2>4. \A i \in T : i = m + 1
    BY <2>1, <2>3, <1>6
  <2> QED
    BY <2>1, <2>2, <2>4
<1>10. coinc_window_ \in Nat
  BY CoincidenceAssumption
<1>11. h.channel = c /\ NewEvent(h).lower_time = h.timestamp /\ h \in Hits
  BY DEF Hit, NewEvent
<1> HIDE DEF h, m, n, k, W, T
<1>12. \A i \in 1..Len(All') : i \in 1..k \/ (i = k + 1 /\ W = {})
  BY <1>4
<1>13. \A g \in Range(pushed') : g.timestamp <= t
  BY <1>3, <1>4, <1>5, <1>7
<1>14. backlog' # <<>>
  BY <1>3, Elements
<1>15. /\ backlog'[1].lower_time <= t
       /\ \A g \in Range(pushed') : g.timestamp <= backlog'[1].lower_time + coinc_window_
  <2>1. CASE W = {}
    <3>1. backlog'[1].lower_time = t
      BY <2>1, <1>3, <1>11
    <3>2. \A g \in Range(pushed') : g.timestamp \in Nat /\ g.timestamp <= t
      BY <1>3, <1>4, <1>7, <1>13
    <3> QED
      BY <3>1, <3>2, <1>3, <1>10
  <2>2. CASE W # {}
    <3>1. n = 1 /\ 1 \in 1..n
      BY <2>2, <1>3
    <3>2. backlog[1].lower_time \in Nat
      BY <3>1, <1>6, Elements, EventFields DEF n
    <3>3. /\ backlog[1].lower_time <= clock
          /\ \A g \in Range(pushed) : g.timestamp <= backlog[1].lower_time + coinc_window_
      BY <3>1, <1>5
    <3> QED
      BY <2>2, <3>2, <3>3, <1>3, <1>4
  <2> QED
    BY <2>1, <2>2
<1>16. \A i, j \in 1..Len(All') : All'[i].hits \cap All'[j].hits # {} => i = j
  <2> SUFFICES ASSUME NEW i \in 1..Len(All'), NEW j \in 1..Len(All'),
                      NEW x \in All'[i].hits, x \in All'[j].hits
               PROVE  i = j
    OBVIOUS
  <2>1. CASE x = h
    <3>1. \A l \in 1..k : h \notin All[l].hits
      BY <1>8 DEF HitInv, k
    <3>2. \A l \in 1..Len(All') : h \in All'[l].hits => l \in T \/ (l = k + 1 /\ W = {})
      BY <3>1, <1>4, <1>12
    <3> QED
      BY <2>1, <3>2, <1>9
  <2>2. CASE x # h
    <3>1. \A l \in 1..Len(All') : x \in All'[l].hits => l \in 1..k /\ x \in All[l].hits
      BY <2>2, <1>4, <1>12
    <3>2. i \in 1..k /\ j \in 1..k /\ All[i].hits \cap All[j].hits # {}
      BY <3>1
    <3> QED
      BY <3>2, <1>5
  <2> QED
    BY <2>1, <2>2
<1>17. ASSUME NEW i \in 1..Len(All'), NEW g \in Range(pushed'), in_window(All'[i], g)
       PROVE  HasChannel(All'[i], g.channel)
  <2>1. CASE i = k + 1 /\ W = {}
    <3>1. All'[i].hits = {h} /\ All'[i].lower_time = t
      BY <2>1, <1>3, <1>4
    <3>2. ASSUME g # h PROVE FALSE
      <4>1. g \in Range(pushed) /\ g.timestamp >= t /\ g.timestamp \in Nat
        BY <3>1, <3>2, <1>4, <1>7, <1>17 DEF in_window
      <4>2. backlog # <<>>
        BY <4>1, <1>5, <1>7, Elements
      <4>3. n = 1 /\ t > backlog[1].lower_time + coinc_window_ /\ 1 \in 1..n
        BY <2>1, <4>2, <1>3
      <4>4. g.timestamp <= backlog[1].lower_time + coinc_window_ /\ backlog[1].lower_time \in Nat
        BY <4>1, <4>3, <1>5, <1>6, Elements, EventFields DEF n
      <4> QED
        BY <4>1, <4>3, <4>4, <1>3, <1>10
    <3> QED
      BY <3>1, <3>2 DEF HasChannel
  <2>2. CASE i \in 1..k
    <3>1. in_window(All[i], g) /\ All[i].hits \subseteq All'[i].hits
      BY <2>2, <1>4, <1>17 DEF in_window
    <3>2. HasChannel(All[i], g.channel) => HasChannel(All'[i], g.channel)
      BY <3>1 DEF HasChannel
    <3>3. CASE g # h
      BY <2>2, <3>1, <3>2, <3>3, <1>4, <1>5
    <3>4. CASE g = h /\ i \in 1..m
      <4>1. All[i] \in Range(evicted) /\ All[i] \in Events
        BY <3>4, <2>2, <1>4, <1>6, Elements DEF m
      <4>2. WholeTicks
        BY <1>2, CoincidenceAssumption DEF InOrder, WholeTicks
      <4>3. clock > All[i].lower_time + coinc_window_ /\ All[i].lower_time \in Nat
        BY <4>1, <4>2, <1>3, EventFields, CoincidenceAssumption DEF EvictInv, CutOff
      <4> QED
        BY <3>1, <3>4, <4>3, <1>3, <1>10 DEF in_window
    <3>5. CASE g = h /\ i \notin 1..m
      <4>1. PICK j \in 1..n : i = m + j
        BY <3>5, <2>2, <1>6
      <4>2. j = 1 /\ n = 1 /\ 1 \in 1..n
        <5>1. n <= 1
          BY <1>5, Zenon DEF n
        <5> QED
          BY <5>1, <4>1, <1>6
      <4>3. All[i] = backlog[1] /\ i = m + 1
        BY <4>1, <4>2, <1>6
      <4>4. backlog[1].lower_time \in Nat /\ t <= backlog[1].lower_time + coinc_window_
        <5>1. backlog[1].lower_time \in Nat
          BY <4>2, <1>6, Elements, EventFields DEF n
        <5> QED
          BY <5>1, <4>3, <3>1, <3>5, <1>3, <1>10 DEF in_window
      <4>5. 1 \in W
        <5>1. ASSUME W = {} PROVE FALSE
          <6>1. backlog # <<>>
            <7>1. backlog = <<>> => n = 0
              BY <1>6, Elements DEF n
            <7> QED
              BY <7>1, <4>2
          <6> QED
            BY <5>1, <6>1, <4>4, <1>3, <1>10
        <5> QED
          BY <5>1, <1>3
      <4>6. CASE i \in T
        <5>1. h \in All'[i].hits
          BY <2>2, <4>6, <1>4
        <5> QED
          BY <5>1, <3>5 DEF HasChannel
      <4>7. CASE HasChannel(backlog[1], h.channel)
        BY <3>2, <3>5, <4>3, <4>7
      <4> QED
        BY <4>3, <4>5, <4>6, <4>7, <1>9
    <3> QED
      BY <3>3, <3>4, <3>5
  <2> QED
    BY <2>1, <2>2, <1>12
<1>18. CoincidentHitsMeet'
  <2>1. DOMAIN All' = 1..Len(All')
    <3>1. evicted' \in Seq(Events)
      BY <1>3, Moved DEF h
    <3>2. All' \in Seq(Events)
      BY <3>1, <1>3, Behind DEF All
    <3> QED
      BY <3>2, Elements
  <2> QED
    BY <2>1, <1>17 DEF CoincidentHitsMeet
<1>19. \A i \in 1..Len(backlog') : i = 1
  BY <1>3
<1> QED
  BY <1>3, <1>13, <1>14, <1>15, <1>16, <1>18, <1>19

-----------------------------------------------------------------------------
(* The invariant is inductive: the other steps, and all together           *)

LEMMA Quiet ==
  ASSUME Inv, clock' \in clock..MaxTime, energy_idx_' \subseteq Channels,
         flushed' \in {flushed, total_events_}, total_events_' = total_events_,
         UNCHANGED <<delay_ns_, backlog, pushed, evicted, pileups>>
  PROVE  Inv'
<1>1. clock \in 0..MaxTime /\ MaxTime \in Nat /\ clock' \in 0..MaxTime /\ clock <= clock'
  BY CoincidenceAssumption DEF Inv, SmallTypes
<1>2. SmallTypes'
  BY <1>1 DEF Inv, SmallTypes
<1>3. LogTypes'
  BY DEF Inv, LogTypes
<1>4. All' = All
  BY DEF All
<1>5. Len(evicted) \in Nat /\ backlog \in Seq(Events) /\ evicted \in Seq(Events) /\ pushed \in Seq(Hits)
  BY Elements DEF Inv, LogTypes
<1>6. CountInv'
  <2>1. total_events_ \in 0..Len(evicted) /\ flushed \in 0..total_events_
    BY DEF Inv, CountInv
  <2>2. flushed' \in 0..total_events_'
    BY <2>1, <1>5
  <2> QED
    BY <2>1, <2>2 DEF Inv, CountInv
<1>7. HitInv'
  BY <1>4 DEF Inv, HitInv
<1>8. EvictInv'
  <2>1. ASSUME NEW e \in Range(evicted)
        PROVE  clock' + CutOff > e.lower_time + coinc_window_
    <3>1. e.lower_time \in Nat /\ CutOff \in Nat
      BY <1>5, Elements, EventFields, CoincidenceAssumption DEF CutOff
    <3>2. clock + CutOff > e.lower_time + coinc_window_
      BY DEF Inv, EvictInv
    <3> QED
      BY <3>1, <3>2, <1>1, CoincidenceAssumption
  <2>2. CutOff' = CutOff
    BY DEF CutOff, WholeTicks
  <2> QED
    BY <2>1, <2>2 DEF EvictInv
<1>9. OrderInv'
  <2>1. InOrder' <=> InOrder
    BY DEF InOrder
  <2>2. ASSUME InOrder, NEW h \in Range(pushed) PROVE h.timestamp <= clock'
    <3>1. h.timestamp \in Nat
      BY <1>5, Elements, HitFields
    <3>2. h.timestamp <= clock
      BY <2>2 DEF Inv, OrderInv
    <3> QED
      BY <3>1, <3>2, <1>1
  <2>3. ASSUME InOrder, NEW i \in 1..Len(backlog) PROVE backlog[i].lower_time <= clock'
    <3>1. backlog[i].lower_time \in Nat
      BY <1>5, Elements, EventFields
    <3>2. backlog[i].lower_time <= clock
      BY <2>3 DEF Inv, OrderInv
    <3> QED
      BY <3>1, <3>2, <1>1
  <2>4. CoincidentHitsMeet' <=> CoincidentHitsMeet
    BY <1>4 DEF CoincidentHitsMeet, in_window, HasChannel
  <2> QED
    BY <2>1, <2>2, <2>3, <2>4, <1>4 DEF Inv, OrderInv
<1> QED
  BY <1>2, <1>3, <1>6, <1>7, <1>8, <1>9 DEF Inv

LEMMA InitInv == Init => Inv
<1> SUFFICES ASSUME Init PROVE Inv
  OBVIOUS
<1>1. /\ delay_ns_ \in Delays /\ backlog = <<>> /\ evicted = <<>> /\ pushed = <<>>
      /\ pileups = {} /\ energy_idx_ = {} /\ total_events_ = 0 /\ flushed = 0 /\ clock = 0
  BY DEF Init
<1>2. /\ <<>> \in Seq(Events) /\ <<>> \in Seq(Hits) /\ <<>> \in Seq({})
      /\ Len(<<>>) = 0 /\ 1..0 = {} /\ 0..0 = {0}
  OBVIOUS
<1>3. Range(evicted) = {} /\ Range(pushed) = {}
  BY <1>1 DEF Range
<1>4. All = <<>> /\ DOMAIN All = {}
  BY <1>1 DEF All
<1>5. SmallTypes
  BY <1>1, CoincidenceAssumption DEF SmallTypes
<1>6. LogTypes
  BY <1>1, <1>2 DEF LogTypes
<1>7. CountInv
  BY <1>1, <1>2, CoincidenceAssumption DEF CountInv
<1>8. HitInv
  BY <1>1, <1>2, <1>3, <1>4 DEF HitInv
<1>9. EvictInv
  BY <1>3 DEF EvictInv
<1>10. OrderInv
  <2>1. CoincidentHitsMeet
    BY <1>4 DEF CoincidentHitsMeet
  <2> QED
    BY <2>1, <1>1, <1>2, <1>3, <1>4 DEF OrderInv
<1> QED
  BY <1>5, <1>6, <1>7, <1>8, <1>9, <1>10 DEF Inv

LEMMA AcceptStep ==
  ASSUME Inv, NEW c \in Channels, NEW t \in clock..MaxTime, Accepts(c, t)
  PROVE  Inv'
<1>1. t \in Nat /\ clock \in Nat /\ MaxTime \in Nat /\ t \in 0..MaxTime
  BY CoincidenceAssumption DEF Inv, SmallTypes
<1>2. SmallTypes /\ LogTypes /\ CountInv /\ HitInv /\ EvictInv /\ OrderInv
  BY DEF Inv
<1>3. Hit(c, t) \in Hits
  BY <1>1, <1>2, NewHit DEF Accepts
<1>4. SmallTypes'
  BY <1>1, <1>2 DEF SmallTypes, Accepts
<1>5. LogTypes'
  <2>1. backlog' \in Seq(Events) /\ evicted' \in Seq(Events)
    BY <1>1, <1>2, <1>3, Moved
  <2>2. pushed' \in Seq(Hits)
    <3>1. pushed \in Seq(Hits) /\ pushed' = Append(pushed, Hit(c, t))
      BY <1>2 DEF LogTypes, Accepts
    <3> QED
      BY <3>1, <1>3, Appended
  <2>3. pileups' \subseteq Hits
    BY <1>2, <1>3 DEF LogTypes, Accepts
  <2> QED
    BY <2>1, <2>2, <2>3 DEF LogTypes
<1>6. CountInv' /\ HitInv'
  BY <1>1, <1>2, <1>3, CountStep, HitStep
<1>7. EvictInv' /\ OrderInv'
  BY <1>2, <1>3, EvictStep, OrderStep
<1> QED
  BY <1>4, <1>5, <1>6, <1>7 DEF Inv

LEMMA NextInv == ASSUME Inv, [Next]_vars PROVE Inv'
<1>1. clock \in 0..MaxTime /\ MaxTime \in Nat /\ clock \in clock..MaxTime
      /\ energy_idx_ \subseteq Channels
  BY CoincidenceAssumption DEF Inv, SmallTypes
<1>2. ASSUME NEW c \in Channels, NEW t \in clock..MaxTime, NEW low \in BOOLEAN, PushHit(c, t, low)
      PROVE  Inv'
  <2>1. CASE Accepts(c, t)
    BY <1>2, <2>1, AcceptStep
  <2>2. CASE clock' = t /\ UNCHANGED <<delay_ns_, backlog, energy_idx_, total_events_, flushed,
                                       pushed, evicted, pileups>>
    BY <1>1, <2>2, Quiet
  <2> QED
    BY <1>2, <2>1, <2>2, PushSplits
<1>3. ASSUME NEW c \in Channels, PushStats(c) PROVE Inv'
  BY <1>1, <1>3, Quiet DEF PushStats
<1>4. CASE Flush
  BY <1>1, <1>4, Quiet DEF Flush
<1>5. CASE UNCHANGED vars
  BY <1>1, <1>5, Quiet DEF vars
<1> QED
  BY <1>2, <1>3, <1>4, <1>5 DEF Next

(***************************************************************************)
(* Types, counts, and where the hits and events are, in every state of     *)
(* sinks/spectrum.cpp.                                                     *)
(***************************************************************************)
THEOREM Invariance == Spec => []Inv
<1>1. Inv /\ [Next]_vars => Inv'
  BY NextInv
<1> QED
  BY InitInv, <1>1, PTL DEF Spec

-----------------------------------------------------------------------------
(* What it gives                                                           *)

LEMMA Typed == ASSUME Inv PROVE TypeOK
<1>1. /\ backlog \in Seq(Events) /\ evicted \in Seq(Events)
      /\ Len(backlog) \in Nat /\ Len(evicted) \in Nat /\ Len(pushed) \in Nat
  BY Elements DEF Inv, LogTypes
<1>2. ASSUME NEW e \in Range(backlog \o evicted) PROVE OnePerChannel(e)
  <2>1. /\ Len(All) = Len(evicted) + Len(backlog)
        /\ \A i \in 1..Len(evicted) : All[i] = evicted[i]
        /\ \A i \in 1..Len(backlog) : All[Len(evicted) + i] = backlog[i]
    BY <1>1, Behind DEF All
  <2>2. PICK i \in 1..Len(backlog \o evicted) : (backlog \o evicted)[i] = e
    <3>1. backlog \o evicted \in Seq(Events)
      BY <1>1, Behind
    <3> QED
      BY <3>1, <1>2, Elements
  <2>3. \/ \E j \in 1..Len(backlog) : e = backlog[j]
        \/ \E j \in 1..Len(evicted) : e = evicted[j]
    BY <2>2, <1>1, Behind
  <2>4. \E j \in 1..Len(All) : e = All[j]
    <3>1. ASSUME NEW j \in 1..Len(backlog), e = backlog[j]
          PROVE  Len(evicted) + j \in 1..Len(All) /\ e = All[Len(evicted) + j]
      BY <3>1, <2>1, <1>1
    <3>2. ASSUME NEW j \in 1..Len(evicted), e = evicted[j]
          PROVE  j \in 1..Len(All) /\ e = All[j]
      BY <3>2, <2>1, <1>1
    <3> QED
      BY <3>1, <3>2, <2>3
  <2> QED
    BY <2>4 DEF Inv, HitInv
<1>3. total_events_ \in 0..MaxHits /\ flushed \in 0..MaxHits
  <2>1. /\ Len(evicted) + Len(backlog) <= Len(pushed) /\ Len(pushed) <= MaxHits
        /\ total_events_ \in 0..Len(evicted) /\ flushed \in 0..total_events_
    BY DEF Inv, CountInv
  <2> QED
    BY <2>1, <1>1, CoincidenceAssumption
<1> QED
  BY <1>1, <1>2, <1>3 DEF Inv, SmallTypes, LogTypes, TypeOK

(***************************************************************************)
(* _push_hit loses no hit and, without delays, puts none in two events:    *)
(* each is in an event unless it was pile-up.                              *)
(***************************************************************************)
THEOREM HitsAreAccounted == Spec => []HitsAccounted
<1>1. ASSUME Inv PROVE HitsAccounted
  <2>1. TypeOK
    BY <1>1, Typed
  <2>2. DOMAIN All = 1..Len(All)
    <3>1. backlog \in Seq(Events) /\ evicted \in Seq(Events)
      BY <1>1 DEF Inv, LogTypes
    <3>2. All \in Seq(Events)
      BY <3>1, Behind DEF All
    <3> QED
      BY <3>2, Elements
  <2>3. ASSUME NEW h \in Range(pushed) PROVE EventsOf(h) = {} <=> h \in pileups
    BY <1>1, <2>2 DEF Inv, HitInv, EventsOf
  <2>4. ASSUME NEW h \in Range(pushed), InOrder PROVE Cardinality(EventsOf(h)) <= 1
    <3>1. \A i, j \in EventsOf(h) : i = j
      <4>1. \A i, j \in 1..Len(All) : All[i].hits \cap All[j].hits # {} => i = j
        BY <1>1, <2>4 DEF Inv, OrderInv
      <4> QED
        BY <4>1, <2>2 DEF EventsOf
    <3>2. EventsOf(h) = {} \/ \E i : EventsOf(h) = {i}
      BY <3>1, Zenon
    <3>3. CASE EventsOf(h) = {}
      BY <3>3, FS_EmptySet
    <3>4. ASSUME NEW i, EventsOf(h) = {i} PROVE Cardinality(EventsOf(h)) <= 1
      <4>1. Cardinality({i}) = 1
        BY FS_Singleton
      <4> QED
        BY <3>4, <4>1
    <3> QED
      BY <3>2, <3>3, <3>4
  <2> QED
    BY <2>1, <2>3, <2>4 DEF HitsAccounted
<1> QED
  BY <1>1, Invariance, PTL

(***************************************************************************)
(* Without delays the coincidences found are all there are, whatever the   *)
(* window and the times of the hits.                                       *)
(***************************************************************************)
THEOREM OrderedHitsDoMeet == Spec => []OrderedHitsMeet
<1>1. ASSUME Inv PROVE OrderedHitsMeet
  BY <1>1 DEF Inv, OrderInv, OrderedHitsMeet
<1> QED
  BY <1>1, Invariance, PTL

(***************************************************************************)
(* Whatever the delays: no event leaves the backlog that a later hit could *)
(* have joined, but one in the last tick of its window, if a delay is not  *)
(* a whole number of ticks.                                                *)
(***************************************************************************)
THEOREM EvictedAreComplete == Spec => EvictedIsComplete
<1> DEFINE Done == \A h \in Range(pushed') \ Range(pushed) : \A e \in Range(evicted) :
                     in_window(e, h) => ~WholeTicks /\ InLastTick(e, h)
<1>1. ASSUME Inv, [Next]_vars PROVE [Done]_vars
  <2>1. ASSUME NEW c \in Channels, NEW t \in clock..MaxTime, Accepts(c, t) PROVE Done
    <3>1. t \in Nat /\ clock \in Nat /\ t >= clock /\ SmallTypes /\ LogTypes
      BY <1>1, CoincidenceAssumption DEF Inv, SmallTypes
    <3>2. Hit(c, t) \in Hits /\ Hit(c, t).timestamp = delayed(c, t) /\ delayed(c, t) >= t
          /\ delayed(c, t) \in Nat
      BY <2>1, <3>1, NewHit, Delayed DEF Accepts
    <3>3. Range(pushed') = Range(pushed) \cup {Hit(c, t)}
      <4>1. pushed \in Seq(Hits) /\ pushed' = Append(pushed, Hit(c, t))
        BY <2>1, <3>1 DEF LogTypes, Accepts
      <4> QED
        BY <4>1, <3>2, Appended
    <3>4. ASSUME NEW e \in Range(evicted), in_window(e, Hit(c, t))
          PROVE  ~WholeTicks /\ InLastTick(e, Hit(c, t))
      <4>1. e.lower_time \in Nat
        <5>1. evicted \in Seq(Events)
          BY <3>1 DEF LogTypes
        <5> QED
          BY <5>1, Elements, EventFields
      <4>2. clock + CutOff > e.lower_time + coinc_window_
        BY <1>1 DEF Inv, EvictInv
      <4>3. Hit(c, t).timestamp <= e.lower_time + coinc_window_
        BY <3>2, <3>4, <4>1, CoincidenceAssumption DEF in_window
      <4>4. ~WholeTicks /\ CutOff = Tick /\ Tick \in Nat
        BY <3>1, <3>2, <4>1, <4>2, <4>3, CoincidenceAssumption DEF CutOff
      <4>5. Hit(c, t).timestamp + Tick > e.lower_time + coinc_window_
        BY <3>1, <3>2, <4>1, <4>2, <4>4, CoincidenceAssumption
      <4> QED
        BY <4>4, <4>5 DEF InLastTick
    <3> QED
      BY <3>3, <3>4
  <2>2. ASSUME pushed' = pushed PROVE Done
    BY <2>2
  <2>3. ASSUME NEW c \in Channels, NEW t \in clock..MaxTime, NEW low \in BOOLEAN, PushHit(c, t, low)
        PROVE  Done
    <3> HIDE DEF Done
    <3> QED
      BY <2>1, <2>2, <2>3, PushSplits
  <2>4. ASSUME NEW c \in Channels, PushStats(c) PROVE pushed' = pushed
    BY <2>4 DEF PushStats
  <2>5. ASSUME Flush PROVE pushed' = pushed
    BY <2>5 DEF Flush
  <2> HIDE DEF Done
  <2> QED
    BY <1>1, <2>2, <2>3, <2>4, <2>5 DEF Next
<1> QED
  BY <1>1, Invariance, PTL DEF Spec, EvictedIsComplete
=============================================================================
