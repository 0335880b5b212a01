--------------------------- MODULE FittingProofs ---------------------------
(***************************************************************************)
(* Proofs about what fits a spectrum.  First FitRegions, for any spectrum, *)
(* finder, shapes and ranges: no edit of a region loses its history, a     *)
(* region shows its current fit and is found under its ID unless it was    *)
(* moved, and a saved project gives its regions back, but for sums that    *)
(* are not settled.  Then FitterThread, for any number of regions and of   *)
(* edits: types, and, while no mishap has come (edits while busy, a        *)
(* refusal, a stop that found nothing to stop, a command seen between the  *)
(* two looks at action_), that no signal is behind the form, and that      *)
(* results are shown unless an edit was made before its parameters were    *)
(* stored.                                                                 *)
(***************************************************************************)
EXTENDS FitRegions, FitterThread, WellFoundedInduction, TLAPS

-----------------------------------------------------------------------------
(* What is true of each region                                             *)

\* A peak is fitted, or a sum that is found under its centre.
IsPeak(c, e) == e \in Shapes \/ (e \in SumType /\ Centroid(e) = c)

PeaksType ==
  {p \in UNION {[P -> Shapes \cup SumType] : P \in SUBSET Bin} :
     \A c \in DOMAIN p : IsPeak(c, p[c])}

FitType == [lb : Edge, rb : Edge, peaks : PeaksType, own : BOOLEAN]

ROIType == [lo : Bin, hi : -1 .. Bins - 1, lb : Edge, rb : Edge, peaks : PeaksType,
            own : BOOLEAN, fits : Seq(FitType), cur : Nat,
            moved : BOOLEAN, unsaved : BOOLEAN]

CurIs(r) == r.cur \in (IF r.fits = << >> THEN {0} ELSE DOMAIN r.fits)

Shown(r) == r.fits # << >> /\ ~r.unsaved => FitOf(r) = r.fits[r.cur]

Good(r) == r \in ROIType /\ CurIs(r) /\ Shown(r)

\* What an edit makes of a region: its history is continued.
Kept(r, n) == Good(n) /\ IsPrefix(r.fits, n.fits)

\* ... and it stays where it is.
InPlace(r, n) == n.lo = r.lo /\ n.hi = r.hi /\ n.moved = r.moved

\* What an edit does before it saves: peaks, edges and settings change.
Redrawn(r, n) == n \in ROIType /\ n.fits = r.fits /\ n.cur = r.cur

\* The map's key leads to the region, unless it was moved in place.
Placed(k, r) == k = ID(r) \/ r.moved

IInv ==
  /\ DOMAIN regions \subseteq -1 .. Bins - 1
  /\ \A k \in DOMAIN regions : Good(regions[k]) /\ Placed(k, regions[k])
  /\ acts \in 0 .. MaxActs

LEMMA Constants ==
  /\ Bins \in Nat /\ Bins > 0 /\ Samples \in Nat /\ MaxActs \in Nat
  /\ 0 \in Bin /\ 0 \in -1 .. Bins - 1 /\ -1 \in -1 .. Bins - 1
BY FitAssumption DEF Bin

\* The ranges of the user and of the finder.
LEMMA RangesAre ==
  ASSUME NEW d \in Ranges \cup Visible
  PROVE  d \in Edge /\ d[1] \in Bin /\ d[2] \in Bin /\ d[1] < d[2]
BY FitAssumption DEF Edge

-----------------------------------------------------------------------------
(* Smallest and largest keys                                               *)

LEMMA SmallestIs ==
  ASSUME NEW S, S \subseteq -1 .. Bins - 1, S # {}
  PROVE  \E m \in S : \A x \in S : m <= x
<1> DEFINE T == {x + 1 : x \in S}
<1>1. \A x \in S : x \in Int /\ x >= -1 /\ x + 1 \in Nat
  BY Constants
<1>2. T \subseteq Nat /\ T # {}
  BY <1>1
<1>3. PICK y \in T : \A z \in T : ~(<<z, y>> \in OpToRel(<, Nat))
  <2> HIDE DEF T
  <2> QED
    BY <1>2, WFMin, NatLessThanWellFounded
<1>4. PICK m \in S : y = m + 1
  BY <1>3
<1>5. \A x \in S : ~(x + 1 < m + 1)
  <2>1. \A x \in S : x + 1 \in T /\ x + 1 \in Nat
    BY <1>1
  <2> QED
    BY <1>3, <1>4, <2>1 DEF OpToRel
<1> QED
  BY <1>1, <1>5

LEMMA LargestIs ==
  ASSUME NEW S, S \subseteq -1 .. Bins - 1, S # {}
  PROVE  \E m \in S : \A x \in S : x <= m
<1> DEFINE T == {Bins - 2 - x : x \in S}
<1>1. \A x \in S : x \in Int /\ -1 <= x /\ x <= Bins - 1 /\ Bins - 2 - x \in -1 .. Bins - 1
  BY Constants
<1>2. T \subseteq -1 .. Bins - 1 /\ T # {}
  BY <1>1
<1>3. PICK y \in T : \A z \in T : y <= z
  <2> HIDE DEF T
  <2> QED
    BY <1>2, SmallestIs
<1>4. PICK m \in S : y = Bins - 2 - m
  BY <1>3
<1>5. \A x \in S : Bins - 2 - m <= Bins - 2 - x
  BY <1>3, <1>4
<1> QED
  BY <1>1, <1>5, Constants

-----------------------------------------------------------------------------
(* Histories                                                               *)

LEMMA SamePrefix ==
  ASSUME NEW S, NEW s \in Seq(S)
  PROVE  IsPrefix(s, s)
BY DEF IsPrefix

LEMMA AppendPrefix ==
  ASSUME NEW S, NEW s \in Seq(S), NEW e \in S
  PROVE  IsPrefix(s, Append(s, e))
<1>1. SubSeq(s, 1, Len(s)) = s
  OBVIOUS
<1>2. SubSeq(Append(s, e), 1, Len(s)) = s
  OBVIOUS
<1> QED
  BY <1>1, <1>2 DEF IsPrefix

LEMMA TwoPrefixes ==
  ASSUME NEW S, NEW s \in Seq(S), NEW t \in Seq(S), NEW u \in Seq(S),
         IsPrefix(s, t), IsPrefix(t, u)
  PROVE  IsPrefix(s, u)
<1>1. Len(s) \in Nat /\ Len(t) \in Nat /\ Len(u) \in Nat /\ Len(s) <= Len(t) /\ Len(t) <= Len(u)
  BY DEF IsPrefix
<1>2. \A i \in 1 .. Len(s) : SubSeq(s, 1, Len(s))[i] = s[i] /\ SubSeq(t, 1, Len(s))[i] = t[i]
  BY <1>1
<1>3. \A i \in 1 .. Len(t) : SubSeq(t, 1, Len(t))[i] = t[i] /\ SubSeq(u, 1, Len(t))[i] = u[i]
  BY <1>1
<1>4. \A i \in 1 .. Len(s) : s[i] = t[i] /\ t[i] = u[i]
  BY <1>1, <1>2, <1>3 DEF IsPrefix
<1>5. SubSeq(s, 1, Len(s)) = SubSeq(u, 1, Len(s))
  BY <1>1, <1>4
<1> QED
  BY <1>1, <1>5 DEF IsPrefix

-----------------------------------------------------------------------------
(* Peaks: a map from bins to shapes and sums                               *)

LEMMA PeaksOf ==
  ASSUME NEW p \in PeaksType
  PROVE  /\ DOMAIN p \subseteq Bin /\ p = [c \in DOMAIN p |-> p[c]]
         /\ \A c \in DOMAIN p : IsPeak(c, p[c])
BY DEF PeaksType

LEMMA PeaksAre ==
  ASSUME NEW P \in SUBSET Bin, NEW p, p = [c \in P |-> p[c]], \A c \in P : IsPeak(c, p[c])
  PROVE  p \in PeaksType
<1>1. \A c \in P : p[c] \in Shapes \cup SumType
  BY DEF IsPeak
<1>2. p \in [P -> Shapes \cup SumType] /\ DOMAIN p = P
  BY <1>1
<1> QED
  BY <1>2 DEF PeaksType

LEMMA NoPeaksAre == NoPeaks \in PeaksType
<1>1. NoPeaks = [c \in {} |-> NoPeaks[c]]
  BY DEF NoPeaks
<1> QED
  BY <1>1, PeaksAre

LEMMA PutPeak ==
  ASSUME NEW p \in PeaksType, NEW c \in Bin, NEW e, IsPeak(c, e)
  PROVE  Put(p, c, e) \in PeaksType
<1> DEFINE q == Put(p, c, e)
           P == DOMAIN p \cup {c}
<1>1. q = [x \in P |-> q[x]] /\ \A x \in P : q[x] = IF x = c THEN e ELSE p[x]
  BY DEF Put
<1>2. P \in SUBSET Bin /\ \A x \in P : IsPeak(x, q[x])
  BY <1>1, PeaksOf
<1> HIDE DEF q, P
<1>3. q \in PeaksType
  BY <1>1, <1>2, PeaksAre
<1> QED
  BY <1>3 DEF q

LEMMA OverPeaks ==
  ASSUME NEW p \in PeaksType, NEW q \in PeaksType
  PROVE  Over(p, q) \in PeaksType
<1> DEFINE o == Over(p, q)
           P == DOMAIN p \cup DOMAIN q
<1>1. o = [x \in P |-> o[x]] /\ \A x \in P : o[x] = IF x \in DOMAIN p THEN p[x] ELSE q[x]
  BY DEF Over
<1>2. P \in SUBSET Bin /\ \A x \in P : IsPeak(x, o[x])
  BY <1>1, PeaksOf
<1> HIDE DEF o, P
<1>3. o \in PeaksType
  BY <1>1, <1>2, PeaksAre
<1> QED
  BY <1>3 DEF o

LEMMA FewerPeaks ==
  ASSUME NEW p \in PeaksType, NEW P, P \subseteq DOMAIN p
  PROVE  Restrict(p, P) \in PeaksType
<1> DEFINE q == Restrict(p, P)
<1>1. q = [x \in P |-> q[x]] /\ \A x \in P : q[x] = p[x]
  BY DEF Restrict
<1>2. P \in SUBSET Bin /\ \A x \in P : IsPeak(x, q[x])
  BY <1>1, PeaksOf
<1> HIDE DEF q
<1>3. q \in PeaksType
  BY <1>1, <1>2, PeaksAre
<1> QED
  BY <1>3 DEF q

LEMMA FittedPeaks ==
  ASSUME NEW P \in SUBSET Bin, NEW v \in Shapes
  PROVE  [c \in P |-> v] \in PeaksType
<1> DEFINE q == [c \in P |-> v]
<1>1. q = [x \in P |-> q[x]] /\ \A x \in P : IsPeak(x, q[x])
  BY DEF IsPeak
<1> HIDE DEF q
<1>2. q \in PeaksType
  BY <1>1, PeaksAre
<1> QED
  BY <1>2 DEF q

LEMMA OneShape ==
  ASSUME NEW p \in PeaksType, NEW c \in DOMAIN p, NEW v \in Shapes
  PROVE  [p EXCEPT ![c] = v] \in PeaksType
<1> DEFINE q == [p EXCEPT ![c] = v]
           P == DOMAIN p
<1>1. q = [x \in P |-> q[x]] /\ \A x \in P : q[x] = IF x = c THEN v ELSE p[x]
  BY PeaksOf
<1>2. P \in SUBSET Bin /\ \A x \in P : IsPeak(x, q[x])
  BY <1>1, PeaksOf DEF IsPeak
<1> HIDE DEF q, P
<1>3. q \in PeaksType
  BY <1>1, <1>2, PeaksAre
<1> QED
  BY <1>3 DEF q

-----------------------------------------------------------------------------
(* Sums                                                                    *)

\* A sum is over bins, and its centre is a bin.
LEMMA SUM4Is ==
  ASSUME NEW r \in ROIType, NEW d \in Edge
  PROVE  /\ SUM4(r, d) \in SumType /\ Centroid(SUM4(r, d)) \in Bin
         /\ IsPeak(Centroid(SUM4(r, d)), SUM4(r, d))
<1>1. r.lo \in Bin /\ r.hi \in -1 .. Bins - 1 /\ r.lb \in Edge /\ r.rb \in Edge
  BY DEF ROIType
<1>2. d[1] \in Bin /\ d[2] \in Bin /\ <<0, 0>> \in Edge
  BY Constants DEF Edge
<1>3. ASSUME width(r) # 0, NEW v \in Bin
      PROVE  near(r, v) \in Bin
  <2>1. r.hi \in Bin
    BY <1>1, <1>3 DEF width, Bin
  <2> QED
    BY <1>1, <1>3, <2>1 DEF near
<1>4. SUM4(r, d) \in SumType
  <2>1. CASE width(r) = 0
    BY <1>2, <2>1 DEF SUM4, NoSum, SumType
  <2>2. CASE width(r) # 0
    <3>1. <<near(r, d[1]), near(r, d[2])>> \in Edge
      BY <1>2, <1>3, <2>2 DEF Edge
    <3> QED
      BY <1>1, <2>2, <3>1 DEF SUM4, SumType
  <2> QED
    BY <2>1, <2>2
<1> QED
  BY <1>4, FitAssumption DEF IsPeak

\* A peak that is taken anew is a peak under its new centre.
LEMMA AnewIs ==
  ASSUME NEW r \in ROIType, NEW c \in Bin, NEW e, IsPeak(c, e)
  PROVE  CentreOf(r, c, e) \in Bin /\ IsPeak(CentreOf(r, c, e), Anew(r, e))
<1>1. CASE e \in Shapes
  BY <1>1 DEF CentreOf, Anew, IsPeak
<1>2. CASE e \notin Shapes
  <2>1. e.over \in Edge
    BY <1>2 DEF IsPeak, SumType
  <2> QED
    BY <1>2, <2>1, SUM4Is DEF CentreOf, Anew
<1> QED
  BY <1>1, <1>2

\* Each peak of the new map is one of the old one, taken anew.
LEMMA ResummedFrom ==
  ASSUME NEW r, NEW p, DOMAIN p \subseteq Bin, NEW n \in DOMAIN Resummed(r, p)
  PROVE  \E c \in DOMAIN p : n = CentreOf(r, c, p[c]) /\ Resummed(r, p)[n] = Anew(r, p[c])
<1> DEFINE S    == SameCentre(r, p, n)
           last == CHOOSE c \in S : \A b \in S : b <= c
<1>1. DOMAIN Resummed(r, p) = {CentreOf(r, c, p[c]) : c \in DOMAIN p}
  BY DEF Resummed
<1>2. S # {} /\ S \subseteq -1 .. Bins - 1
  BY <1>1 DEF SameCentre, Bin
<1>3. \E c \in S : \A b \in S : b <= c
  <2> HIDE DEF S
  <2> QED
    BY <1>2, LargestIs
<1>4. last \in S
  BY <1>3
<1>5. Resummed(r, p)[n] = Anew(r, p[last])
  BY <1>1 DEF Resummed
<1> QED
  BY <1>4, <1>5 DEF SameCentre

LEMMA ResummedIs ==
  ASSUME NEW r \in ROIType, NEW p \in PeaksType
  PROVE  Resummed(r, p) \in PeaksType
<1> DEFINE q == Resummed(r, p)
           P == DOMAIN q
<1>1. DOMAIN p \subseteq Bin /\ \A c \in DOMAIN p : IsPeak(c, p[c])
  BY PeaksOf
<1>2. q = [n \in P |-> q[n]]
  BY DEF Resummed
<1>3. \A n \in P : n \in Bin /\ IsPeak(n, q[n])
  BY <1>1, ResummedFrom, AnewIs
<1> HIDE DEF q, P
<1>4. q \in PeaksType
  BY <1>2, <1>3, PeaksAre
<1> QED
  BY <1>4 DEF q

\* Peaks that stay as they are where they are.
LEMMA ResummedSame ==
  ASSUME NEW r, NEW p \in PeaksType,
         \A c \in DOMAIN p : CentreOf(r, c, p[c]) = c /\ Anew(r, p[c]) = p[c]
  PROVE  Resummed(r, p) = p
<1> DEFINE q == Resummed(r, p)
<1>1. DOMAIN p \subseteq Bin /\ p = [c \in DOMAIN p |-> p[c]]
  BY PeaksOf
<1>2. DOMAIN q = {CentreOf(r, c, p[c]) : c \in DOMAIN p} /\ q = [n \in DOMAIN q |-> q[n]]
  BY DEF Resummed
<1>3. DOMAIN q = DOMAIN p
  BY <1>2
<1>4. \A n \in DOMAIN q : q[n] = p[n]
  BY <1>1, ResummedFrom
<1> HIDE DEF q
<1>5. q = p
  BY <1>1, <1>2, <1>3, <1>4
<1> QED
  BY <1>5 DEF q

\* What was taken anew once stays, as long as the bins and the edges do.
LEMMA ResummedTwice ==
  ASSUME NEW r \in ROIType, NEW p \in PeaksType
  PROVE  Resummed(r, Resummed(r, p)) = Resummed(r, p)
<1> DEFINE q == Resummed(r, p)
<1>1. DOMAIN p \subseteq Bin /\ \A c \in DOMAIN p : IsPeak(c, p[c])
  BY PeaksOf
<1>2. q \in PeaksType
  BY ResummedIs
<1>3. ASSUME NEW n \in DOMAIN q
      PROVE  CentreOf(r, n, q[n]) = n /\ Anew(r, q[n]) = q[n]
  <2>1. PICK c \in DOMAIN p : n = CentreOf(r, c, p[c]) /\ q[n] = Anew(r, p[c])
    BY <1>1, ResummedFrom
  <2> HIDE DEF q
  <2>2. CASE p[c] \in Shapes
    BY <2>1, <2>2 DEF CentreOf, Anew
  <2>3. CASE p[c] \notin Shapes
    <3> DEFINE d == p[c].over
               s == SUM4(r, d)
    <3>1. p[c] \in SumType
      BY <1>1, <2>3 DEF IsPeak
    <3>2. d \in Edge
      BY <3>1 DEF SumType
    <3>3. s \in SumType /\ s \notin Shapes
      BY <3>2, SUM4Is, FitAssumption
    <3>4. SUM4(r, s.over) = s
      <4>1. CASE width(r) = 0
        BY <4>1 DEF SUM4
      <4>2. CASE width(r) # 0
        <5>1. r.lo \in Int /\ r.hi \in Int /\ r.lo <= r.hi
          BY <4>2 DEF ROIType, width, Bin
        <5>2. \A v \in Int : near(r, near(r, v)) = near(r, v)
          BY <5>1 DEF near
        <5>3. d[1] \in Int /\ d[2] \in Int
          BY <3>2 DEF Edge, Bin
        <5>4. s.over[1] = near(r, d[1]) /\ s.over[2] = near(r, d[2])
          BY <4>2 DEF SUM4
        <5>5. near(r, s.over[1]) = near(r, d[1]) /\ near(r, s.over[2]) = near(r, d[2])
          BY <5>2, <5>3, <5>4
        <5> QED
          BY <4>2, <5>5 DEF SUM4
      <4> QED
        BY <4>1, <4>2
    <3>5. q[n] = s /\ n = Centroid(s)
      BY <2>1, <2>3 DEF CentreOf, Anew
    <3> HIDE DEF s, d
    <3> QED
      BY <3>3, <3>4, <3>5 DEF CentreOf, Anew
  <2> QED
    BY <2>2, <2>3
<1> HIDE DEF q
<1>4. Resummed(r, q) = q
  BY <1>2, <1>3, ResummedSame
<1> QED
  BY <1>4 DEF q

-----------------------------------------------------------------------------
(* Saving                                                                  *)

LEMMA FitOfIs ==
  ASSUME NEW r \in ROIType
  PROVE  FitOf(r) \in FitType
BY DEF FitOf, FitType, ROIType

\* Whatever was changed before, the region is as its new current fit says.
LEMMA Saved ==
  ASSUME NEW r, NEW n, Redrawn(r, n)
  PROVE  Kept(r, save_current_fit(n)) /\ InPlace(n, save_current_fit(n))
<1> DEFINE s == save_current_fit(n)
           f == FitOf(n)
<1>1. n \in ROIType /\ n.fits = r.fits /\ f \in FitType
  BY FitOfIs DEF Redrawn
<1>2. n.fits \in Seq(FitType) /\ Len(n.fits) \in Nat
  BY <1>1 DEF ROIType
<1>3. /\ Append(n.fits, f) \in Seq(FitType) /\ Append(n.fits, f) # << >>
      /\ Len(n.fits) + 1 \in Nat /\ Len(n.fits) + 1 \in DOMAIN Append(n.fits, f)
      /\ Append(n.fits, f)[Len(n.fits) + 1] = f
  BY <1>1, <1>2
<1>4. s \in ROIType
  BY <1>1, <1>3 DEF ROIType, save_current_fit
<1>5. /\ s.fits = Append(n.fits, f) /\ s.cur = Len(n.fits) + 1
      /\ s.lo = n.lo /\ s.hi = n.hi /\ s.moved = n.moved
      /\ s.lb = n.lb /\ s.rb = n.rb /\ s.peaks = n.peaks /\ s.own = n.own
  BY <1>1 DEF ROIType, save_current_fit
<1>6. CurIs(s)
  BY <1>3, <1>5 DEF CurIs
<1>7. Shown(s)
  BY <1>3, <1>5 DEF Shown, FitOf
<1>8. IsPrefix(r.fits, s.fits)
  BY <1>1, <1>2, <1>5, AppendPrefix
<1> QED
  BY <1>4, <1>5, <1>6, <1>7, <1>8 DEF Kept, Good, InPlace

\* A way out without saving leaves the history and says so.
LEMMA NotSaved ==
  ASSUME NEW r, NEW n, Redrawn(r, n), CurIs(r)
  PROVE  Kept(r, Unsaved(n)) /\ InPlace(n, Unsaved(n))
<1> DEFINE s == Unsaved(n)
<1>1. n \in ROIType /\ n.fits = r.fits /\ n.cur = r.cur /\ n.fits \in Seq(FitType)
  BY DEF Redrawn, ROIType
<1>2. s \in ROIType
  BY <1>1 DEF ROIType, Unsaved
<1>3. /\ s.fits = n.fits /\ s.cur = n.cur /\ s.unsaved
      /\ s.lo = n.lo /\ s.hi = n.hi /\ s.moved = n.moved
  BY <1>1 DEF ROIType, Unsaved
<1>4. IsPrefix(r.fits, s.fits)
  BY <1>1, <1>3, SamePrefix
<1> QED
  BY <1>1, <1>2, <1>3, <1>4 DEF Kept, Good, CurIs, Shown, InPlace

\* One edit after another.
LEMMA Twice ==
  ASSUME NEW r, NEW m, NEW n, r \in ROIType, Kept(r, m), Kept(m, n)
  PROVE  Kept(r, n)
<1>1. r.fits \in Seq(FitType) /\ m.fits \in Seq(FitType) /\ n.fits \in Seq(FitType)
  BY DEF Kept, Good, ROIType
<1> QED
  BY <1>1, TwoPrefixes DEF Kept

LEMMA Unchanged ==
  ASSUME NEW r, Good(r)
  PROVE  Kept(r, r) /\ InPlace(r, r) /\ Redrawn(r, r) /\ r \in ROIType
<1>1. r.fits \in Seq(FitType)
  BY DEF Good, ROIType
<1> QED
  BY <1>1, SamePrefix DEF Kept, InPlace, Redrawn, Good

-----------------------------------------------------------------------------
(* Fits                                                                    *)

LEMMA WithPeaks ==
  ASSUME NEW r \in ROIType, NEW p \in PeaksType
  PROVE  LET n == [r EXCEPT !.peaks = p]
         IN Redrawn(r, n) /\ InPlace(r, n) /\ n.peaks = p
BY DEF Redrawn, InPlace, ROIType

LEMMA RebuiltIs ==
  ASSUME NEW r \in ROIType, NEW n \in Rebuilt(r)
  PROVE  Redrawn(r, n) /\ InPlace(r, n)
<1> DEFINE fitted == Fitted(r)
           sums   == Resummed(r, Restrict(r.peaks, DOMAIN r.peaks \ fitted))
<1>1. PICK v \in Shapes, old \in {NoPeaks, r.peaks} :
        n = [r EXCEPT !.peaks = Over([c \in fitted |-> v], Over(sums, old))]
  BY DEF Rebuilt
<1>2. r.peaks \in PeaksType /\ old \in PeaksType
  BY NoPeaksAre DEF ROIType
<1>3. [c \in fitted |-> v] \in PeaksType
  <2>1. fitted \in SUBSET Bin
    BY <1>2, PeaksOf DEF Fitted
  <2> HIDE DEF fitted
  <2> QED
    BY <2>1, FittedPeaks
<1>4. sums \in PeaksType
  <2> HIDE DEF fitted
  <2>1. Restrict(r.peaks, DOMAIN r.peaks \ fitted) \in PeaksType
    BY <1>2, FewerPeaks
  <2> QED
    BY <2>1, ResummedIs
<1> HIDE DEF fitted, sums
<1>5. Over([c \in fitted |-> v], Over(sums, old)) \in PeaksType
  BY <1>2, <1>3, <1>4, OverPeaks
<1> QED
  BY <1>1, <1>5, WithPeaks

LEMMA FromResidIs ==
  ASSUME NEW r \in ROIType, NEW n \in FromResid(r)
  PROVE  Redrawn(r, n) /\ InPlace(r, n)
<1>1. PICK c \in Inside(r), v \in Shapes :
        n \in Rebuilt([r EXCEPT !.peaks = Put(r.peaks, c, v)])
  BY DEF FromResid
<1>2. r.peaks \in PeaksType
  BY DEF ROIType
<1>3. c \in Bin /\ IsPeak(c, v)
  BY FitAssumption DEF Inside, IsPeak
<1>4. Put(r.peaks, c, v) \in PeaksType
  BY <1>2, <1>3, PutPeak
<1> DEFINE m == [r EXCEPT !.peaks = Put(r.peaks, c, v)]
<1>5. Redrawn(r, m) /\ InPlace(r, m)
  BY <1>4, WithPeaks
<1>6. Redrawn(m, n) /\ InPlace(m, n)
  <2> HIDE DEF m
  <2>1. n \in Rebuilt(m) /\ m \in ROIType
    BY <1>1, <1>5 DEF m, Redrawn
  <2> QED
    BY <2>1, RebuiltIs
<1> HIDE DEF m
<1> QED
  BY <1>5, <1>6 DEF Redrawn, InPlace

\* a region that is saved where it is, after its peaks were changed
LEMMA SavedInPlace ==
  ASSUME NEW r, NEW n, Redrawn(r, n), InPlace(r, n)
  PROVE  Kept(r, save_current_fit(n)) /\ InPlace(r, save_current_fit(n))
BY Saved DEF InPlace

\* auto_fit() forgets the peaks but no fit.
LEMMA AutoFittedIs ==
  ASSUME NEW r \in ROIType, CurIs(r), NEW n \in AutoFitted(r)
  PROVE  Kept(r, n) /\ InPlace(r, n)
<1> DEFINE Save(P, v) == save_current_fit([r EXCEPT !.peaks = [c \in P |-> v]])
           First == {Save(P, v) : P \in SUBSET Inside(r) \ {{}}, v \in Shapes}
           More  == UNION {{save_current_fit(m) : m \in FromResid(f)} : f \in First}
<1>1. ASSUME NEW f \in First
      PROVE  Kept(r, f) /\ InPlace(r, f)
  <2>1. PICK P \in SUBSET Inside(r), v \in Shapes :
          f = save_current_fit([r EXCEPT !.peaks = [c \in P |-> v]])
    <3> HIDE DEF Save
    <3>1. PICK P \in SUBSET Inside(r), v \in Shapes : f = Save(P, v)
      BY <1>1
    <3> QED
      BY <3>1 DEF Save
  <2>2. P \in SUBSET Bin
    BY FitAssumption DEF Inside
  <2>3. [c \in P |-> v] \in PeaksType
    <3> HIDE DEF Save, First, More
    <3> QED
      BY <2>2, FittedPeaks
  <2> QED
    BY <2>1, <2>3, WithPeaks, SavedInPlace
<1>2. CASE n = Unsaved([r EXCEPT !.peaks = NoPeaks])
  <2>1. Redrawn(r, [r EXCEPT !.peaks = NoPeaks]) /\ InPlace(r, [r EXCEPT !.peaks = NoPeaks])
    BY NoPeaksAre, WithPeaks
  <2> QED
    BY <1>2, <2>1, NotSaved DEF InPlace
<1>3. CASE n \in First
  <2> HIDE DEF First
  <2> QED
    BY <1>1, <1>3
<1>4. CASE n \in More
  <2>1. PICK f \in First : \E m \in FromResid(f) : n = save_current_fit(m)
    <3> HIDE DEF First
    <3> QED
      BY <1>4
  <2>2. PICK m \in FromResid(f) : n = save_current_fit(m)
    BY <2>1
  <2>3. Kept(r, f) /\ InPlace(r, f) /\ f \in ROIType
    <3> HIDE DEF First
    <3> QED
      BY <1>1 DEF Kept, Good
  <2>4. Redrawn(f, m) /\ InPlace(f, m)
    BY <2>3, FromResidIs
  <2>5. Kept(f, n) /\ InPlace(f, n)
    BY <2>2, <2>4, SavedInPlace
  <2> QED
    BY <2>3, <2>5, Twice DEF InPlace
<1>5. AutoFitted(r) = {Unsaved([r EXCEPT !.peaks = NoPeaks])} \cup First \cup More
  BY DEF AutoFitted
<1> HIDE DEF First, More
<1> QED
  BY <1>2, <1>3, <1>4, <1>5

LEMMA RefittedIs ==
  ASSUME NEW r, Good(r), NEW n \in Refitted(r)
  PROVE  Kept(r, n) /\ InPlace(r, n)
<1>1. r \in ROIType /\ CurIs(r)
  BY DEF Good
<1>2. CASE DOMAIN r.peaks = {}
  BY <1>1, <1>2, AutoFittedIs DEF Refitted
<1>3. CASE n = r
  BY <1>3, Unchanged
<1>4. CASE n \in {save_current_fit(m) : m \in Rebuilt(r)}
  BY <1>1, <1>4, RebuiltIs, SavedInPlace
<1> QED
  BY <1>2, <1>3, <1>4 DEF Refitted

-----------------------------------------------------------------------------
(* Edges                                                                   *)

LEMMA IndexIs ==
  ASSUME NEW v \in Int
  PROVE  find_index(v) \in Bin /\ (v \in Bin => find_index(v) = v)
BY Constants DEF find_index, Bin

\* The region is given other bins: all else stays.
LEMMA CloneRangeIs ==
  ASSUME NEW r, NEW n, Redrawn(r, n), NEW left \in Int, NEW right \in Int
  PROVE  LET m == cloneRange(n, left, right)
         IN /\ Redrawn(r, m) /\ m.moved = n.moved
            /\ m.lo = find_index(left) /\ m.hi = find_index(right) - 1
            /\ m.lb = n.lb /\ m.rb = n.rb
            /\ m.own = n.own /\ m.peaks = n.peaks /\ m.unsaved = n.unsaved
<1>1. find_index(left) \in Bin /\ find_index(right) - 1 \in -1 .. Bins - 1
  <2>1. find_index(right) \in Bin
    BY IndexIs
  <2> QED
    BY <2>1, IndexIs, Constants DEF Bin
<1> QED
  BY <1>1 DEF Redrawn, ROIType, cloneRange

LEMMA EdgesAre ==
  ASSUME NEW r, NEW n, Redrawn(r, n)
  PROVE  LET m == init_edges(n)
         IN /\ Redrawn(r, m) /\ InPlace(n, m)
            /\ m.own = n.own /\ m.peaks = n.peaks /\ m.unsaved = n.unsaved
<1> DEFINE s == IF width(n) > 3 * Samples THEN Samples ELSE 0
           m == init_edges(n)
<1>1. n \in ROIType /\ n.lo \in Bin /\ n.hi \in -1 .. Bins - 1
  BY DEF Redrawn, ROIType
<1>2. ASSUME NEW lb \in Edge, NEW rb \in Edge, m = [n EXCEPT !.lb = lb, !.rb = rb]
      PROVE  /\ Redrawn(r, m) /\ InPlace(n, m)
             /\ m.own = n.own /\ m.peaks = n.peaks /\ m.unsaved = n.unsaved
  BY <1>2 DEF Redrawn, InPlace, ROIType
<1>3. CASE width(n) = 0
  <2>1. <<0, 0>> \in Edge
    BY Constants DEF Edge
  <2> QED
    BY <1>2, <1>3, <2>1 DEF init_edges
<1>4. CASE width(n) # 0
  <2>1. n.lo <= n.hi /\ n.lo \in Bin /\ n.hi \in Bin /\ width(n) = n.hi - n.lo + 1
    BY <1>1, <1>4, Constants DEF width, Bin
  <2>2. s \in Nat /\ n.lo + s \in Bin /\ n.hi - s \in Bin
    BY <2>1, Constants DEF Bin
  <2>3. <<n.lo, n.lo + s>> \in Edge /\ <<n.hi - s, n.hi>> \in Edge
    <3> HIDE DEF s
    <3> QED
      BY <2>1, <2>2 DEF Edge
  <2>4. m = [n EXCEPT !.lb = <<n.lo, n.lo + s>>, !.rb = <<n.hi - s, n.hi>>]
    BY <1>4 DEF init_edges
  <2> QED
    <3> DEFINE lb == <<n.lo, n.lo + s>>
               rb == <<n.hi - s, n.hi>>
    <3>1. lb \in Edge /\ rb \in Edge /\ m = [n EXCEPT !.lb = lb, !.rb = rb]
      BY <2>3, <2>4
    <3> HIDE DEF s, lb, rb
    <3> QED
      BY <1>2, <3>1
<1> QED
  BY <1>3, <1>4

LEMMA SetDataIs ==
  ASSUME NEW r, NEW n, Redrawn(r, n), NEW left \in Int, NEW right \in Int
  PROVE  LET m == ROI_set_data(n, left, right)
         IN /\ Redrawn(r, m) /\ m.moved = n.moved
            /\ m.lo = find_index(left) /\ m.hi = find_index(right) - 1
            /\ m.own = n.own /\ m.peaks = n.peaks /\ m.unsaved = n.unsaved
<1> DEFINE c == cloneRange(n, left, right)
<1>1. /\ Redrawn(r, c) /\ c.moved = n.moved
      /\ c.lo = find_index(left) /\ c.hi = find_index(right) - 1
      /\ c.own = n.own /\ c.peaks = n.peaks /\ c.unsaved = n.unsaved
  BY CloneRangeIs
<1>2. ROI_set_data(n, left, right) = init_edges(c)
  BY DEF ROI_set_data
<1> HIDE DEF c
<1> QED
  BY <1>1, <1>2, EdgesAre DEF InPlace

LEMMA LeftBinIs ==
  ASSUME NEW r \in ROIType
  PROVE  /\ left_bin(r) \in -1 .. Bins - 1 /\ right_bin(r) \in -1 .. Bins - 1
         /\ ID(r) = left_bin(r) /\ left_bin(r) \in Int /\ right_bin(r) \in Int
         /\ (r.lo <= r.hi => ID(r) = r.lo /\ left_bin(r) = r.lo /\ width(r) > 0)
         /\ (r.lo > r.hi => ID(r) = -1 /\ width(r) = 0)
<1>1. r.lo \in Bin /\ r.hi \in -1 .. Bins - 1
  BY DEF ROIType
<1> QED
  BY <1>1, Constants DEF left_bin, right_bin, ID, width, Bin

\* A new region has no history and stands at its left edge.
LEMMA NewROIIs ==
  ASSUME NEW left \in Int, NEW right \in Int
  PROVE  LET n == NewROI(left, right)
         IN /\ Good(n) /\ CurIs(n) /\ n \in ROIType /\ ~n.moved
            /\ n.lo = find_index(left) /\ n.hi = find_index(right) - 1
<1>1. /\ EmptyROI \in ROIType /\ ~EmptyROI.moved
      /\ EmptyROI.fits = << >> /\ EmptyROI.cur = 0
  <2>1. <<0, 0>> \in Edge
    BY Constants DEF Edge
  <2>2. << >> \in Seq(FitType)
    OBVIOUS
  <2> QED
    BY <2>1, <2>2, Constants, NoPeaksAre DEF EmptyROI, ROIType
<1>2. Redrawn(EmptyROI, EmptyROI)
  BY <1>1 DEF Redrawn
<1> DEFINE n == ROI_set_data(EmptyROI, left, right)
<1>3. /\ Redrawn(EmptyROI, n) /\ n.moved = EmptyROI.moved
      /\ n.lo = find_index(left) /\ n.hi = find_index(right) - 1
  BY <1>2, SetDataIs
<1> HIDE DEF n
<1>4. n \in ROIType /\ n.fits = << >> /\ n.cur = 0 /\ ~n.moved
  BY <1>1, <1>3 DEF Redrawn
<1>5. Good(n) /\ CurIs(n)
  BY <1>4 DEF Good, CurIs, Shown
<1>6. NewROI(left, right) = n
  BY DEF NewROI, n
<1> QED
  BY <1>3, <1>4, <1>5, <1>6

LEMMA RedrawnTwice ==
  ASSUME NEW r, NEW m, NEW n, Redrawn(r, m), Redrawn(m, n)
  PROVE  Redrawn(r, n)
BY DEF Redrawn

LEMMA CulledIs ==
  ASSUME NEW r \in ROIType
  PROVE  Redrawn(r, cull_peaks(r)) /\ InPlace(r, cull_peaks(r))
<1> DEFINE P == {c \in DOMAIN r.peaks : r.lb[2] < c /\ c < r.rb[1]}
<1>1. r.peaks \in PeaksType
  BY DEF ROIType
<1>2. Restrict(r.peaks, P) \in PeaksType
  BY <1>1, FewerPeaks
<1>3. cull_peaks(r) = [r EXCEPT !.peaks = Restrict(r.peaks, P)]
  BY DEF cull_peaks
<1> HIDE DEF P
<1> QED
  BY <1>2, <1>3, WithPeaks

LEMMA AdjustedIs ==
  ASSUME NEW r, NEW m, Redrawn(r, m), NEW n \in Adjusted(m)
  PROVE  Kept(r, n) /\ InPlace(m, n)
<1> DEFINE c == cull_peaks(m)
<1>1. m \in ROIType /\ c \in ROIType /\ Redrawn(m, c) /\ InPlace(m, c)
  BY CulledIs DEF Redrawn
<1>2. PICK f \in {c} \cup Rebuilt(c) : n = save_current_fit(f)
  BY DEF Adjusted
<1>3. Redrawn(c, f) /\ InPlace(c, f)
  <2>1. Redrawn(c, c) /\ InPlace(c, c)
    BY <1>1 DEF Redrawn, InPlace
  <2> HIDE DEF c
  <2> QED
    BY <1>1, <1>2, <2>1, RebuiltIs
<1>4. Redrawn(r, f) /\ InPlace(m, f)
  <2> HIDE DEF c
  <2> QED
    BY <1>1, <1>3, RedrawnTwice DEF InPlace
<1> QED
  BY <1>2, <1>4, Saved DEF InPlace

\* An adjusted region keeps its history, wherever it begins then.
LEMMA AdjustLBIs ==
  ASSUME NEW r, Good(r), NEW d \in Ranges, NEW n \in adjust_LB(r, d)
  PROVE  Kept(r, n) /\ n.moved = r.moved
<1> DEFINE m == IF d[1] = left_bin(r) THEN r ELSE cloneRange(r, d[1], right_bin(r))
           e == [m EXCEPT !.lb = d]
<1>1. r \in ROIType /\ Redrawn(r, r)
  BY Unchanged
<1>2. d \in Edge /\ d[1] \in Int /\ right_bin(r) \in Int
  BY <1>1, RangesAre, LeftBinIs DEF Bin
<1>3. Redrawn(r, m) /\ m.moved = r.moved
  BY <1>1, <1>2, CloneRangeIs
<1>4. Redrawn(r, e) /\ e.moved = r.moved
  <2> HIDE DEF m
  <2> QED
    BY <1>2, <1>3 DEF Redrawn, ROIType
<1>5. n \in Adjusted(e)
  BY DEF adjust_LB
<1> HIDE DEF e
<1> QED
  BY <1>4, <1>5, AdjustedIs DEF InPlace

LEMMA AdjustRBIs ==
  ASSUME NEW r, Good(r), NEW d \in Ranges, NEW n \in adjust_RB(r, d)
  PROVE  Kept(r, n) /\ n.moved = r.moved
<1> DEFINE m == IF d[2] = right_bin(r) THEN r ELSE cloneRange(r, left_bin(r), d[2])
           e == [m EXCEPT !.rb = d]
<1>1. r \in ROIType /\ Redrawn(r, r)
  BY Unchanged
<1>2. d \in Edge /\ d[2] \in Int /\ left_bin(r) \in Int
  BY <1>1, RangesAre, LeftBinIs DEF Bin
<1>3. Redrawn(r, m) /\ m.moved = r.moved
  BY <1>1, <1>2, CloneRangeIs
<1>4. Redrawn(r, e) /\ e.moved = r.moved
  <2> HIDE DEF m
  <2> QED
    BY <1>2, <1>3 DEF Redrawn, ROIType
<1>5. n \in Adjusted(e)
  BY DEF adjust_RB
<1> HIDE DEF e
<1> QED
  BY <1>4, <1>5, AdjustedIs DEF InPlace

-----------------------------------------------------------------------------
(* Peaks that are added, taken away or replaced                            *)

LEMMA SummedInIs ==
  ASSUME NEW r, NEW m, Redrawn(r, m), NEW d \in Edge
  PROVE  Kept(r, SummedIn(m, d)) /\ InPlace(m, SummedIn(m, d))
<1> DEFINE p == Put(m.peaks, Centroid(SUM4(m, d)), SUM4(m, d))
           e == [m EXCEPT !.peaks = p]
<1>1. m \in ROIType /\ m.peaks \in PeaksType
  BY DEF Redrawn, ROIType
<1>2. p \in PeaksType
  BY <1>1, SUM4Is, PutPeak
<1>3. Redrawn(m, e) /\ InPlace(m, e)
  <2> HIDE DEF p
  <2> QED
    BY <1>1, <1>2, WithPeaks
<1>4. SummedIn(m, d) = save_current_fit(e)
  BY DEF SummedIn
<1> HIDE DEF e, p
<1>5. Redrawn(r, e)
  BY <1>3, RedrawnTwice
<1> QED
  BY <1>3, <1>4, <1>5, Saved DEF InPlace

\* A peak that a fit of the residuals adds.
LEMMA ResidIs ==
  ASSUME NEW r, NEW m, Redrawn(r, m), NEW n,
         n \in {save_current_fit(f) : f \in FromResid(m)}
  PROVE  Kept(r, n) /\ InPlace(m, n)
<1>1. PICK f \in FromResid(m) : n = save_current_fit(f)
  OBVIOUS
<1>2. m \in ROIType
  BY DEF Redrawn
<1>3. Redrawn(m, f) /\ InPlace(m, f)
  BY <1>2, FromResidIs
<1>4. Redrawn(r, f)
  BY <1>3, RedrawnTwice
<1> QED
  BY <1>1, <1>3, <1>4, Saved DEF InPlace

LEMMA StaysPlaced ==
  ASSUME NEW r \in ROIType, NEW n \in ROIType, InPlace(r, n), NEW k, Placed(k, r)
  PROVE  Placed(k, n)
BY LeftBinIs DEF InPlace, Placed, ID, left_bin, width

\* A peak outside of the region makes it grow: it is moved if to the left.
LEMMA AddPeakIs ==
  ASSUME NEW r, Good(r), NEW d \in Ranges, overlapsRange(r, d), NEW n \in AddPeak(r, d),
         NEW k, Placed(k, r)
  PROVE  Kept(r, n) /\ Placed(k, n)
<1> DEFINE l == IF d[1] < r.lo THEN d[1] ELSE r.lo
           h == IF d[2] > r.hi THEN d[2] ELSE r.hi
           m == [r EXCEPT !.moved = r.moved \/ find_index(l) # r.lo]
           g == ROI_set_data(m, l, h)
<1>1. r \in ROIType /\ CurIs(r) /\ Redrawn(r, r) /\ InPlace(r, r)
  BY Unchanged DEF Good
<1>2. d \in Edge /\ d[1] \in Bin /\ d[2] \in Bin /\ d[1] < d[2]
  BY RangesAre
<1>3. r.lo \in Bin /\ r.hi \in Bin /\ r.lo <= r.hi /\ ID(r) = r.lo
  <2>1. width(r) > 0
    BY DEF overlapsRange
  <2>2. r.lo \in Bin /\ r.hi \in -1 .. Bins - 1
    BY <1>1 DEF ROIType
  <2> QED
    BY <1>1, <2>1, <2>2, LeftBinIs DEF width, Bin
<1>4. l \in Bin /\ h \in Bin /\ l \in Int /\ h \in Int
  BY <1>2, <1>3 DEF Bin
<1>5. find_index(l) = l /\ find_index(h) = h
  BY <1>4, IndexIs
<1>6. Redrawn(r, m) /\ m.moved = (r.moved \/ l # r.lo)
  <2> HIDE DEF l
  <2> QED
    BY <1>1, <1>5 DEF Redrawn, ROIType
<1>7. Redrawn(r, g) /\ g.moved = m.moved /\ g.lo = l /\ g.hi = h - 1
  <2> HIDE DEF l, h, m
  <2> QED
    BY <1>4, <1>5, <1>6, SetDataIs
<1>8. g \in ROIType /\ CurIs(g)
  <2> HIDE DEF g
  <2> QED
    BY <1>1, <1>7 DEF Redrawn, CurIs
<1>9. CASE overlaps(r, d[1]) /\ overlaps(r, d[2])
  <2>1. n \in {save_current_fit(f) : f \in FromResid(r)} \/ n = SummedIn(r, d)
    BY <1>9 DEF AddPeak
  <2>2. Kept(r, n) /\ InPlace(r, n)
    BY <1>1, <1>2, <2>1, ResidIs, SummedInIs
  <2> QED
    BY <1>1, <2>2, StaysPlaced DEF Kept, Good
<1>10. CASE ~(overlaps(r, d[1]) /\ overlaps(r, d[2]))
  <2>1. \/ n \in {save_current_fit(f) : f \in FromResid(g)}
        \/ n = SummedIn(g, <<l, h>>) \/ n \in AutoFitted(g)
    BY <1>10 DEF AddPeak
  <2>2. Placed(k, g)
    <3>1. CASE l # r.lo
      BY <1>6, <1>7, <3>1 DEF Placed
    <3>2. CASE r.moved
      BY <1>6, <1>7, <3>2 DEF Placed
    <3>3. CASE l = r.lo /\ ~r.moved
      <4>1. k = r.lo
        BY <1>3, <3>3 DEF Placed
      <4>2. r.lo <= d[1]
        BY <1>2, <1>3, <3>3 DEF Bin
      <4>3. d[2] > r.hi
        BY <1>2, <1>3, <1>10, <4>2 DEF overlapsRange, overlaps, Bin
      <4>4. l <= h - 1
        BY <1>2, <1>3, <3>3, <4>3 DEF Bin
      <4> HIDE DEF g, l, h
      <4> QED
        BY <1>7, <1>8, <3>3, <4>1, <4>4, LeftBinIs DEF Placed
    <3> QED
      BY <3>1, <3>2, <3>3
  <2>3. CASE n \in {save_current_fit(f) : f \in FromResid(g)}
    <3> HIDE DEF g
    <3> QED
      BY <1>7, <2>3, ResidIs, <1>8, <2>2, StaysPlaced DEF Kept, Good
  <2>4. CASE n = SummedIn(g, <<l, h>>)
    <3>1. Kept(r, n) /\ InPlace(g, n)
      <4>1. <<l, h>> \in Edge
        BY <1>4 DEF Edge
      <4> HIDE DEF g, l, h
      <4> QED
        BY <1>7, <2>4, <4>1, SummedInIs
    <3> HIDE DEF g
    <3> QED
      BY <3>1, <1>8, <2>2, StaysPlaced DEF Kept, Good
  <2>5. CASE n \in AutoFitted(g)
    <3> HIDE DEF g
    <3>1. Kept(g, n) /\ InPlace(g, n)
      BY <1>8, <2>5, AutoFittedIs
    <3>2. Kept(r, n)
      BY <3>1, <1>7 DEF Kept, Redrawn
    <3> QED
      BY <3>1, <3>2, <1>8, <2>2, StaysPlaced DEF Kept, Good
  <2> QED
    BY <2>1, <2>3, <2>4, <2>5
<1> QED
  BY <1>9, <1>10

LEMMA WithoutPeaksIs ==
  ASSUME NEW r, Good(r), NEW chosen, NEW n \in WithoutPeaks(r, chosen)
  PROVE  Kept(r, n) /\ InPlace(r, n)
<1> DEFINE e == [r EXCEPT !.peaks = Restrict(r.peaks, DOMAIN r.peaks \ chosen)]
<1>1. r \in ROIType /\ CurIs(r) /\ r.peaks \in PeaksType
  BY DEF Good, ROIType
<1>2. Restrict(r.peaks, DOMAIN r.peaks \ chosen) \in PeaksType
  BY <1>1, FewerPeaks
<1>3. Redrawn(r, e) /\ InPlace(r, e)
  BY <1>1, <1>2, WithPeaks
<1>4. \/ n = save_current_fit(e) \/ n = Unsaved(e)
      \/ n \in {save_current_fit(f) : f \in Rebuilt(e)}
  BY DEF WithoutPeaks
<1> HIDE DEF e
<1>5. CASE n = save_current_fit(e)
  BY <1>3, <1>5, SavedInPlace
<1>6. CASE n = Unsaved(e)
  BY <1>1, <1>3, <1>6, NotSaved DEF InPlace
<1>7. CASE n \in {save_current_fit(f) : f \in Rebuilt(e)}
  <2>1. PICK f \in Rebuilt(e) : n = save_current_fit(f)
    BY <1>7
  <2>2. Redrawn(e, f) /\ InPlace(e, f)
    BY <1>3, RebuiltIs DEF Redrawn
  <2>3. Redrawn(r, f) /\ InPlace(r, f)
    BY <1>3, <2>2, RedrawnTwice DEF InPlace
  <2> QED
    BY <2>1, <2>3, SavedInPlace
<1> QED
  BY <1>4, <1>5, <1>6, <1>7

\* One peak gets another shape.
LEMMA OtherShapeIs ==
  ASSUME NEW r \in ROIType, NEW c \in DOMAIN r.peaks, NEW v \in Shapes,
         NEW n, n = save_current_fit([r EXCEPT !.peaks[c] = v])
  PROVE  Kept(r, n) /\ InPlace(r, n)
<1> DEFINE p == [r.peaks EXCEPT ![c] = v]
<1>1. r.peaks \in PeaksType
  BY DEF ROIType
<1>2. p \in PeaksType
  BY <1>1, OneShape
<1>3. n = save_current_fit([r EXCEPT !.peaks = p])
  OBVIOUS
<1> HIDE DEF p
<1> QED
  BY <1>2, <1>3, WithPeaks, SavedInPlace

LEMMA AdjustSum4Is ==
  ASSUME NEW r, Good(r), NEW c \in DOMAIN r.peaks, NEW d \in Ranges
  PROVE  Kept(r, AdjustSum4(r, c, d)) /\ InPlace(r, AdjustSum4(r, c, d))
<1>1. r \in ROIType /\ r.peaks \in PeaksType /\ d \in Edge
  BY RangesAre DEF Good, ROIType
<1>2. CASE r.peaks[c] \notin Shapes
  <2> DEFINE e == [r EXCEPT !.peaks = Restrict(r.peaks, DOMAIN r.peaks \ {c})]
  <2>1. Restrict(r.peaks, DOMAIN r.peaks \ {c}) \in PeaksType
    BY <1>1, FewerPeaks
  <2>2. Redrawn(r, e) /\ InPlace(r, e)
    BY <1>1, <2>1, WithPeaks
  <2>3. AdjustSum4(r, c, d) = SummedIn(e, d)
    BY <1>2 DEF AdjustSum4
  <2> HIDE DEF e
  <2> QED
    BY <1>1, <2>2, <2>3, SummedInIs DEF InPlace
<1>3. CASE r.peaks[c] \in Shapes
  <2>1. Redrawn(r, r) /\ InPlace(r, r)
    BY Unchanged
  <2> QED
    BY <1>3, <2>1, SavedInPlace DEF AdjustSum4
<1> QED
  BY <1>2, <1>3

LEMMA SettingsAre ==
  ASSUME NEW r, Good(r)
  PROVE  Kept(r, override_settings(r)) /\ InPlace(r, override_settings(r))
<1>1. Redrawn(r, [r EXCEPT !.own = TRUE]) /\ InPlace(r, [r EXCEPT !.own = TRUE])
  BY DEF Good, Redrawn, InPlace, ROIType
<1> QED
  BY <1>1, SavedInPlace DEF override_settings

\* A rollback shows the fit it is to show, with the bins between its edges.
LEMMA RollbackIs ==
  ASSUME NEW r \in ROIType, NEW i \in DOMAIN r.fits
  PROVE  LET n == rollback(r, i)
             f == r.fits[i]
         IN /\ Good(n) /\ n.fits = r.fits /\ n.cur = i
            /\ FitOf(n) = f /\ n.own = f.own
            /\ n.lo = f.lb[1] /\ n.hi = f.rb[2] - 1
            /\ n.moved = (r.moved \/ ID(n) # ID(r))
<1> DEFINE f == r.fits[i]
           m == ROI_set_data(r, f.lb[1], f.rb[2])
           n == rollback(r, i)
<1>1. r.fits \in Seq(FitType) /\ i \in 1 .. Len(r.fits) /\ i \in Nat /\ f \in FitType
  BY DEF ROIType
<1>2. f.lb \in Edge /\ f.rb \in Edge /\ f.peaks \in PeaksType /\ f.own \in BOOLEAN
  BY <1>1 DEF FitType
<1>3. f.lb[1] \in Bin /\ f.rb[2] \in Bin /\ f.lb[1] \in Int /\ f.rb[2] \in Int
  BY <1>2 DEF Edge, Bin
<1>4. /\ Redrawn(r, m) /\ m.moved = r.moved
      /\ m.lo = f.lb[1] /\ m.hi = f.rb[2] - 1
  <2>1. Redrawn(r, r)
    BY DEF Redrawn
  <2>2. find_index(f.lb[1]) = f.lb[1] /\ find_index(f.rb[2]) = f.rb[2]
    BY <1>3, IndexIs
  <2> HIDE DEF f
  <2> QED
    BY <1>3, <2>1, <2>2, SetDataIs
<1>5. n = [m EXCEPT !.lb = f.lb, !.rb = f.rb, !.peaks = f.peaks, !.own = f.own,
                    !.cur = i, !.unsaved = FALSE,
                    !.moved = m.moved \/ left_bin(m) # left_bin(r)]
  BY DEF rollback
<1>6. m \in ROIType /\ m.fits = r.fits
  BY <1>4 DEF Redrawn
<1> HIDE DEF f, m, n
<1>7. n \in ROIType
  BY <1>1, <1>2, <1>5, <1>6 DEF ROIType
<1>8. /\ n.lo = m.lo /\ n.hi = m.hi /\ n.fits = m.fits /\ n.cur = i /\ ~n.unsaved
      /\ n.lb = f.lb /\ n.rb = f.rb /\ n.peaks = f.peaks /\ n.own = f.own
      /\ n.moved = (m.moved \/ left_bin(m) # left_bin(r))
  BY <1>5, <1>6 DEF ROIType
<1>9. FitOf(n) = f
  BY <1>1, <1>8 DEF FitOf, FitType
<1>10. ID(n) = left_bin(m)
  BY <1>8 DEF ID, left_bin, width
<1>11. CurIs(n) /\ Shown(n)
  BY <1>1, <1>6, <1>8, <1>9 DEF CurIs, Shown, f
<1> QED
  BY <1>4, <1>6, <1>7, <1>8, <1>9, <1>10, <1>11 DEF Good, ID, f, n

-----------------------------------------------------------------------------
(* Files                                                                   *)

\* What is written of a region.
LEMMA FileIs ==
  ASSUME NEW r \in ROIType
  PROVE  LET f == to_xml(r)
         IN /\ f.cur = r.cur /\ f.fits \in Seq(FitType) /\ Len(f.fits) = Len(r.fits)
            /\ DOMAIN f.fits = DOMAIN r.fits
            /\ \A i \in DOMAIN r.fits : f.fits[i] = [r.fits[i] EXCEPT !.own = r.own]
<1> DEFINE fits == to_xml(r).fits
<1>1. r.fits \in Seq(FitType) /\ r.own \in BOOLEAN /\ DOMAIN r.fits = 1 .. Len(r.fits)
  BY DEF ROIType
<1>2. DOMAIN fits = 1 .. Len(r.fits)
  BY <1>1 DEF to_xml
<1>3. ASSUME NEW i \in DOMAIN r.fits
      PROVE  fits[i] = [r.fits[i] EXCEPT !.own = r.own] /\ fits[i] \in FitType
  <2>1. FitOf(rollback(r, i)) = r.fits[i]
    BY RollbackIs
  <2>2. fits[i] = [FitOf(rollback(r, i)) EXCEPT !.own = r.own]
    BY DEF to_xml
  <2>3. r.fits[i] \in FitType
    BY <1>1
  <2>4. [r.fits[i] EXCEPT !.own = r.own] \in FitType
    BY <1>1, <2>3 DEF FitType
  <2> QED
    BY <2>1, <2>2, <2>4
<1>4. fits \in [1 .. Len(r.fits) -> FitType]
  <2>1. fits = [i \in 1 .. Len(r.fits) |-> fits[i]]
    BY <1>1 DEF to_xml
  <2> HIDE DEF fits
  <2> QED
    BY <1>1, <1>2, <1>3, <2>1
<1>5. to_xml(r).cur = r.cur
  BY DEF to_xml
<1> HIDE DEF fits
<1>6. fits \in Seq(FitType) /\ Len(fits) = Len(r.fits)
  BY <1>1, <1>2, <1>4
<1> QED
  BY <1>1, <1>2, <1>3, <1>5, <1>6 DEF fits

\* The bins that the peaks of a fit are read with.
LEMMA GroundIs ==
  ASSUME NEW f \in FitType
  PROVE  /\ Ground(f) \in ROIType /\ Ground(f).lo = f.lb[1] /\ Ground(f).hi = f.rb[1] - 1
         /\ Ground(f).lb = f.lb /\ Ground(f).rb = f.rb
<1> DEFINE n == NewROI(f.lb[1], f.rb[1])
<1>1. f.lb \in Edge /\ f.rb \in Edge
  BY DEF FitType
<1>2. f.lb[1] \in Bin /\ f.rb[1] \in Bin /\ f.lb[1] \in Int /\ f.rb[1] \in Int
  BY <1>1 DEF Edge, Bin
<1>3. n \in ROIType /\ n.lo = f.lb[1] /\ n.hi = f.rb[1] - 1
  BY <1>2, NewROIIs, IndexIs
<1>4. Ground(f) = [n EXCEPT !.lb = f.lb, !.rb = f.rb]
  BY DEF Ground, NewROI
<1> HIDE DEF n
<1> QED
  BY <1>1, <1>3, <1>4 DEF ROIType

\* A fit that is read has its edges and its settings, and its peaks are taken
\* anew: once, for they are settled then.
LEMMA ReadFitIs ==
  ASSUME NEW f \in FitType
  PROVE  /\ ReadFit(f) \in FitType
         /\ ReadFit(f).lb = f.lb /\ ReadFit(f).rb = f.rb /\ ReadFit(f).own = f.own
         /\ ReadFit(f).peaks = Resummed(Ground(f), f.peaks)
         /\ ReadFit(ReadFit(f)) = ReadFit(f)
<1> DEFINE p == Resummed(Ground(f), f.peaks)
           g == ReadFit(f)
<1>1. f.peaks \in PeaksType /\ Ground(f) \in ROIType
  BY GroundIs DEF FitType
<1>2. p \in PeaksType /\ Resummed(Ground(f), p) = p
  BY <1>1, ResummedIs, ResummedTwice
<1>3. g = [f EXCEPT !.peaks = p]
  BY DEF ReadFit
<1> HIDE DEF p, g
<1>4. /\ g \in FitType /\ g.lb = f.lb /\ g.rb = f.rb /\ g.own = f.own /\ g.peaks = p
      /\ [g EXCEPT !.peaks = p] = g
  BY <1>2, <1>3 DEF FitType
<1>5. Ground(g) = Ground(f)
  BY <1>4 DEF Ground
<1>6. ReadFit(g) = g
  <2>1. ReadFit(g) = [g EXCEPT !.peaks = Resummed(Ground(g), g.peaks)]
    BY DEF ReadFit
  <2> QED
    BY <1>2, <1>4, <1>5, <2>1
<1> QED
  BY <1>4, <1>6 DEF g, p

\* A sum that is settled is the same when it is taken anew.
LEMMA SettledSame ==
  ASSUME NEW f \in FitType, Settled(f)
  PROVE  Resummed(Ground(f), f.peaks) = f.peaks
<1> DEFINE r == Ground(f)
           p == f.peaks
<1>1. /\ r \in ROIType /\ r.lo = f.lb[1] /\ r.hi = f.rb[1] - 1 /\ r.lb = f.lb /\ r.rb = f.rb
      /\ p \in PeaksType
  BY GroundIs DEF FitType
<1>2. f.lb[1] \in Int /\ f.rb[1] \in Int
  BY DEF FitType, Edge, Bin
<1>3. ASSUME NEW c \in DOMAIN p
      PROVE  CentreOf(r, c, p[c]) = c /\ Anew(r, p[c]) = p[c]
  <2>1. CASE p[c] \in Shapes
    BY <2>1 DEF CentreOf, Anew
  <2>2. CASE p[c] \notin Shapes
    <3> DEFINE s == p[c]
    <3>1. s \in SumType /\ Centroid(s) = c
      BY <1>1, <2>2, PeaksOf DEF IsPeak
    <3>2. /\ s.lb = f.lb /\ s.rb = f.rb
          /\ f.lb[1] <= s.over[1] /\ s.over[1] <= s.over[2] /\ s.over[2] < f.rb[1]
      BY <2>2 DEF Settled
    <3> HIDE DEF s, r
    <3>3. s.over \in Edge /\ s = [over |-> s.over, lb |-> s.lb, rb |-> s.rb]
      BY <3>1 DEF SumType
    <3>4. s.over[1] \in Int /\ s.over[2] \in Int /\ s.over = <<s.over[1], s.over[2]>>
      BY <3>3 DEF Edge, Bin
    <3>5. near(r, s.over[1]) = s.over[1] /\ near(r, s.over[2]) = s.over[2] /\ width(r) # 0
      BY <1>1, <1>2, <3>2, <3>4 DEF near, width
    <3>6. SUM4(r, s.over) = s
      BY <1>1, <3>2, <3>3, <3>4, <3>5 DEF SUM4
    <3> QED
      BY <2>2, <3>1, <3>6 DEF CentreOf, Anew, s
  <2> QED
    BY <2>1, <2>2
<1> HIDE DEF r, p
<1>4. Resummed(r, p) = p
  BY <1>1, <1>3, ResummedSame
<1> QED
  BY <1>4 DEF r, p

LEMMA ReadFitsAre ==
  ASSUME NEW fits \in Seq(FitType)
  PROVE  /\ ReadFits(fits) \in Seq(FitType) /\ Len(ReadFits(fits)) = Len(fits)
         /\ DOMAIN ReadFits(fits) = DOMAIN fits
         /\ \A i \in DOMAIN fits : ReadFits(fits)[i] = ReadFit(fits[i])
<1> DEFINE g == ReadFits(fits)
<1>1. DOMAIN fits = 1 .. Len(fits) /\ Len(fits) \in Nat /\ \A i \in DOMAIN fits : fits[i] \in FitType
  OBVIOUS
<1>2. g = [i \in 1 .. Len(fits) |-> g[i]] /\ \A i \in DOMAIN fits : g[i] = ReadFit(fits[i])
  BY <1>1 DEF ReadFits
<1>3. \A i \in 1 .. Len(fits) : g[i] \in FitType
  BY <1>1, <1>2, ReadFitIs
<1> HIDE DEF g
<1>4. g \in [1 .. Len(fits) -> FitType]
  BY <1>2, <1>3
<1>5. g \in Seq(FitType) /\ Len(g) = Len(fits) /\ DOMAIN g = DOMAIN fits
  BY <1>1, <1>4
<1> QED
  BY <1>2, <1>5 DEF g

\* A region with these fits, of which that one is shown.
Showing(fits, i) == [rollback([EmptyROI EXCEPT !.fits = fits], i) EXCEPT !.moved = FALSE]

LEMMA ShowingIs ==
  ASSUME NEW fits \in Seq(FitType), NEW i \in DOMAIN fits
  PROVE  LET n == Showing(fits, i)
         IN /\ Good(n) /\ n \in ROIType /\ ~n.moved /\ n.fits = fits /\ n.cur = i
            /\ n.own = fits[i].own /\ FitOf(n) = fits[i]
            /\ n.lo = fits[i].lb[1] /\ n.hi = fits[i].rb[2] - 1
<1> DEFINE e == [EmptyROI EXCEPT !.fits = fits]
           n == rollback(e, i)
           o == [n EXCEPT !.moved = FALSE]
<1>1. e \in ROIType /\ e.fits = fits
  <2>1. <<0, 0>> \in Edge
    BY Constants DEF Edge
  <2> QED
    BY <2>1, Constants, NoPeaksAre DEF EmptyROI, ROIType
<1> HIDE DEF e
<1>2. /\ Good(n) /\ n.fits = fits /\ n.cur = i /\ n.own = fits[i].own /\ FitOf(n) = fits[i]
      /\ n.lo = fits[i].lb[1] /\ n.hi = fits[i].rb[2] - 1
  BY <1>1, RollbackIs
<1> HIDE DEF n
<1>3. n \in ROIType
  BY <1>2 DEF Good
<1>4. /\ o \in ROIType /\ ~o.moved /\ o.fits = n.fits /\ o.cur = n.cur /\ o.own = n.own
      /\ o.lo = n.lo /\ o.hi = n.hi /\ o.lb = n.lb /\ o.rb = n.rb /\ o.peaks = n.peaks
      /\ o.unsaved = n.unsaved
  BY <1>3 DEF ROIType
<1> HIDE DEF o
<1>5. Good(o) /\ FitOf(o) = FitOf(n)
  BY <1>2, <1>4 DEF Good, CurIs, Shown, FitOf
<1>6. Showing(fits, i) = o
  BY DEF Showing, o, n, e
<1> QED
  BY <1>2, <1>4, <1>5, <1>6

\* What is read of a region again.
Reread(r) == from_xml(to_xml(r))

LEMMA RereadIs ==
  ASSUME NEW r, Good(r), r.fits # << >>
  PROVE  LET n == Reread(r)
             f == r.fits[r.cur]
         IN /\ Good(n) /\ n \in ROIType /\ ~n.moved /\ n.cur = r.cur /\ n.own = r.own
            /\ n.lo = f.lb[1] /\ n.hi = f.rb[2] - 1
            /\ n.fits # << >> /\ n = Showing(n.fits, n.cur)
            /\ FitOf(n) = n.fits[n.cur]
            /\ Len(n.fits) = Len(r.fits) /\ DOMAIN n.fits = DOMAIN r.fits
            /\ \A i \in DOMAIN r.fits :
                 n.fits[i] = ReadFit([r.fits[i] EXCEPT !.own = r.own])
<1> DEFINE x == to_xml(r)
           y == ReadFits(x.fits)
           n == Showing(y, r.cur)
           Own(i) == [r.fits[i] EXCEPT !.own = r.own]
<1>1. /\ r \in ROIType /\ r.cur \in DOMAIN r.fits /\ r.own \in BOOLEAN
      /\ \A i \in DOMAIN r.fits : r.fits[i] \in FitType
  BY DEF Good, CurIs, ROIType
<1>2. /\ x.cur = r.cur /\ x.fits \in Seq(FitType) /\ Len(x.fits) = Len(r.fits)
      /\ DOMAIN x.fits = DOMAIN r.fits
      /\ \A i \in DOMAIN r.fits : x.fits[i] = Own(i)
  BY <1>1, FileIs
<1>3. \A i \in DOMAIN r.fits : /\ Own(i) \in FitType /\ Own(i).own = r.own
                                /\ Own(i).lb = r.fits[i].lb /\ Own(i).rb = r.fits[i].rb
  BY <1>1 DEF FitType
<1>4. Reread(r) = n
  BY <1>2 DEF Reread, from_xml, Showing
<1> HIDE DEF x, Own
<1>5. /\ y \in Seq(FitType) /\ Len(y) = Len(r.fits) /\ DOMAIN y = DOMAIN r.fits
      /\ \A i \in DOMAIN r.fits : y[i] = ReadFit(Own(i))
  BY <1>2, ReadFitsAre
<1> HIDE DEF y
<1>6. /\ Good(n) /\ n \in ROIType /\ ~n.moved /\ n.fits = y /\ n.cur = r.cur
      /\ n.own = y[r.cur].own /\ FitOf(n) = y[r.cur]
      /\ n.lo = y[r.cur].lb[1] /\ n.hi = y[r.cur].rb[2] - 1
  BY <1>1, <1>5, ShowingIs
<1>7. n = Showing(n.fits, n.cur)
  BY <1>6
<1> HIDE DEF n
<1>8. /\ y[r.cur].own = r.own /\ y[r.cur].lb = r.fits[r.cur].lb
      /\ y[r.cur].rb = r.fits[r.cur].rb
  BY <1>1, <1>3, <1>5, ReadFitIs
<1>9. y # << >>
  BY <1>1, <1>5
<1> QED
  BY <1>4, <1>5, <1>6, <1>7, <1>8, <1>9 DEF Own

\* What was read of a region once is read of it again.
LEMMA RereadTwice ==
  ASSUME NEW r, Good(r), r.fits # << >>
  PROVE  Reread(Reread(r)) = Reread(r)
<1> DEFINE n == Reread(r)
           m == Reread(n)
           Own(i) == [r.fits[i] EXCEPT !.own = r.own]
<1>1. /\ Good(n) /\ n \in ROIType /\ n.cur = r.cur /\ n.own = r.own
      /\ n.fits # << >> /\ n = Showing(n.fits, n.cur)
      /\ DOMAIN n.fits = DOMAIN r.fits
      /\ \A i \in DOMAIN r.fits : n.fits[i] = ReadFit(Own(i))
  BY RereadIs
<1>2. \A i \in DOMAIN r.fits : Own(i) \in FitType /\ Own(i).own = r.own
  <2>1. r.own \in BOOLEAN /\ \A i \in DOMAIN r.fits : r.fits[i] \in FitType
    BY DEF Good, ROIType
  <2> QED
    BY <2>1 DEF FitType
<1> HIDE DEF n, Own
<1>3. /\ m = Showing(m.fits, m.cur) /\ m.cur = n.cur /\ DOMAIN m.fits = DOMAIN n.fits
      /\ m \in ROIType
      /\ \A i \in DOMAIN n.fits : m.fits[i] = ReadFit([n.fits[i] EXCEPT !.own = n.own])
  BY <1>1, RereadIs
<1> HIDE DEF m
<1>4. ASSUME NEW i \in DOMAIN n.fits
      PROVE  m.fits[i] = n.fits[i]
  <2> DEFINE f == ReadFit(Own(i))
  <2>1. n.fits[i] = f /\ f \in FitType /\ f.own = n.own /\ ReadFit(f) = f
    BY <1>1, <1>2, ReadFitIs
  <2> HIDE DEF f
  <2>2. [f EXCEPT !.own = n.own] = f
    BY <2>1 DEF FitType
  <2> QED
    BY <1>3, <2>1, <2>2
<1>5. m.fits = n.fits
  <2>1. m.fits \in Seq(FitType) /\ n.fits \in Seq(FitType)
    BY <1>1, <1>3 DEF ROIType
  <2>2. Len(m.fits) = Len(n.fits) /\ \A i \in 1 .. Len(n.fits) : m.fits[i] = n.fits[i]
    BY <1>3, <1>4, <2>1
  <2> QED
    BY <2>1, <2>2
<1>6. m = n
  BY <1>1, <1>3, <1>5
<1> QED
  BY <1>6 DEF m, n

-----------------------------------------------------------------------------
(* A project that is loaded                                                *)

Valid(rs)    == {k \in Written(rs) : width(Reread(rs[k])) > 0}
Under(rs, n) == {k \in Valid(rs) : ID(Reread(rs[k])) = n}

LEMMA LoadedRegions ==
  ASSUME NEW rs, DOMAIN rs \subseteq -1 .. Bins - 1, NEW n \in DOMAIN Loaded(rs)
  PROVE  \E k \in Under(rs, n) : /\ Loaded(rs)[n] = Reread(rs[k])
                                 /\ \A j \in Under(rs, n) : j <= k
<1> DEFINE last == CHOOSE k \in Under(rs, n) : \A j \in Under(rs, n) : j <= k
<1>1. /\ DOMAIN Loaded(rs) = {ID(Reread(rs[k])) : k \in Valid(rs)}
      /\ Loaded(rs)[n] = Reread(rs[last])
  BY DEF Loaded, Valid, Under, Reread
<1>2. Under(rs, n) # {}
  BY <1>1 DEF Under
<1>3. Under(rs, n) \subseteq -1 .. Bins - 1
  BY DEF Under, Valid, Written
<1>4. \E k \in Under(rs, n) : \A j \in Under(rs, n) : j <= k
  BY <1>2, <1>3, LargestIs
<1>5. last \in Under(rs, n) /\ \A j \in Under(rs, n) : j <= last
  BY <1>4
<1> QED
  BY <1>1, <1>5

LEMMA LoadedDomain ==
  ASSUME NEW rs, NEW k \in Valid(rs)
  PROVE  ID(Reread(rs[k])) \in DOMAIN Loaded(rs) /\ k \in Under(rs, ID(Reread(rs[k])))
BY DEF Loaded, Valid, Under, Reread

LEMMA LoadedIs ==
  ASSUME NEW rs, DOMAIN rs \subseteq -1 .. Bins - 1, \A k \in DOMAIN rs : Good(rs[k]),
         NEW n \in DOMAIN Loaded(rs)
  PROVE  /\ Good(Loaded(rs)[n]) /\ Placed(n, Loaded(rs)[n]) /\ n \in -1 .. Bins - 1
         /\ Loaded(rs)[n].fits # << >> /\ ID(Loaded(rs)[n]) = n /\ width(Loaded(rs)[n]) > 0
         /\ Reread(Loaded(rs)[n]) = Loaded(rs)[n]
<1>1. PICK k \in Under(rs, n) : Loaded(rs)[n] = Reread(rs[k])
  BY LoadedRegions
<1>2. k \in DOMAIN rs /\ rs[k].fits # << >> /\ ID(Reread(rs[k])) = n /\ width(Reread(rs[k])) > 0
  BY DEF Under, Valid, Written
<1>3. Good(Reread(rs[k])) /\ Reread(rs[k]).fits # << >>
  BY <1>2, RereadIs
<1>4. n \in -1 .. Bins - 1
  BY <1>2, <1>3, LeftBinIs DEF Good
<1>5. Reread(Reread(rs[k])) = Reread(rs[k])
  BY <1>2, RereadTwice
<1> QED
  BY <1>1, <1>2, <1>3, <1>4, <1>5 DEF Placed

LEMMA LoadedIsMap ==
  ASSUME NEW rs
  PROVE  Loaded(rs) = [n \in DOMAIN Loaded(rs) |-> Loaded(rs)[n]]
<1> DEFINE D    == {ID(Reread(rs[k])) : k \in Valid(rs)}
           F(n) == Reread(rs[CHOOSE k \in Under(rs, n) : \A j \in Under(rs, n) : j <= k])
<1>1. Loaded(rs) = [n \in D |-> F(n)]
  BY DEF Loaded, Valid, Under, Reread
<1> HIDE DEF D, F
<1> QED
  BY <1>1

\* A project that was loaded, saved and loaded again is as it was.
LEMMA LoadedTwice ==
  ASSUME NEW rs, DOMAIN rs \subseteq -1 .. Bins - 1, \A k \in DOMAIN rs : Good(rs[k])
  PROVE  Loaded(Loaded(rs)) = Loaded(rs)
<1> DEFINE l == Loaded(rs)
           m == Loaded(l)
<1>1. \A n \in DOMAIN l : /\ n \in -1 .. Bins - 1 /\ l[n].fits # << >>
                          /\ ID(l[n]) = n /\ width(l[n]) > 0 /\ Reread(l[n]) = l[n]
  BY LoadedIs
<1>2. l = [n \in DOMAIN l |-> l[n]] /\ m = [n \in DOMAIN m |-> m[n]]
  BY LoadedIsMap
<1>3. DOMAIN m = {ID(Reread(l[k])) : k \in Valid(l)}
  BY DEF Loaded, Valid, Reread
<1> HIDE DEF l
<1>4. Valid(l) = DOMAIN l
  BY <1>1 DEF Valid, Written
<1>5. DOMAIN m = DOMAIN l
  BY <1>1, <1>3, <1>4
<1>6. ASSUME NEW n \in DOMAIN m
      PROVE  m[n] = l[n]
  <2>1. PICK k \in Under(l, n) : m[n] = Reread(l[k])
    BY <1>1, LoadedRegions
  <2>2. k \in DOMAIN l /\ ID(Reread(l[k])) = n
    BY <1>4, <2>1 DEF Under
  <2> QED
    BY <1>1, <2>1, <2>2
<1> HIDE DEF m
<1>7. m = l
  BY <1>2, <1>5, <1>6
<1> QED
  BY <1>7 DEF m, l

LEMMA GivesBack == IInv => LoadGivesBack
<1> SUFFICES ASSUME IInv PROVE LoadGivesBack
  OBVIOUS
<1> DEFINE Start(k) == regions[k].fits[regions[k].cur].lb[1]
           End(k)   == regions[k].fits[regions[k].cur].rb[2]
<1>1. \A k \in DOMAIN regions : Good(regions[k])
  BY DEF IInv
<1>2. DOMAIN regions \subseteq -1 .. Bins - 1
  BY DEF IInv
<1>3. ASSUME NEW k \in Written(regions)
      PROVE  LET n == Reread(regions[k])
             IN /\ Start(k) \in Int /\ End(k) \in Int /\ n \in ROIType
                /\ n.lo = Start(k) /\ n.hi = End(k) - 1
  <2>1. k \in DOMAIN regions /\ regions[k].fits # << >>
    BY DEF Written
  <2>2. Good(regions[k]) /\ regions[k].fits[regions[k].cur] \in FitType
    BY <1>1, <2>1 DEF Good, CurIs, ROIType
  <2>3. Start(k) \in Int /\ End(k) \in Int
    BY <2>2 DEF FitType, Edge, Bin
  <2> QED
    BY <2>1, <2>2, <2>3, RereadIs DEF Good
<1>4. ASSUME NEW k \in Written(regions), ~(Start(k) >= End(k)),
             \A j \in Written(regions) \ {k} : Start(j) # Start(k)
      PROVE  Loaded(regions)[Start(k)] = Reread(regions[k])
  <2> HIDE DEF Start, End
  <2>1. k \in Valid(regions) /\ ID(Reread(regions[k])) = Start(k)
    BY <1>3, <1>4, LeftBinIs DEF Valid
  <2>2. PICK j \in Under(regions, Start(k)) : Loaded(regions)[Start(k)] = Reread(regions[j])
    BY <1>2, <2>1, LoadedDomain, LoadedRegions
  <2>3. j \in Written(regions) /\ width(Reread(regions[j])) > 0 /\ ID(Reread(regions[j])) = Start(k)
    BY DEF Under, Valid
  <2>4. Start(j) = Start(k)
    <3>1. Reread(regions[j]) \in ROIType /\ Reread(regions[j]).lo = Start(j)
      BY <1>3, <2>3
    <3> QED
      BY <2>3, <3>1 DEF ID, left_bin
  <2> QED
    BY <1>4, <2>2, <2>3, <2>4
<1>5. ASSUME NEW k \in Written(regions), ~(Start(k) >= End(k)),
             \A j \in Written(regions) \ {k} : Start(j) # Start(k)
      PROVE  GivenBack(regions[k], Loaded(regions)[Start(k)])
  <2> DEFINE r == regions[k]
             l == Reread(r)
  <2>1. Good(r) /\ r.fits # << >> /\ \A i \in DOMAIN r.fits : r.fits[i] \in FitType
    BY <1>1 DEF Written, Good, ROIType
  <2> HIDE DEF r
  <2>2. /\ l.cur = r.cur /\ l.own = r.own /\ Len(l.fits) = Len(r.fits)
        /\ FitOf(l) = l.fits[l.cur] /\ r.own \in BOOLEAN
        /\ \A i \in DOMAIN r.fits : l.fits[i] = ReadFit([r.fits[i] EXCEPT !.own = r.own])
    BY <2>1, RereadIs DEF Good, ROIType
  <2> HIDE DEF l
  <2>3. ASSUME NEW i \in DOMAIN r.fits
        PROVE  /\ l.fits[i].lb = r.fits[i].lb /\ l.fits[i].rb = r.fits[i].rb
               /\ Settled(r.fits[i]) => l.fits[i].peaks = r.fits[i].peaks
    <3> DEFINE f == r.fits[i]
               g == [f EXCEPT !.own = r.own]
    <3>1. g \in FitType /\ g.lb = f.lb /\ g.rb = f.rb /\ g.peaks = f.peaks
      BY <2>1, <2>2 DEF FitType
    <3>2. l.fits[i] = ReadFit(g)
      BY <2>2
    <3> HIDE DEF f, g
    <3>3. ReadFit(g).lb = g.lb /\ ReadFit(g).rb = g.rb /\ ReadFit(g).peaks = Resummed(Ground(g), g.peaks)
      BY <3>1, ReadFitIs
    <3>4. Settled(f) => Settled(g)
      BY <3>1 DEF Settled
    <3>5. Settled(g) => Resummed(Ground(g), g.peaks) = g.peaks
      BY <3>1, SettledSame
    <3> QED
      BY <3>1, <3>2, <3>3, <3>4, <3>5 DEF f
  <2>4. Loaded(regions)[Start(k)] = l
    BY <1>4, <1>5 DEF l, r
  <2>5. GivenBack(r, l)
    BY <2>2, <2>3 DEF GivenBack
  <2> QED
    BY <2>4, <2>5 DEF r
<1>6. Loaded(Loaded(regions)) = Loaded(regions)
  BY <1>1, <1>2, LoadedTwice
<1> QED
  BY <1>5, <1>6 DEF LoadGivesBack

-----------------------------------------------------------------------------
(* Steps                                                                   *)

\* No history is lost but those of regions that were to go.
Continued ==
  \A k \in DOMAIN regions \ (gone' \cup lost') :
    \E j \in DOMAIN regions' : IsPrefix(regions[k].fits, regions'[j].fits)

Holds == IInv' /\ Continued

LEMMA ActsAre ==
  ASSUME NEW rs, NEW removed, NEW overwritten, IInv, Becomes(rs, removed, overwritten)
  PROVE  /\ acts' \in 0 .. MaxActs
         /\ regions' = rs /\ gone' = removed /\ lost' = overwritten
BY Constants DEF Becomes, IInv

LEMMA RegionIs ==
  ASSUME IInv, NEW k \in DOMAIN regions
  PROVE  /\ Good(regions[k]) /\ Placed(k, regions[k]) /\ regions[k] \in ROIType
         /\ k \in -1 .. Bins - 1 /\ IsPrefix(regions[k].fits, regions[k].fits)
<1>1. Good(regions[k]) /\ Placed(k, regions[k]) /\ regions[k] \in ROIType /\ k \in -1 .. Bins - 1
  BY DEF IInv, Good
<1> QED
  BY <1>1, Unchanged DEF Kept

\* One region is edited and stays where it is, or is told to have moved.
LEMMA TurnsHolds ==
  ASSUME IInv, NEW k \in DOMAIN regions, NEW results, Turns(k, results),
         \A n \in results : Kept(regions[k], n) /\ Placed(k, n)
  PROVE  Holds
<1>1. PICK n \in results : Becomes([regions EXCEPT ![k] = n], {}, {})
  BY DEF Turns
<1>2. /\ acts' \in 0 .. MaxActs
      /\ regions' = [regions EXCEPT ![k] = n] /\ gone' = {} /\ lost' = {}
  BY <1>1, ActsAre
<1>3. DOMAIN regions' = DOMAIN regions /\ regions'[k] = n
      /\ \A j \in DOMAIN regions : j # k => regions'[j] = regions[j]
  BY <1>2
<1>4. Kept(regions[k], n) /\ Placed(k, n) /\ Good(n)
  BY DEF Kept
<1>5. \A j \in DOMAIN regions' : Good(regions'[j]) /\ Placed(j, regions'[j])
  BY <1>3, <1>4, RegionIs
<1>6. \A j \in DOMAIN regions : IsPrefix(regions[j].fits, regions'[j].fits)
  BY <1>3, <1>4, RegionIs DEF Kept
<1>7. DOMAIN regions' \subseteq -1 .. Bins - 1
  BY <1>3 DEF IInv
<1>8. IInv'
  BY <1>2, <1>5, <1>7 DEF IInv, Good, Placed
<1> QED
  BY <1>3, <1>6, <1>8 DEF Holds, Continued

\* A region is put under its ID, among those that stay.
LEMMA InsertedHolds ==
  ASSUME IInv, NEW rs, DOMAIN rs \subseteq DOMAIN regions,
         \A k \in DOMAIN rs : rs[k] = regions[k],
         NEW n, Good(n), NEW removed, NEW overwritten, overwritten = {ID(n)} \cap DOMAIN rs,
         Becomes(Inserted(rs, n), removed, overwritten),
         \A k \in DOMAIN regions \ DOMAIN rs : k \in removed \/ Kept(regions[k], n)
  PROVE  Holds
<1>1. /\ acts' \in 0 .. MaxActs /\ gone' = removed /\ lost' = {ID(n)} \cap DOMAIN rs
      /\ regions' = Inserted(rs, n)
  BY ActsAre
<1>2. /\ DOMAIN regions' = DOMAIN rs \cup {ID(n)} /\ regions'[ID(n)] = n
      /\ \A k \in DOMAIN rs : k # ID(n) => regions'[k] = regions[k]
  BY <1>1 DEF Inserted, Put
<1>3. ID(n) \in -1 .. Bins - 1 /\ Placed(ID(n), n)
  BY LeftBinIs DEF Good, Placed
<1>4. ASSUME NEW k \in DOMAIN regions'
      PROVE  Good(regions'[k]) /\ Placed(k, regions'[k]) /\ k \in -1 .. Bins - 1
  <2>1. CASE k = ID(n)
    BY <1>2, <1>3, <2>1
  <2>2. CASE k # ID(n)
    <3>1. k \in DOMAIN regions /\ regions'[k] = regions[k]
      BY <1>2, <2>2
    <3> QED
      BY <3>1, RegionIs
  <2> QED
    BY <2>1, <2>2
<1>5. IInv'
  BY <1>1, <1>4 DEF IInv, Good, Placed
<1>6. ASSUME NEW k \in DOMAIN regions \ (gone' \cup lost')
      PROVE  \E j \in DOMAIN regions' : IsPrefix(regions[k].fits, regions'[j].fits)
  <2>1. CASE k \in DOMAIN rs
    <3>1. k \in DOMAIN regions' /\ regions'[k] = regions[k]
      BY <1>1, <1>2, <1>6, <2>1
    <3> QED
      BY <3>1, RegionIs
  <2>2. CASE k \notin DOMAIN rs
    <3>1. Kept(regions[k], n)
      BY <1>1, <1>6, <2>2
    <3> QED
      BY <1>2, <3>1 DEF Kept
  <2> QED
    BY <2>1, <2>2
<1> QED
  BY <1>5, <1>6 DEF Holds, Continued

LEMMA ErasedIs ==
  ASSUME NEW keys
  PROVE  LET rs == Erased(regions, keys)
         IN DOMAIN rs = DOMAIN regions \ keys /\ \A k \in DOMAIN rs : rs[k] = regions[k]
BY DEF Erased, Restrict

LEMMA MovedHolds ==
  ASSUME IInv, NEW k \in DOMAIN regions, NEW results, Moved(k, results),
         \A n \in results : Kept(regions[k], n)
  PROVE  Holds
<1> DEFINE rs == Erased(regions, {k})
<1>1. PICK n \in results :
        Becomes(Inserted(rs, n), {}, {ID(n)} \cap (DOMAIN regions \ {k}))
  BY DEF Moved
<1>2. DOMAIN rs = DOMAIN regions \ {k} /\ \A j \in DOMAIN rs : rs[j] = regions[j]
  BY ErasedIs
<1>3. Kept(regions[k], n) /\ Good(n)
  BY DEF Kept
<1>4. Becomes(Inserted(rs, n), {}, {ID(n)} \cap DOMAIN rs)
  BY <1>1, <1>2
<1> HIDE DEF rs
<1>5. \A j \in DOMAIN regions \ DOMAIN rs : j \in {} \/ Kept(regions[j], n)
  BY <1>2, <1>3
<1> QED
  BY <1>2, <1>3, <1>4, <1>5, InsertedHolds

\* A new region found by a fit between any two bins.
LEMMA NewFitted ==
  ASSUME NEW left \in Int, NEW right \in Int, NEW n \in AutoFitted(NewROI(left, right))
  PROVE  Good(n)
BY NewROIIs, AutoFittedIs DEF Kept

LEMMA MergeHolds ==
  ASSUME IInv, NEW left, NEW right, left \in -1 .. Bins - 1, right \in -1 .. Bins - 1,
         MergeRegions(left, right)
  PROVE  Holds
<1> DEFINE found == relevant_regions(left, right) \cap DOMAIN regions
           min   == CHOOSE m \in {left} \cup {left_bin(regions[k]) : k \in found} :
                      /\ m <= left /\ \A k \in found : m <= left_bin(regions[k])
           max   == CHOOSE m \in {right} \cup {right_bin(regions[k]) : k \in found} :
                      /\ m >= right /\ \A k \in found : m >= right_bin(regions[k])
           rest  == Erased(regions, found)
<1>1. PICK n \in AutoFitted(NewROI(min, max)) :
        Becomes(Inserted(rest, n), found, {ID(n)} \cap DOMAIN rest)
  BY DEF MergeRegions
<1>2. \A k \in found : /\ left_bin(regions[k]) \in -1 .. Bins - 1
                       /\ right_bin(regions[k]) \in -1 .. Bins - 1
  BY RegionIs, LeftBinIs
<1>3. min \in Int
  <2> DEFINE S == {left} \cup {left_bin(regions[k]) : k \in found}
  <2>1. S \subseteq -1 .. Bins - 1 /\ S # {}
    <3> HIDE DEF found
    <3> QED
      BY <1>2
  <2>2. PICK m \in S : \A x \in S : m <= x
    <3> HIDE DEF S
    <3> QED
      BY <2>1, SmallestIs
  <2>3. m <= left /\ \A k \in found : m <= left_bin(regions[k])
    BY <2>2
  <2>4. min \in S
    <3> HIDE DEF found
    <3> QED
      BY <2>3
  <2> QED
    <3> HIDE DEF S, min
    <3> QED
      BY <2>1, <2>4
<1>4. max \in Int
  <2> DEFINE S == {right} \cup {right_bin(regions[k]) : k \in found}
  <2>1. S \subseteq -1 .. Bins - 1 /\ S # {}
    <3> HIDE DEF found
    <3> QED
      BY <1>2
  <2>2. PICK m \in S : \A x \in S : x <= m
    <3> HIDE DEF S
    <3> QED
      BY <2>1, LargestIs
  <2>3. m >= right /\ \A k \in found : m >= right_bin(regions[k])
    BY <2>1, <2>2
  <2>4. max \in S
    <3> HIDE DEF found
    <3> QED
      BY <2>3
  <2> QED
    <3> HIDE DEF S, max
    <3> QED
      BY <2>1, <2>4
<1> HIDE DEF min, max
<1>5. Good(n)
  BY <1>1, <1>3, <1>4, NewFitted
<1>6. DOMAIN rest = DOMAIN regions \ found /\ \A k \in DOMAIN rest : rest[k] = regions[k]
  BY ErasedIs
<1>7. \A k \in DOMAIN regions \ DOMAIN rest : k \in found
  BY <1>6
<1> HIDE DEF found, rest
<1> QED
  BY <1>1, <1>5, <1>6, <1>7, InsertedHolds

\* The regions that the finder sees begin at their keys.
LEMMA FoundAre ==
  ASSUME NEW k \in DOMAIN find_regions
  PROVE  LET r == find_regions[k]
         IN /\ Good(r) /\ CurIs(r) /\ r \in ROIType /\ Placed(k, r)
            /\ k \in -1 .. Bins - 1
<1> DEFINE d == CHOOSE e \in Visible : e[1] = k
<1>1. d \in Visible /\ d[1] = k
  BY DEF find_regions
<1>2. find_regions[k] = NewROI(k, d[2])
  BY DEF find_regions
<1> HIDE DEF d
<1>3. k \in Bin /\ d[2] \in Bin /\ k < d[2] /\ k \in Int /\ d[2] \in Int
  BY <1>1, RangesAre DEF Bin
<1>4. find_index(k) = k /\ find_index(d[2]) = d[2]
  BY <1>3, IndexIs
<1> DEFINE n == NewROI(k, d[2])
<1>5. Good(n) /\ CurIs(n) /\ n \in ROIType /\ n.lo = k /\ n.hi = d[2] - 1
  BY <1>3, <1>4, NewROIIs
<1> HIDE DEF n
<1>6. Placed(k, n) /\ k \in -1 .. Bins - 1
  <2>1. n.lo <= n.hi
    BY <1>3, <1>5
  <2> QED
    BY <1>3, <1>5, <2>1, LeftBinIs DEF Placed, Bin
<1> QED
  BY <1>2, <1>5, <1>6 DEF n

LEMMA PerformFitHolds == ASSUME IInv, PerformFit PROVE Holds
<1>1. PICK fit \in FitPeaks : Becomes(fit, DOMAIN regions, {})
  BY DEF PerformFit
<1>2. /\ acts' \in 0 .. MaxActs /\ regions' = fit /\ gone' = DOMAIN regions
  BY <1>1, ActsAre
<1>3. DOMAIN fit = DOMAIN find_regions
  BY DEF FitPeaks
<1>4. ASSUME NEW k \in DOMAIN fit
      PROVE  Good(fit[k]) /\ Placed(k, fit[k]) /\ k \in -1 .. Bins - 1
  <2> DEFINE r == find_regions[k]
  <2>1. k \in DOMAIN find_regions
    BY <1>3
  <2>2. Good(r) /\ CurIs(r) /\ r \in ROIType /\ Placed(k, r) /\ k \in -1 .. Bins - 1
    BY <2>1, FoundAre
  <2>3. fit[k] = r \/ fit[k] \in AutoFitted(r)
    BY <2>1 DEF FitPeaks
  <2>4. CASE fit[k] = r
    BY <2>2, <2>4
  <2>5. CASE fit[k] \in AutoFitted(r)
    <3> HIDE DEF r
    <3>1. Kept(r, fit[k]) /\ InPlace(r, fit[k])
      BY <2>2, <2>5, AutoFittedIs
    <3> QED
      BY <2>2, <3>1, StaysPlaced DEF Kept, Good
  <2> QED
    BY <2>3, <2>4, <2>5
<1>5. IInv'
  BY <1>2, <1>4 DEF IInv, Good, Placed
<1> QED
  BY <1>2, <1>5 DEF Holds, Continued

\* Results of a region that stays in place, for TurnsHolds
LEMMA StayingHolds ==
  ASSUME IInv, NEW k \in DOMAIN regions, NEW results, Turns(k, results),
         \A n \in results : Kept(regions[k], n) /\ InPlace(regions[k], n)
  PROVE  Holds
<1>1. \A n \in results : Placed(k, n)
  BY RegionIs, StaysPlaced DEF Kept, Good
<1> QED
  BY <1>1, TurnsHolds

LEMMA RefitHolds == ASSUME IInv, RefitROI PROVE Holds
<1>1. PICK k \in DOMAIN regions : Turns(k, Refitted(regions[k]))
  BY DEF RefitROI
<1>2. \A n \in Refitted(regions[k]) : Kept(regions[k], n) /\ InPlace(regions[k], n)
  BY RegionIs, RefittedIs
<1> QED
  BY <1>1, <1>2, StayingHolds

LEMMA AddPeakHolds == ASSUME IInv, AddPeakRange PROVE Holds
<1>1. PICK d \in Ranges :
        LET over == {k \in DOMAIN regions : overlapsRange(regions[k], d)}
        IN IF over # {}
             THEN LET k == CHOOSE j \in over : \A i \in over : j <= i
                  IN Turns(k, AddPeak(regions[k], d))
             ELSE \E n \in AutoFitted(NewROI(d[1], d[2])) :
                    Becomes(Inserted(regions, n), {}, {ID(n)} \cap DOMAIN regions)
  BY DEF AddPeakRange
<1> DEFINE over == {k \in DOMAIN regions : overlapsRange(regions[k], d)}
<1>2. CASE over # {}
  <2> DEFINE k == CHOOSE j \in over : \A i \in over : j <= i
  <2>1. over \subseteq -1 .. Bins - 1
    BY DEF IInv
  <2>2. \E j \in over : \A i \in over : j <= i
    <3> HIDE DEF over
    <3> QED
      BY <1>2, <2>1, SmallestIs
  <2>3. k \in over
    <3> HIDE DEF over
    <3> QED
      BY <2>2
  <2>4. Turns(k, AddPeak(regions[k], d))
    BY <1>1, <1>2
  <2> HIDE DEF k
  <2>5. k \in DOMAIN regions /\ overlapsRange(regions[k], d)
    BY <2>3
  <2>6. ASSUME NEW n \in AddPeak(regions[k], d)
        PROVE  Kept(regions[k], n) /\ Placed(k, n)
    BY <2>5, RegionIs, AddPeakIs
  <2> QED
    BY <2>4, <2>5, <2>6, TurnsHolds
<1>3. CASE over = {}
  <2>1. PICK n \in AutoFitted(NewROI(d[1], d[2])) :
          Becomes(Inserted(regions, n), {}, {ID(n)} \cap DOMAIN regions)
    BY <1>1, <1>3
  <2>2. d[1] \in Int /\ d[2] \in Int
    BY RangesAre DEF Bin
  <2>3. Good(n)
    BY <2>2, NewFitted
  <2> QED
    BY <2>1, <2>3, InsertedHolds
<1> QED
  BY <1>2, <1>3

LEMMA AdjustLBHolds == ASSUME IInv, AdjustLB PROVE Holds
<1>1. PICK k \in DOMAIN regions, d \in Ranges :
        MergeRegions(d[1], right_bin(regions[k])) \/ Moved(k, adjust_LB(regions[k], d))
  BY DEF AdjustLB
<1>2. d[1] \in -1 .. Bins - 1 /\ right_bin(regions[k]) \in -1 .. Bins - 1
  BY RangesAre, RegionIs, LeftBinIs, Constants DEF Bin
<1>3. \A n \in adjust_LB(regions[k], d) : Kept(regions[k], n)
  BY RegionIs, AdjustLBIs
<1> QED
  BY <1>1, <1>2, <1>3, MergeHolds, MovedHolds

LEMMA AdjustRBHolds == ASSUME IInv, AdjustRB PROVE Holds
<1>1. PICK k \in DOMAIN regions, d \in Ranges :
        MergeRegions(left_bin(regions[k]), d[2]) \/ Moved(k, adjust_RB(regions[k], d))
  BY DEF AdjustRB
<1>2. d[2] \in -1 .. Bins - 1 /\ left_bin(regions[k]) \in -1 .. Bins - 1
  BY RangesAre, RegionIs, LeftBinIs, Constants DEF Bin
<1>3. \A n \in adjust_RB(regions[k], d) : Kept(regions[k], n)
  BY RegionIs, AdjustRBIs
<1> QED
  BY <1>1, <1>2, <1>3, MergeHolds, MovedHolds

LEMMA RemovePeaksHolds == ASSUME IInv, RemovePeaks PROVE Holds
<1>1. PICK chosen \in SUBSET UNION {DOMAIN regions[k].peaks : k \in DOMAIN regions} :
        LET hit == {k \in DOMAIN regions : DOMAIN regions[k].peaks \cap chosen # {}}
        IN \E new \in [hit -> UNION {WithoutPeaks(regions[k], chosen) : k \in hit}] :
             /\ \A k \in hit : new[k] \in WithoutPeaks(regions[k], chosen)
             /\ \E k \in hit : ~new[k].unsaved
             /\ Becomes([k \in DOMAIN regions |-> IF k \in hit THEN new[k] ELSE regions[k]],
                        {}, {})
  BY DEF RemovePeaks
<1> DEFINE hit == {k \in DOMAIN regions : DOMAIN regions[k].peaks \cap chosen # {}}
<1>2. PICK new : /\ \A k \in hit : new[k] \in WithoutPeaks(regions[k], chosen)
                 /\ Becomes([k \in DOMAIN regions |-> IF k \in hit THEN new[k] ELSE regions[k]],
                            {}, {})
  BY <1>1
<1> HIDE DEF hit
<1>3. /\ acts' \in 0 .. MaxActs /\ DOMAIN regions' = DOMAIN regions
      /\ \A k \in DOMAIN regions : regions'[k] = IF k \in hit THEN new[k] ELSE regions[k]
  BY <1>2, ActsAre
<1>4. ASSUME NEW k \in DOMAIN regions
      PROVE  /\ Good(regions'[k]) /\ Placed(k, regions'[k]) /\ k \in -1 .. Bins - 1
             /\ IsPrefix(regions[k].fits, regions'[k].fits)
  <2>1. CASE k \in hit
    <3>1. regions'[k] \in WithoutPeaks(regions[k], chosen)
      BY <1>2, <1>3, <2>1
    <3>2. Kept(regions[k], regions'[k]) /\ InPlace(regions[k], regions'[k])
      BY <3>1, RegionIs, WithoutPeaksIs
    <3> QED
      BY <3>2, RegionIs, StaysPlaced DEF Kept, Good
  <2>2. CASE k \notin hit
    BY <1>3, <2>2, RegionIs
  <2> QED
    BY <2>1, <2>2
<1>5. IInv'
  BY <1>3, <1>4 DEF IInv, Good, Placed
<1> QED
  BY <1>3, <1>4, <1>5 DEF Holds, Continued

LEMMA AdjustSum4Holds == ASSUME IInv, AdjustSum4Range PROVE Holds
<1>1. PICK k \in DOMAIN regions, d \in Ranges : \E c \in DOMAIN regions[k].peaks :
        Turns(k, {AdjustSum4(regions[k], c, d)})
  BY DEF AdjustSum4Range
<1>2. PICK c \in DOMAIN regions[k].peaks : Turns(k, {AdjustSum4(regions[k], c, d)})
  BY <1>1
<1>3. \A n \in {AdjustSum4(regions[k], c, d)} : Kept(regions[k], n) /\ InPlace(regions[k], n)
  BY RegionIs, AdjustSum4Is
<1> QED
  BY <1>2, <1>3, StayingHolds

LEMMA ReplaceHolds == ASSUME IInv, ReplaceHypermet PROVE Holds
<1>1. PICK k \in DOMAIN regions, v \in Shapes : \E c \in DOMAIN regions[k].peaks :
        Turns(k, {save_current_fit([regions[k] EXCEPT !.peaks[c] = v])})
  BY DEF ReplaceHypermet
<1>2. PICK c \in DOMAIN regions[k].peaks :
        Turns(k, {save_current_fit([regions[k] EXCEPT !.peaks[c] = v])})
  BY <1>1
<1>3. \A n \in {save_current_fit([regions[k] EXCEPT !.peaks[c] = v])} :
        Kept(regions[k], n) /\ InPlace(regions[k], n)
  BY RegionIs, OtherShapeIs
<1> QED
  BY <1>2, <1>3, StayingHolds

LEMMA RoiSettingsHolds == ASSUME IInv, RoiSettings PROVE Holds
<1>1. PICK k \in DOMAIN regions : Turns(k, {override_settings(regions[k])})
  BY DEF RoiSettings
<1>2. \A n \in {override_settings(regions[k])} : Kept(regions[k], n) /\ InPlace(regions[k], n)
  BY RegionIs, SettingsAre
<1> QED
  BY <1>1, <1>2, StayingHolds

LEMMA RollbackHolds == ASSUME IInv, RollbackROI PROVE Holds
<1>1. PICK k \in DOMAIN regions : \E i \in DOMAIN regions[k].fits :
        Turns(k, {rollback(regions[k], i)})
  BY DEF RollbackROI
<1>2. PICK i \in DOMAIN regions[k].fits : Turns(k, {rollback(regions[k], i)})
  BY <1>1
<1> DEFINE r == regions[k]
           n == rollback(r, i)
<1>3. r \in ROIType /\ Placed(k, r) /\ IsPrefix(r.fits, r.fits)
  BY RegionIs
<1>4. Good(n) /\ n.fits = r.fits /\ n.moved = (r.moved \/ ID(n) # ID(r))
  <2> HIDE DEF r
  <2>1. r \in ROIType /\ i \in DOMAIN r.fits
    BY <1>3 DEF r
  <2> QED
    BY <2>1, RollbackIs
<1>5. Kept(r, n) /\ Placed(k, n)
  <2> HIDE DEF r, n
  <2> QED
    BY <1>3, <1>4 DEF Kept, Placed
<1> QED
  BY <1>2, <1>5, TurnsHolds

LEMMA DeleteHolds == ASSUME IInv, DeleteROI PROVE Holds
<1>1. PICK k \in DOMAIN regions : Becomes(Erased(regions, {k}), {k}, {})
  BY DEF DeleteROI
<1>2. /\ acts' \in 0 .. MaxActs /\ gone' = {k} /\ lost' = {}
      /\ regions' = Erased(regions, {k})
  BY <1>1, ActsAre
<1>3. /\ DOMAIN regions' = DOMAIN regions \ {k}
      /\ \A j \in DOMAIN regions' : regions'[j] = regions[j]
  BY <1>2, ErasedIs
<1>4. \A j \in DOMAIN regions' : Good(regions'[j]) /\ Placed(j, regions'[j]) /\ j \in -1 .. Bins - 1
  BY <1>3, RegionIs
<1>5. IInv'
  BY <1>2, <1>4 DEF IInv, Good, Placed
<1>6. Continued
  BY <1>2, <1>3, RegionIs DEF Continued
<1> QED
  BY <1>5, <1>6 DEF Holds

LEMMA SaveAndLoadHolds == ASSUME IInv, SaveAndLoad PROVE Holds
<1>1. /\ acts' \in 0 .. MaxActs /\ gone' = DOMAIN regions /\ regions' = Loaded(regions)
  BY ActsAre DEF SaveAndLoad
<1>2. DOMAIN regions \subseteq -1 .. Bins - 1 /\ \A k \in DOMAIN regions : Good(regions[k])
  BY DEF IInv
<1>3. \A n \in DOMAIN regions' :
        Good(regions'[n]) /\ Placed(n, regions'[n]) /\ n \in -1 .. Bins - 1
  BY <1>1, <1>2, LoadedIs
<1>4. IInv'
  BY <1>1, <1>3 DEF IInv, Good, Placed
<1> QED
  BY <1>1, <1>4 DEF Holds, Continued

-----------------------------------------------------------------------------
(* The theorems                                                            *)

LEMMA Starts == RegionsInit => IInv
BY Constants DEF RegionsInit, IInv

LEMMA StepHolds == ASSUME IInv, [RegionsNext]_regionVars PROVE Holds
<1>1. CASE RegionsNext
  BY <1>1, PerformFitHolds, RefitHolds, AddPeakHolds, AdjustLBHolds, AdjustRBHolds,
     RemovePeaksHolds, AdjustSum4Holds, ReplaceHolds, RoiSettingsHolds, RollbackHolds,
     DeleteHolds, SaveAndLoadHolds DEF RegionsNext
<1>2. CASE UNCHANGED regionVars
  <2>1. regions' = regions /\ acts' = acts
    BY <1>2 DEF regionVars
  <2>2. IInv'
    BY <2>1 DEF IInv, Good, Placed
  <2>3. \A k \in DOMAIN regions : IsPrefix(regions[k].fits, regions'[k].fits)
    BY <2>1, RegionIs
  <2> QED
    BY <2>1, <2>2, <2>3 DEF Holds, Continued
<1> QED
  BY <1>1, <1>2

\* In all states a region is typed, has what its current fit says, and is
\* found under its ID unless it was moved in place: all edits of Fitter and
\* ROI keep that.
THEOREM Inductive == RegionsSpec => []IInv
<1>1. IInv /\ [RegionsNext]_regionVars => IInv'
  BY StepHolds DEF Holds
<1> QED
  BY Starts, <1>1, PTL DEF RegionsSpec

LEMMA SomeTypes == IInv => RegionTypes
<1>1. ASSUME NEW f, f.lb \in Edge, f.rb \in Edge, f.peaks \in PeaksType, f.own \in BOOLEAN
      PROVE  FitTyped(f)
  BY <1>1, PeaksOf DEF FitTyped, PeaksTyped, IsPeak
<1>2. ASSUME IInv, NEW k \in DOMAIN regions
      PROVE  LET r == regions[k]
             IN /\ r.lo \in Bin /\ r.hi \in -1 .. Bins - 1 /\ FitTyped(r)
                /\ r.moved \in BOOLEAN /\ r.unsaved \in BOOLEAN
                /\ r.cur \in (IF r.fits = << >> THEN {0} ELSE DOMAIN r.fits)
                /\ \A i \in DOMAIN r.fits : FitTyped(r.fits[i])
  <2> DEFINE r == regions[k]
  <2>1. r \in ROIType /\ CurIs(r)
    BY <1>2 DEF IInv, Good
  <2> HIDE DEF r
  <2>2. /\ r.lo \in Bin /\ r.hi \in -1 .. Bins - 1 /\ FitTyped(r)
        /\ r.moved \in BOOLEAN /\ r.unsaved \in BOOLEAN
    BY <1>1, <2>1 DEF ROIType
  <2>3. ASSUME NEW i \in DOMAIN r.fits
        PROVE  FitTyped(r.fits[i])
    <3>1. r.fits[i] \in FitType
      BY <2>1, <2>3 DEF ROIType
    <3> QED
      BY <1>1, <3>1 DEF FitType
  <2> QED
    BY <2>1, <2>2, <2>3 DEF r, CurIs
<1> QED
  BY <1>2 DEF IInv, RegionTypes

\* A region is found under the bin it begins at, by which edits refer to it,
\* unless a peak or a rollback moved it in place (Fitter::regions_).
THEOREM FoundUnderID == RegionsSpec => []KeysAreIds
<1>1. IInv => KeysAreIds
  BY SomeTypes DEF IInv, KeysAreIds, Placed
<1> QED
  BY Inductive, <1>1, PTL

\* Whatever was edited, refitted or rolled back, the edges, peaks and settings
\* a region shows are those of the fit its history says is shown, unless a
\* failed fit left them unsaved (ROI::save_current_fit, ROI::rollback).
THEOREM CurrentFitShown == RegionsSpec => []ShownIsCurrent
<1>1. IInv => ShownIsCurrent
  BY DEF IInv, ShownIsCurrent, Good, Shown
<1> QED
  BY Inductive, <1>1, PTL

\* Of any history that can come about a file gives back all fits, the one that
\* was chosen, their edges and their peaks, but for the peaks of a fit with a sum
\* that is not settled; and what it gave back once it gives back again, all of it
\* (ROI::to_xml, ROI::from_xml, which takes the sums anew).
THEOREM ProjectGivesBack == RegionsSpec => []LoadGivesBack
BY Inductive, GivesBack, PTL

\* No edit takes a fit from a history: any that was saved can be returned to
\* (Fitter and ROI, all edits).
THEOREM NoFitIsLost == RegionsSpec => HistoryIsKept
<1> DEFINE Keeps == \A k \in DOMAIN regions \ (gone' \cup lost') :
                      \E j \in DOMAIN regions' : IsPrefix(regions[k].fits, regions'[j].fits)
<1>1. IInv /\ [RegionsNext]_regionVars => [Keeps]_regionVars
  BY StepHolds DEF Holds, Continued
<1>2. RegionsSpec => [][Keeps]_regionVars
  <2> HIDE DEF Keeps
  <2> QED
    BY Inductive, <1>1, PTL DEF RegionsSpec
<1> QED
  BY <1>2 DEF HistoryIsKept

-----------------------------------------------------------------------------
-----------------------------------------------------------------------------
(* The fitting thread and its form                                         *)

\* the command is in the slot, or was; its parameters may yet have to be stored
Handed == calling \in {None, "parameters"}

\* the form awaits the start of a command it has stored
Stored == busy /\ Handed /\ inbox = << >> /\ pc \notin InHand \ {"done"}

\* the thread is at a command
AtWork == pc \in {"fit", "rest", "edit", "report"}

IsUpdate(i) == inbox[i].signal = "updated"

\* a Fitter holds the whole result of the command the form waits for
Complete(data) ==
  <<waits, 0>> \in data \/ \A p \in 1 .. Parts : <<waits, p>> \in data

\* the result has been sent, or will not come
Delivered ==
  \/ waits \in failed
  \/ Complete(gui)
  \/ \E i \in DOMAIN inbox : IsUpdate(i) /\ Complete(inbox[i].data)

\* the form, when it is free and while it calls
FormInv ==
  /\ ~busy => inbox = << >> /\ calling = None /\ ~AtWork
  /\ ~Handed => busy /\ inbox = << >> /\ ~AtWork
  /\ calling \in {"then fit", "then edit"} => fitter = gui /\ ~running
  /\ calling = "parameters" => busy /\ action # "fit" /\ pc \notin {"fit", "rest"}
  /\ ~busy /\ ~mistaken /\ waits # 0 => waits \in failed \/ Complete(gui)

\* the slot action_ and the mark running_
SlotInv ==
  /\ pc \in InHand => running
  /\ pc \notin InHand /\ ~Stored => action = "idle"
  /\ Stored => pc # "done" /\ action \in Commands /\ fitter = gui
  /\ Stored /\ calling = None => target = waits

\* what the thread has made of the command
WorkInv ==
  /\ AtWork => busy /\ Handed /\ gui \subseteq fitter
  /\ AtWork /\ calling = None => target = waits
  /\ pc = "fit" => part < Parts
  /\ pc \in {"fit", "rest"} => \A p \in 1 .. part : <<waits, p>> \in fitter

\* what is under way to the form: updates, each with more, then the end
InboxInv ==
  /\ \A i \in DOMAIN inbox :
       /\ IsUpdate(i) => gui \subseteq inbox[i].data /\ inbox[i].data \subseteq fitter
       /\ ~IsUpdate(i) => i = Len(inbox) /\ ~AtWork
  /\ \A i, j \in DOMAIN inbox :
       i < j /\ IsUpdate(i) /\ IsUpdate(j) => inbox[i].data \subseteq inbox[j].data
  /\ inbox # << >> /\ ~AtWork => ~IsUpdate(Len(inbox))
  /\ (pc = "report" \/ \E i \in DOMAIN inbox : ~IsUpdate(i)) /\ ~mistaken => Delivered

Inv == ~Mishap => FormInv /\ SlotInv /\ WorkInv /\ InboxInv

----------------------------------------------------------------------------
(* The values that the steps put into the slot, the thread's place and the   *)
(* queue are of the types of TypeOK, which the proofs need not look into.    *)
LEMMA Values ==
  /\ "idle" \in Orders /\ "stop" \in Orders /\ "fit" \in Orders /\ "edit" \in Orders
  /\ "mark" \in Places /\ "choose" \in Places /\ "clear" \in Places /\ "ended" \in Places
  /\ "fit" \in Places /\ "edit" \in Places /\ "report" \in Places /\ "done" \in Places
  /\ "rest" \in Places
  /\ None \in Callings /\ "fit" \in Callings /\ "edit" \in Callings
  /\ "then fit" \in Callings /\ "then edit" \in Callings /\ "parameters" \in Callings
  BY DEF Orders, Places, Callings, Commands, None, InHand

LEMMA FitterValues ==
  {} \in Fitters /\ Done \in Signals /\ \A f \in Fitters : Updated(f) \in Signals
<1>1. {} \in Fitters
  BY DEF Fitters
<1> QED
  BY <1>1 DEF Updated, Done, Signals

(* The numbers of edits and of regions, and the next ones up to the bound.   *)
LEMMA Numbers ==
  /\ 0 \in 0 .. MaxEdits /\ 0 \in 0 .. Parts
  /\ \A n \in 0 .. MaxEdits : n < MaxEdits => n + 1 \in 0 .. MaxEdits
  /\ \A n \in 0 .. Parts : n < Parts => n + 1 \in 0 .. Parts
  BY FitterAssumption

(* Queues of typed signals stay so.                                          *)
LEMMA Queues ==
  ASSUME NEW S, NEW q \in Seq(S)
  PROVE  /\ \A s \in S : Append(q, s) \in Seq(S)
         /\ q # << >> => Head(q) \in S /\ Tail(q) \in Seq(S)
  OBVIOUS

(* An edit of a Fitter gives a Fitter.                                       *)
LEMMA Edited ==
  ASSUME NEW f \in Fitters, NEW n \in 0 .. MaxEdits, NEW p \in 0 .. Parts
  PROVE  f \cup {<<n, p>>} \in Fitters
  BY DEF Fitters

(* Every variable keeps its type: in particular the thread's place, the slot *)
(* and the queue of signals hold nothing that the code does not put there.   *)
LEMMA TypeInit == Init => TypeOK
<1> SUFFICES ASSUME Init PROVE TypeOK
  OBVIOUS
<1>1. /\ 0 \in 0 .. MaxEdits /\ 0 \in 0 .. Parts /\ {} \subseteq 0 .. MaxEdits
      /\ << >> \in Seq(Signals)
  BY FitterAssumption
<1> QED
  BY <1>1, Values, FitterValues DEF Init, TypeOK

LEMMA TypeNext == TypeOK /\ [Next]_vars => TypeOK'
<1> SUFFICES ASSUME TypeOK, [Next]_vars PROVE TypeOK'
  OBVIOUS
<1> USE Values, Numbers DEF TypeOK
<1>0. ASSUME edits < MaxEdits
      PROVE  edits + 1 \in 0 .. MaxEdits /\ gui \cup {<<edits + 1, 0>>} \in Fitters
  <2>1. edits + 1 \in 0 .. MaxEdits /\ 0 \in 0 .. Parts
    BY <1>0
  <2>2. gui \cup {<<edits + 1, 0>>} \in Fitters
    BY <2>1, Edited
  <2> QED
    BY <2>1, <2>2
<1>q. /\ \A e \in Signals : Append(inbox, e) \in Seq(Signals)
      /\ inbox # << >> => Head(inbox) \in Signals /\ Tail(inbox) \in Seq(Signals)
  BY Queues
<1>e. {} \in Fitters
  BY FitterValues
<1>1. CASE EditHere
  BY <1>0, <1>1 DEF EditHere, shared, worker
<1>2. CASE AskFit \/ AskEdit
  BY <1>0, <1>2, <1>e DEF AskFit, AskEdit, Ask, Found, shared, worker
<1>3. CASE set_data
  BY <1>3 DEF set_data, worker
<1>4. CASE Command
  BY <1>4 DEF Command, worker
<1>p. CASE Parameters
  BY <1>p DEF Parameters, worker
<1>5. CASE PushStop
  BY <1>5 DEF PushStop, stop_work, worker
<1>6. CASE Close
  BY <1>6 DEF Close, stop_work, worker
<1>7. CASE fit_updated
  <2>1. Head(inbox) \in Signals /\ Tail(inbox) \in Seq(Signals)
    BY <1>7, <1>q DEF fit_updated
  <2>2. Head(inbox).data \in Fitters
    BY <2>1 DEF Signals
  <2> QED
    BY <1>7, <2>1, <2>2 DEF fit_updated, shared, worker
<1>8. CASE fitting_complete
  <2>1. Tail(inbox) \in Seq(Signals)
    BY <1>8, <1>q DEF fitting_complete
  <2> QED
    BY <1>8, <2>1 DEF fitting_complete, shared, worker
<1>9. CASE Mark
  BY <1>9 DEF Mark, form
<1>10. CASE Choose
  <2>1. action \in Commands => action \in Places
    BY DEF Commands
  <2>2. pc' \in Places /\ part' \in 0 .. Parts
    BY <1>10, <2>1 DEF Choose
  <2>3. unmarked' \in BOOLEAN
    BY <1>10, Zenon DEF Choose
  <2> QED
    BY <1>10, <2>2, <2>3 DEF Choose, form, shared
<1>b. ASSUME NEW f \in Fitters PROVE Append(inbox, Updated(f)) \in Seq(Signals)
  BY <1>q, FitterValues
<1>c. ASSUME NEW n \in 0 .. Parts PROVE fitter \cup {<<target, n>>} \in Fitters
  BY Edited
<1>d. failed \cup {target} \subseteq 0 .. MaxEdits
  OBVIOUS
<1>11. CASE FitPart
  <2>1. part + 1 \in 0 .. Parts
    BY <1>11 DEF FitPart
  <2>2. fitter' \in Fitters
    BY <1>11, <2>1, <1>c DEF FitPart
  <2>3. inbox' \in Seq(Signals)
    BY <1>11, <2>2, <1>b DEF FitPart, emit
  <2> QED
    BY <1>11, <2>1, <2>2, <2>3 DEF FitPart, form
<1>12. CASE Rest
  <2>1. inbox' \in Seq(Signals)
    BY <1>12, <1>b DEF Rest, emit
  <2>2. failed' \subseteq 0 .. MaxEdits
    BY <1>12, <1>d DEF Rest
  <2> QED
    BY <1>12, <2>1, <2>2 DEF Rest, form, shared
<1>13. CASE Edit
  <2>1. fitter' \in Fitters
    BY <1>13, <1>c DEF Edit
  <2>2. inbox' \in Seq(Signals)
    BY <1>13, <2>1, <1>b DEF Edit, emit
  <2>3. failed' \subseteq 0 .. MaxEdits
    BY <1>13, <1>d DEF Edit
  <2>4. mistaken' \in BOOLEAN
    BY <1>13, Zenon DEF Edit
  <2> QED
    BY <1>13, <2>1, <2>2, <2>3, <2>4 DEF Edit, form
<1>14. CASE Report
  <2>1. inbox' \in Seq(Signals)
    BY <1>14, <1>q, FitterValues DEF Report, emit
  <2> QED
    BY <1>14, <2>1 DEF Report, form, shared
<1>15. CASE ToIdle
  BY <1>15 DEF ToIdle, form
<1>16. CASE Clear
  BY <1>16 DEF Clear, form
<1>17. CASE UNCHANGED vars
  BY <1>17 DEF vars, form, shared, worker
<1> QED
  BY <1>1, <1>2, <1>3, <1>4, <1>p, <1>5, <1>6, <1>7, <1>8, <1>9, <1>10, <1>11,
     <1>12, <1>13, <1>14, <1>15, <1>16, <1>17 DEF Next

THEOREM TypeCorrect == Spec => []TypeOK
  BY TypeInit, TypeNext, PTL DEF Spec

----------------------------------------------------------------------------
LEMMA InvInit == Init => Inv
  BY DEF Init, Inv, FormInv, SlotInv, WorkInv, InboxInv, Stored, Handed, AtWork, IsUpdate,
         InHand, None

(* A signal with the thread's Fitter, sent while it is at work on a Fitter   *)
(* that only grows, is an update like those before it, and holds the most.   *)
LEMMA Sending ==
  ASSUME TypeOK, InboxInv, AtWork, gui \subseteq fitter, fitter \subseteq fitter', gui' = gui,
         inbox' = Append(inbox, Updated(fitter'))
  PROVE  /\ \A i \in DOMAIN inbox' : IsUpdate(i)' /\ gui' \subseteq inbox'[i].data /\ inbox'[i].data \subseteq fitter'
         /\ \A i, j \in DOMAIN inbox' : i < j => inbox'[i].data \subseteq inbox'[j].data
         /\ \E i \in DOMAIN inbox' : IsUpdate(i)' /\ inbox'[i].data = fitter'
<1>1. /\ DOMAIN inbox = 1 .. Len(inbox) /\ Len(inbox) \in Nat
      /\ DOMAIN inbox' = 1 .. Len(inbox) + 1
      /\ inbox'[Len(inbox) + 1] = Updated(fitter')
      /\ \A i \in 1 .. Len(inbox) : inbox'[i] = inbox[i]
  BY DEF TypeOK
<1>2. /\ inbox'[Len(inbox) + 1].signal = "updated"
      /\ inbox'[Len(inbox) + 1].data = fitter'
  BY <1>1 DEF Updated
<1>3. \A i \in 1 .. Len(inbox) : /\ inbox'[i].signal = "updated" /\ gui \subseteq inbox'[i].data
                                 /\ inbox'[i].data \subseteq fitter
  BY <1>1 DEF InboxInv, IsUpdate
<1>4. \A i, j \in 1 .. Len(inbox) : i < j => inbox'[i].data \subseteq inbox'[j].data
  BY <1>1, <1>3 DEF InboxInv, IsUpdate
<1>5. ASSUME NEW i \in DOMAIN inbox' PROVE i \in 1 .. Len(inbox) \/ i = Len(inbox) + 1
  BY <1>1
<1>6. \A i \in DOMAIN inbox' : IsUpdate(i)' /\ gui' \subseteq inbox'[i].data /\ inbox'[i].data \subseteq fitter'
  BY <1>2, <1>3, <1>5 DEF IsUpdate
<1>7. ASSUME NEW i \in DOMAIN inbox', NEW j \in DOMAIN inbox', i < j
      PROVE  inbox'[i].data \subseteq inbox'[j].data
  <2>1. i \in 1 .. Len(inbox)
    BY <1>1, <1>7
  <2>2. CASE j \in 1 .. Len(inbox)
    BY <1>4, <1>7, <2>1, <2>2
  <2>3. CASE j = Len(inbox) + 1
    BY <1>2, <1>3, <2>1, <2>3
  <2> QED
    BY <1>5, <2>2, <2>3
<1> QED
  BY <1>1, <1>2, <1>6, <1>7 DEF IsUpdate

(* The invariant is inductive: one step for each action, and there one for   *)
(* each part.  A step after which there is still no mishap had none before.  *)
LEMMA InvNext == TypeOK /\ Inv /\ [Next]_vars => Inv'
<1> SUFFICES ASSUME TypeOK, Inv, [Next]_vars, ~Mishap'
             PROVE  FormInv' /\ SlotInv' /\ WorkInv' /\ InboxInv'
  BY DEF Inv
<1> USE DEF Stored, Handed, AtWork, InHand, Commands, None
<1>0. ASSUME ~Mishap PROVE FormInv /\ SlotInv /\ WorkInv /\ InboxInv
  BY <1>0 DEF Inv
<1>1. CASE EditHere
  <2>1. ~Mishap /\ ~busy
    BY <1>1, Zenon DEF EditHere, Mishap, worker, shared
  <2> QED
    BY <2>1, <1>0, <1>1 DEF EditHere, FormInv, SlotInv, WorkInv, InboxInv, shared, worker, Complete, IsUpdate, Delivered
<1>2. CASE AskFit \/ AskEdit
  <2>1. ~Mishap /\ ~busy
    <3>1. ASSUME NEW c, Ask(c) PROVE ~Mishap /\ ~busy
      BY <3>1, Zenon DEF Ask, Mishap, worker, shared
    <3> QED
      BY <1>2, <3>1 DEF AskFit, AskEdit
  <2>2. /\ busy' /\ calling' \in Commands /\ inbox' = inbox /\ pc' = pc /\ action' = action
        /\ running' = running
    BY <1>2, Zenon DEF AskFit, AskEdit, Ask, shared, worker
  <2>3. inbox = << >> /\ calling = None /\ ~AtWork /\ SlotInv
    BY <2>1, <1>0 DEF FormInv
  <2>4. FormInv'
    BY <2>2, <2>3 DEF FormInv
  <2>5. SlotInv'
    BY <2>1, <2>2, <2>3 DEF SlotInv
  <2>6. WorkInv' /\ InboxInv'
    BY <2>2, <2>3 DEF WorkInv, InboxInv
  <2> QED
    BY <2>4, <2>5, <2>6
<1>3. CASE set_data
  <2>1. ~Mishap /\ ~running
    BY <1>3, Zenon DEF set_data, Mishap, worker, shared
  <2>2. FormInv' /\ SlotInv' /\ WorkInv' /\ InboxInv'
    <3>1. pc \notin InHand /\ inbox = << >> /\ calling' \in {"then fit", "then edit"}
      BY <2>1, <1>0, <1>3 DEF set_data, SlotInv, FormInv
    <3>2. /\ fitter' = gui /\ gui' = gui /\ action' = "idle" /\ inbox' = inbox /\ pc' = pc
          /\ running' = running /\ busy' = busy /\ busy
      BY <2>1, <1>0, <1>3 DEF set_data, worker, FormInv
    <3> QED
      <4>1. FormInv' /\ SlotInv'
        BY <2>1, <3>1, <3>2 DEF FormInv, SlotInv
      <4>2. WorkInv' /\ InboxInv'
        <5>1. inbox' = << >> /\ ~AtWork' /\ pc' # "report"
          BY <3>1, <3>2
        <5> QED
          BY <5>1 DEF WorkInv, InboxInv
      <4> QED
        BY <4>1, <4>2
  <2> QED
    BY <2>2
<1>4. CASE Command
  <2>1. ~Mishap /\ ~running
    BY <1>4, Zenon DEF Command, Mishap, worker, shared
  <2> QED
    BY <2>1, <1>0, <1>4 DEF Command, FormInv, SlotInv, WorkInv, InboxInv, worker, IsUpdate, Delivered, Complete
<1>p. CASE Parameters
  <2>1. ~Mishap
    BY <1>p, Zenon DEF Parameters, Mishap, worker
  <2> QED
    BY <2>1, <1>0, <1>p DEF Parameters, FormInv, SlotInv, WorkInv, InboxInv, worker, IsUpdate, Delivered, Complete
<1>5. CASE PushStop
  <2>1. ~Mishap /\ pc \in InHand
    BY <1>5, Zenon DEF PushStop, stop_work, Mishap, worker, shared
  <2> QED
    BY <2>1, <1>0, <1>5 DEF PushStop, stop_work, FormInv, SlotInv, WorkInv, InboxInv, worker, IsUpdate, Delivered, Complete
<1>6. CASE Close
  <2>1. ~Mishap /\ pc \in InHand
    BY <1>6, Zenon DEF Close, stop_work, Mishap, worker, shared
  <2> QED
    BY <2>1, <1>0, <1>6 DEF Close, stop_work, FormInv, SlotInv, WorkInv, InboxInv, worker, IsUpdate, Delivered, Complete
<1>7. CASE fit_updated
  <2>1. ~Mishap /\ calling = None /\ inbox # << >>
    BY <1>7, Zenon DEF fit_updated, Free, Mishap, worker
  <2>2. FormInv /\ SlotInv /\ WorkInv /\ InboxInv
    BY <2>1, <1>0
  <2>3. busy /\ IsUpdate(1) /\ gui' = inbox[1].data /\ inbox' = Tail(inbox)
    BY <2>1, <2>2, <1>7 DEF fit_updated, FormInv, IsUpdate, TypeOK
  <2>4. /\ gui \subseteq gui' /\ gui' \subseteq fitter
        /\ 1 \in DOMAIN inbox /\ Len(inbox') = Len(inbox) - 1
        /\ \A i \in DOMAIN inbox' : i + 1 \in DOMAIN inbox /\ inbox'[i] = inbox[i + 1]
    BY <2>1, <2>2, <2>3 DEF InboxInv, TypeOK
  <2>5. /\ UNCHANGED <<busy, calling, waits, shared, worker>>
    BY <1>7 DEF fit_updated
  <2>6. inbox' = << >> => AtWork
    BY <2>1, <2>2, <2>3, <2>4 DEF InboxInv, TypeOK
  <2>7. FormInv' /\ SlotInv' /\ WorkInv'
    BY <2>1, <2>2, <2>3, <2>4, <2>5, <2>6 DEF FormInv, SlotInv, WorkInv, shared, worker
  <2>8. Delivered => Delivered'
    <3>1. UNCHANGED <<waits, failed>>
      BY <2>5 DEF worker
    <3>2. Complete(gui) => Complete(gui)'
      BY <2>4, <3>1 DEF Complete
    <3>3. ASSUME NEW i \in DOMAIN inbox, IsUpdate(i), Complete(inbox[i].data) PROVE Delivered'
      <4>1. CASE i = 1
        BY <4>1, <3>1, <3>3, <2>3 DEF Complete, Delivered
      <4>2. CASE i # 1
        <5>1. i - 1 \in DOMAIN inbox' /\ inbox'[i - 1] = inbox[i]
          BY <4>2, <2>4, <2>3 DEF TypeOK
        <5> QED
          BY <5>1, <3>1, <3>3 DEF Complete, Delivered, IsUpdate
      <4> QED
        BY <4>1, <4>2
    <3> QED
      BY <3>1, <3>2, <3>3 DEF Delivered
  <2>9. InboxInv'
    <3>1. ASSUME NEW i \in DOMAIN inbox'
          PROVE  /\ IsUpdate(i)' => gui' \subseteq inbox'[i].data /\ inbox'[i].data \subseteq fitter'
                 /\ ~IsUpdate(i)' => i = Len(inbox') /\ ~AtWork'
      <4>1. i + 1 \in DOMAIN inbox /\ inbox'[i] = inbox[i + 1] /\ 1 < i + 1 /\ i \in Int
        BY <2>4, <2>3, <2>1 DEF TypeOK
      <4>2. /\ IsUpdate(i)' => IsUpdate(i + 1) /\ inbox[1].data \subseteq inbox[i + 1].data /\ inbox[i + 1].data \subseteq fitter
            /\ ~IsUpdate(i)' => ~IsUpdate(i + 1) /\ i + 1 = Len(inbox) /\ ~AtWork
        BY <4>1, <2>2, <2>3, <2>4 DEF InboxInv, IsUpdate
      <4> QED
        BY <4>1, <4>2, <2>3, <2>4, <2>5 DEF shared, worker, TypeOK
    <3>2. ASSUME NEW i \in DOMAIN inbox', NEW j \in DOMAIN inbox', i < j, IsUpdate(i)', IsUpdate(j)'
          PROVE  inbox'[i].data \subseteq inbox'[j].data
      <4>1. i + 1 \in DOMAIN inbox /\ j + 1 \in DOMAIN inbox /\ inbox'[i] = inbox[i + 1] /\ inbox'[j] = inbox[j + 1]
        BY <2>4
      <4>2. i + 1 < j + 1
        BY <2>3, <3>2, <2>1 DEF TypeOK
      <4> QED
        BY <4>1, <4>2, <3>2, <2>2 DEF InboxInv, IsUpdate
    <3>3. inbox' # << >> /\ ~AtWork' => ~IsUpdate(Len(inbox))'
      <4>1. ASSUME inbox' # << >> PROVE Len(inbox') \in DOMAIN inbox' /\ Len(inbox') + 1 = Len(inbox)
        BY <4>1, <2>1, <2>3 DEF TypeOK
      <4> QED
        <5>1. ASSUME inbox' # << >>
              PROVE  inbox'[Len(inbox')] = inbox[Len(inbox)]
          BY <5>1, <4>1, <2>4
        <5>2. pc' = pc /\ (~AtWork => inbox[Len(inbox)].signal # "updated")
          BY <2>1, <2>2, <2>5 DEF InboxInv, IsUpdate, worker
        <5> QED
          BY <5>1, <5>2 DEF IsUpdate
    <3>4. (pc' = "report" \/ \E i \in DOMAIN inbox' : ~IsUpdate(i)') /\ ~mistaken' => Delivered
      BY <2>2, <2>4, <2>5 DEF InboxInv, IsUpdate, worker
    <3> QED
      BY <3>1, <3>2, <3>3, <3>4, <2>8 DEF InboxInv
  <2> QED
    BY <2>7, <2>9
<1>8. CASE fitting_complete
  <2>1. ~Mishap /\ calling = None /\ inbox # << >>
    BY <1>8, Zenon DEF fitting_complete, Free, Mishap, worker
  <2>2. FormInv /\ SlotInv /\ WorkInv /\ InboxInv
    BY <2>1, <1>0
  <2>3. 1 \in DOMAIN inbox /\ ~IsUpdate(1) /\ inbox' = Tail(inbox)
    BY <2>1, <1>8 DEF fitting_complete, IsUpdate, TypeOK
  <2>4. Len(inbox) = 1 /\ ~AtWork /\ inbox' = << >> /\ (~mistaken => Delivered)
    <3>1. 1 = Len(inbox) /\ ~AtWork /\ (~mistaken => Delivered)
      BY <2>2, <2>3 DEF InboxInv
    <3> QED
      BY <3>1, <2>3 DEF TypeOK
  <2>5. ~mistaken => waits \in failed \/ Complete(gui)
    BY <2>3, <2>4 DEF Delivered, TypeOK
  <2>6. busy' = FALSE /\ UNCHANGED <<gui, calling, waits, shared, worker>>
    BY <1>8 DEF fitting_complete
  <2> QED
    BY <2>1, <2>2, <2>4, <2>5, <2>6 DEF FormInv, SlotInv, WorkInv, InboxInv, Complete, shared, worker
<1>9. CASE Mark
  <2>1. ~Mishap
    BY <1>9, Zenon DEF Mark, form, Mishap, worker, shared
  <2> QED
    BY <2>1, <1>0, <1>9 DEF Mark, form, FormInv, SlotInv, WorkInv, InboxInv, IsUpdate, Delivered, Complete
<1>10. CASE Choose
  <2>1. ~Mishap /\ (action \in Commands => running)
    BY <1>10, Zenon DEF Choose, form, Mishap, worker, shared
  <2> QED
    <3>1. CASE action \in Commands
      <4>1. /\ Stored /\ fitter = gui /\ running /\ pc = "choose"
            /\ calling = None => target = waits
            /\ calling = "parameters" => action = "edit"
        BY <2>1, <1>0, <1>10, <3>1 DEF Choose, SlotInv, FormInv
      <4>2. pc' = action /\ pc' \in {"fit", "edit"} /\ part' = 0 /\ (pc' = "fit" => part' < Parts)
        BY <1>10, <3>1, FitterAssumption DEF Choose
      <4>3. UNCHANGED <<form, shared, failed, inbox, mistaken>>
        BY <1>10 DEF Choose
      <4>4. FormInv' /\ SlotInv'
        BY <4>1, <4>2, <4>3 DEF form, shared, FormInv, SlotInv
      <4>5. WorkInv' /\ InboxInv'
        BY <4>1, <4>2, <4>3 DEF form, shared, WorkInv, InboxInv
      <4> QED
        BY <4>4, <4>5
    <3>2. CASE action \notin Commands
      BY <2>1, <1>0, <1>10, <3>2 DEF Choose, form, shared, FormInv, SlotInv, WorkInv, InboxInv, IsUpdate, Delivered, Complete
    <3> QED
      BY <3>1, <3>2
<1>11. CASE FitPart
  <2>1. ~Mishap /\ pc = "fit" /\ pc' = "rest"
    BY <1>11, Zenon DEF FitPart, form, Mishap
  <2>2. FormInv /\ SlotInv /\ WorkInv /\ InboxInv
    BY <2>1, <1>0
  <2>3. UNCHANGED <<form, action, target, running, failed, mistaken>> /\ part' = part + 1
    BY <1>11 DEF FitPart
  <2>4. /\ busy /\ calling = None /\ target = waits /\ gui \subseteq fitter
        /\ fitter' = fitter \cup {<<waits, part + 1>>}
    BY <2>1, <2>2, <1>11 DEF FitPart, WorkInv, FormInv
  <2>5. FormInv' /\ SlotInv'
    BY <2>1, <2>2, <2>3, <2>4 DEF FormInv, SlotInv, form
  <2>6. \A p \in 1 .. part' : <<waits, p>> \in fitter'
    <3>1. \A p \in 1 .. part' : p \in 1 .. part \/ p = part + 1
      BY <2>3 DEF TypeOK
    <3> QED
      BY <3>1, <2>1, <2>2, <2>4 DEF WorkInv
  <2>7. WorkInv'
    BY <2>1, <2>3, <2>4, <2>6 DEF WorkInv, form
  <2>8. InboxInv'
    <3>1. CASE inbox' = Append(inbox, Updated(fitter'))
      BY <3>1, <2>1, <2>2, <2>3, <2>4, Sending, ZenonT(30) DEF InboxInv, form
    <3>2. CASE inbox' = inbox
      BY <3>2, <2>1, <2>2, <2>3, <2>4 DEF InboxInv, IsUpdate, form
    <3> QED
      BY <3>1, <3>2, <1>11 DEF FitPart, emit
  <2> QED
    BY <2>5, <2>7, <2>8
<1>12. CASE Rest
  <2>1. ~Mishap /\ pc = "rest"
    BY <1>12, Zenon DEF Rest, form, Mishap
  <2>2. FormInv /\ SlotInv /\ WorkInv /\ InboxInv
    BY <2>1, <1>0
  <2>3. UNCHANGED <<form, shared, part, mistaken>>
    BY <1>12 DEF Rest
  <2>4. busy /\ calling = None /\ target = waits /\ gui \subseteq fitter
    BY <2>1, <2>2 DEF WorkInv, FormInv
  <2>5. CASE pc' = "fit"
    <3>1. inbox' = inbox /\ failed' = failed /\ part < Parts
      BY <2>5, <1>12, FitterAssumption DEF Rest, TypeOK
    <3> QED
      BY <3>1, <2>1, <2>2, <2>3, <2>4, <2>5 DEF FormInv, SlotInv, WorkInv, InboxInv, IsUpdate, form, shared
  <2>6. CASE pc' = "report"
    <3>1. inbox' = Append(inbox, Updated(fitter')) /\ (part = Parts \/ waits \in failed')
      BY <2>4, <2>6, <2>3, <1>12 DEF Rest, emit, shared
    <3>2. part = Parts => Complete(fitter)
      BY <2>1, <2>2 DEF WorkInv, Complete
    <3>3. FormInv' /\ SlotInv' /\ WorkInv'
      BY <2>1, <2>2, <2>3, <2>4, <2>6 DEF FormInv, SlotInv, WorkInv, form, shared
    <3>4. InboxInv'
      <4>1. fitter' = fitter /\ gui' = gui /\ waits' = waits
        BY <2>3 DEF form, shared
      <4>2. Delivered'
        BY <3>1, <3>2, <4>1, <2>1, <2>2, <2>4, Sending, SMTT(30) DEF Delivered, Complete
      <4> QED
        BY <4>1, <4>2, <3>1, <2>1, <2>2, <2>4, <2>6, Sending DEF InboxInv
    <3> QED
      BY <3>3, <3>4
  <2> QED
    BY <2>5, <2>6, <1>12 DEF Rest
<1>13. CASE Edit
  <2>1. ~Mishap /\ pc = "edit" /\ pc' = "report"
    BY <1>13, Zenon DEF Edit, form, Mishap
  <2>2. FormInv /\ SlotInv /\ WorkInv /\ InboxInv
    BY <2>1, <1>0
  <2>3. UNCHANGED <<form, action, target, running, part>>
    BY <1>13 DEF Edit
  <2>4. /\ busy /\ Handed /\ gui \subseteq fitter
        /\ ~mistaken' => ~mistaken /\ target = waits
    <3>1. ~mistaken' => ~mistaken /\ calling # "parameters"
      BY <1>13, Zenon DEF Edit
    <3> QED
      BY <3>1, <2>1, <2>2 DEF WorkInv
  <2>5. fitter \subseteq fitter'
    BY <1>13 DEF Edit
  <2>6. FormInv' /\ SlotInv' /\ WorkInv'
    BY <2>1, <2>2, <2>3, <2>4, <2>5 DEF FormInv, SlotInv, WorkInv, form
  <2>7. gui' = gui /\ waits' = waits
    BY <2>3 DEF form
  <2>8. CASE inbox' = Append(inbox, Updated(fitter')) /\ fitter' = fitter \cup {<<target, 0>>}
    <3>1. ~mistaken' => <<waits, 0>> \in fitter'
      BY <2>8, <2>4
    <3>2. ~mistaken' => Delivered'
      BY <3>1, <2>8, <2>1, <2>2, <2>4, <2>5, <2>7, Sending, ZenonT(30) DEF Delivered, Complete
    <3>3. InboxInv'
      <4>1. inbox' # << >> /\ AtWork'
        BY <2>8, <2>1 DEF TypeOK
      <4>2. /\ \A i \in DOMAIN inbox' : IsUpdate(i)' /\ gui' \subseteq inbox'[i].data /\ inbox'[i].data \subseteq fitter'
            /\ \A i, j \in DOMAIN inbox' : i < j => inbox'[i].data \subseteq inbox'[j].data
        BY <2>8, <2>1, <2>2, <2>4, <2>5, <2>7, Sending
      <4> QED
        BY <4>1, <4>2, <3>2 DEF InboxInv
    <3> QED
      BY <2>6, <3>3
  <2>9. CASE inbox' = inbox /\ failed' = failed \cup {target} /\ fitter' = fitter
    BY <2>9, <2>1, <2>2, <2>4, <2>6, <2>7 DEF InboxInv, IsUpdate, Delivered
  <2> QED
    BY <2>8, <2>9, <1>13 DEF Edit, emit
<1>14. CASE Report
  <2>1. ~Mishap /\ pc = "report" /\ pc' = "done"
    BY <1>14, Zenon DEF Report, form, Mishap
  <2>2. FormInv /\ SlotInv /\ WorkInv /\ InboxInv
    BY <2>1, <1>0
  <2>3. UNCHANGED <<form, shared, part, failed, mistaken>> /\ inbox' = Append(inbox, Done)
    BY <1>14 DEF Report, emit
  <2>4. busy /\ Handed /\ (~mistaken => Delivered)
    BY <2>1, <2>2 DEF WorkInv, InboxInv
  <2>5. /\ DOMAIN inbox = 1 .. Len(inbox) /\ Len(inbox) \in Nat
        /\ DOMAIN inbox' = 1 .. Len(inbox) + 1 /\ Len(inbox') = Len(inbox) + 1
        /\ inbox'[Len(inbox) + 1] = Done /\ inbox' # << >>
        /\ \A i \in 1 .. Len(inbox) : inbox'[i] = inbox[i]
    BY <2>3 DEF TypeOK
  <2>6. /\ inbox'[Len(inbox) + 1].signal # "updated"
        /\ \A i \in 1 .. Len(inbox) : inbox'[i].signal = "updated"
    BY <2>1, <2>2, <2>5 DEF Done, InboxInv, IsUpdate
  <2>7. FormInv' /\ SlotInv' /\ WorkInv'
    BY <2>1, <2>2, <2>3, <2>4, <2>5 DEF FormInv, SlotInv, WorkInv, form, shared
  <2>8. ~mistaken' => Delivered'
    <3>1. gui' = gui /\ waits' = waits /\ failed' = failed /\ mistaken' = mistaken
      BY <2>3 DEF form
    <3>2. ASSUME NEW i \in DOMAIN inbox, IsUpdate(i), Complete(inbox[i].data) PROVE Delivered'
      <4>1. i \in DOMAIN inbox' /\ inbox'[i] = inbox[i]
        BY <2>5
      <4> QED
        BY <4>1, <3>1, <3>2 DEF Delivered, Complete, IsUpdate
    <3> QED
      BY <3>1, <3>2, <2>4 DEF Delivered, Complete
  <2>9. InboxInv'
    <3>1. \A i \in DOMAIN inbox' : IsUpdate(i)' <=> i \in 1 .. Len(inbox)
      BY <2>5, <2>6 DEF IsUpdate
    <3>2. \A i \in DOMAIN inbox' : IsUpdate(i)' => gui' \subseteq inbox'[i].data /\ inbox'[i].data \subseteq fitter'
      BY <3>1, <2>2, <2>3, <2>5, <2>6 DEF InboxInv, IsUpdate, form, shared
    <3>3. \A i, j \in DOMAIN inbox' : i < j /\ IsUpdate(i)' /\ IsUpdate(j)' => inbox'[i].data \subseteq inbox'[j].data
      BY <3>1, <2>2, <2>5, <2>6 DEF InboxInv, IsUpdate
    <3>4. \A i \in DOMAIN inbox' : ~IsUpdate(i)' => i = Len(inbox') /\ ~AtWork'
      BY <3>1, <2>1, <2>5
    <3>5. ~IsUpdate(Len(inbox))'
      BY <2>5, <2>6 DEF IsUpdate
    <3> QED
      BY <3>2, <3>3, <3>4, <3>5, <2>8 DEF InboxInv
  <2> QED
    BY <2>7, <2>9
<1>15. CASE ToIdle
  <2>1. ~Mishap
    BY <1>15, Zenon DEF ToIdle, form, Mishap, worker, shared
  <2> QED
    BY <2>1, <1>0, <1>15 DEF ToIdle, form, FormInv, SlotInv, WorkInv, InboxInv, IsUpdate, Delivered, Complete
<1>16. CASE Clear
  <2>1. ~Mishap
    BY <1>16, Zenon DEF Clear, form, Mishap, worker, shared
  <2> QED
    BY <2>1, <1>0, <1>16 DEF Clear, form, FormInv, SlotInv, WorkInv, InboxInv, IsUpdate, Delivered, Complete
<1>17. CASE UNCHANGED vars
  <2>1. ~Mishap
    BY <1>17, Zenon DEF vars, form, shared, worker, Mishap, worker, shared
  <2> QED
    BY <2>1, <1>0, <1>17, ZenonT(30) DEF vars, form, shared, worker, FormInv, SlotInv, WorkInv, InboxInv, IsUpdate, Delivered, Complete
<1> QED
  BY <1>1, <1>2, <1>3, <1>4, <1>p, <1>5, <1>6, <1>7, <1>8, <1>9, <1>10, <1>11,
     <1>12, <1>13, <1>14, <1>15, <1>16, <1>17 DEF Next

(* In every reachable state: the form, the slot, the work and the signals    *)
(* agree, or a mishap has come.                                              *)
THEOREM Invariance == Spec => []Inv
<1>1. Init => TypeOK /\ Inv
  BY TypeInit, InvInit
<1>2. TypeOK /\ Inv /\ [Next]_vars => (TypeOK /\ Inv)'
  BY TypeNext, InvNext
<1> QED
  BY <1>1, <1>2, PTL DEF Spec

(* No signal is behind the form: handling one loses no edit.                 *)
THEOREM NoEditIsLost == Spec => []NothingIsLost
<1>1. TypeOK /\ Inv => NothingIsLost
  BY DEF NothingIsLost, Inv, InboxInv, IsUpdate
<1> QED
  BY <1>1, TypeCorrect, Invariance, PTL

(* A form that has stopped waiting shows what it waited for.                 *)
THEOREM ResultsAreShown == Spec => []ResultIsShown
<1>1. TypeOK /\ Inv => ResultIsShown
  BY DEF ResultIsShown, Inv, FormInv, Complete
<1> QED
  BY <1>1, TypeCorrect, Invariance, PTL
=============================================================================
