---------------------------- MODULE FitRegions ----------------------------
(* The regions of a fitted spectrum: class Fitter with its map of ROIs       *)
(* (engine/fitting/fitter.cpp), class ROI with its edges, peaks and history  *)
(* of fits (roi.cpp), the ranges a Finder copies (finder.cpp), and the edits *)
(* the form offers (gui/fitter/form_fitter.cpp), carried out by the fitting  *)
(* thread on a copy that replaces the original only when the edit is         *)
(* reported (thread_fitter.cpp; how the two take turns is module             *)
(* FitterThread).  Bins are whole numbers.  What a numerical fit finds is    *)
(* left open: any of the peaks there are, in one of a few shapes.            *)
EXTENDS Integers, FiniteSets, Functions, SequencesExt

CONSTANTS
  Bins,      \* the bins of the spectrum are 0 .. Bins - 1
  Samples,   \* settings_.background_edge_samples
  Centres,   \* the bins in which the finder may find a peak
  Shapes,    \* shapes a fit may give to a peak
  Centroid(_),  \* the bin in which a sum has its centre
  Visible,   \* the ranges <<left, right>> in which the finder sees peaks
  Ranges,    \* the ranges the user draws
  MaxActs    \* bound: operations of the user

Bin  == 0 .. Bins - 1
Edge == Bin \X Bin

\* class SUM4, all that a peak has if it was not fitted (height 0): the bins
\* that are summed, and the edges over which the background is taken off
SumType == [over : Edge, lb : Edge, rb : Edge]

ASSUME FitAssumption ==
  /\ {Bins, Samples, MaxActs} \subseteq Nat /\ Bins > 0
  /\ Centres \subseteq Bin /\ \A v \in Shapes : v \notin SumType
  /\ \A sum \in SumType : Centroid(sum) \in Bin
  /\ \A d, e \in Visible : d = e \/ d[2] < e[1] \/ e[2] < d[1]
  /\ Ranges \cup Visible \subseteq Edge /\ \A d \in Ranges \cup Visible : d[1] < d[2]

VARIABLES
  regions,   \* Fitter::regions_, a map from keys to ROIs
  gone,      \* history: keys whose region the last operation was to remove
  lost,      \* history: keys whose region it overwrote with another one
  acts       \* operations so far

regionVars == <<regions, gone, lost, acts>>

----------------------------------------------------------------------------
(* A region: finder_.x_ is lo .. hi, empty if lo > hi; moved and unsaved are *)
(* history.                                                                  *)

NoPeaks == [c \in {} |-> 0]

\* map[k] = e
Put(map, k, e) == [x \in DOMAIN map \cup {k} |-> IF x = k THEN e ELSE map[x]]

\* the entries of one map put into another
Over(new, map) ==
  [x \in DOMAIN new \cup DOMAIN map |-> IF x \in DOMAIN new THEN new[x] ELSE map[x]]

\* Finder::find_index() of the whole spectrum, whose x_ are 0 .. Bins - 1
find_index(v) == IF v <= 0 THEN 0 ELSE IF v >= Bins THEN Bins - 1 ELSE v

width(r)     == IF r.lo > r.hi THEN 0 ELSE r.hi - r.lo + 1
left_bin(r)  == IF width(r) = 0 THEN -1 ELSE r.lo
right_bin(r) == IF width(r) = 0 THEN -1 ELSE r.hi
ID(r)        == left_bin(r)

overlaps(r, bin) == r.lo <= bin /\ bin <= r.hi

\* overlaps(Lbin, Rbin)
overlapsRange(r, d) ==
  /\ width(r) > 0
  /\ \/ overlaps(r, d[1]) \/ overlaps(r, d[2])
     \/ d[1] <= r.lo /\ d[2] >= r.hi

\* Finder::cloneRange(): from the first bin up to, and without, the last
cloneRange(r, left, right) ==
  [r EXCEPT !.lo = find_index(left), !.hi = find_index(right) - 1]

\* init_LB() and init_RB(): background samples at both ends, if there is room
init_edges(r) ==
  LET s == IF width(r) > 3 * Samples THEN Samples ELSE 0
  IN IF width(r) = 0
       THEN [r EXCEPT !.lb = <<0, 0>>, !.rb = <<0, 0>>]
       ELSE [r EXCEPT !.lb = <<r.lo, r.lo + s>>, !.rb = <<r.hi - s, r.hi>>]

\* ROI::set_data()
ROI_set_data(r, left, right) == init_edges(cloneRange(r, left, right))

EmptyROI == [lo |-> 0, hi |-> -1, lb |-> <<0, 0>>, rb |-> <<0, 0>>,
             peaks |-> NoPeaks, own |-> FALSE, fits |-> << >>, cur |-> 0,
             moved |-> FALSE, unsaved |-> FALSE]

\* the constructor ROI(parentfinder, min, max)
NewROI(left, right) == ROI_set_data(EmptyROI, left, right)

\* what a Fit keeps of a region
FitOf(r) == [lb |-> r.lb, rb |-> r.rb, peaks |-> r.peaks, own |-> r.own]

\* mutant of save_current_fit: the fits later than the one shown are cut off
SaveFitCutting(r) ==
  [r EXCEPT !.fits = Append(SubSeq(@, 1, r.cur), FitOf(r)), !.cur = r.cur + 1,
            !.unsaved = FALSE]

save_current_fit(r) ==
  [r EXCEPT !.fits = Append(@, FitOf(r)), !.cur = Len(r.fits) + 1,
            !.unsaved = FALSE]

\* a way out that leaves edges or peaks changed without saving them
Unsaved(r) == [r EXCEPT !.unsaved = TRUE]

\* the bins in which a region can be found to have a peak
Inside(r) == {c \in Centres : r.lo < c /\ c < r.hi}

Fitted(r) == {c \in DOMAIN r.peaks : r.peaks[c] \in Shapes}

\* Finder::find_index() of the region's bins
near(r, v) == IF v <= r.lo THEN r.lo ELSE IF v >= r.hi THEN r.hi ELSE v

NoSum == [over |-> <<0, 0>>, lb |-> <<0, 0>>, rb |-> <<0, 0>>]

\* the sum of a range, cut to the region's bins
SUM4(r, d) ==
  IF width(r) = 0 THEN NoSum
  ELSE [over |-> <<near(r, d[1]), near(r, d[2])>>, lb |-> r.lb, rb |-> r.rb]

\* a peak summed anew comes under the centre it then has; the last one stays
Anew(r, e)          == IF e \in Shapes THEN e ELSE SUM4(r, e.over)
CentreOf(r, c, e)   == IF e \in Shapes THEN c ELSE Centroid(SUM4(r, e.over))
SameCentre(r, p, n) == {c \in DOMAIN p : CentreOf(r, c, p[c]) = n}

Resummed(r, p) ==
  [n \in {CentreOf(r, c, p[c]) : c \in DOMAIN p} |->
     Anew(r, p[CHOOSE c \in SameCentre(r, p, n) : \A b \in SameCentre(r, p, n) : b <= c])]

\* rebuild(): the set of its results, none if there is nothing to fit.  Sums are
\* taken anew; a fit of Gaussians leaves the old ones in, under the old centres.
Rebuilt(r) ==
  LET fitted == Fitted(r)
      sums   == Resummed(r, Restrict(r.peaks, DOMAIN r.peaks \ fitted))
  IN {[r EXCEPT !.peaks = Over([c \in fitted |-> v], Over(sums, old))] :
        v \in {u \in Shapes : fitted # {}}, old \in {NoPeaks, r.peaks}}

\* add_from_resid(): a further peak is found, and all are fitted anew
FromResid(r) ==
  UNION {Rebuilt([r EXCEPT !.peaks = Put(@, c, v)]) : c \in Inside(r), v \in Shapes}

\* auto_fit(): the peaks are forgotten; if none is found, that is not saved.
\* iterative_fit() may then add one from the residuals.
AutoFitted(r) ==
  LET First == {save_current_fit([r EXCEPT !.peaks = [c \in P |-> v]]) :
                  P \in SUBSET Inside(r) \ {{}}, v \in Shapes}
      More  == UNION {{save_current_fit(n) : n \in FromResid(f)} : f \in First}
  IN {Unsaved([r EXCEPT !.peaks = NoPeaks])} \cup First \cup More

\* refit(): a failed rebuild() has not changed the region
Refitted(r) ==
  IF DOMAIN r.peaks = {} THEN AutoFitted(r)
  ELSE IF Fitted(r) = {} THEN {r}
  ELSE {save_current_fit(n) : n \in Rebuilt(r)}

\* cull_peaks(): those between the edges stay
cull_peaks(r) ==
  [r EXCEPT !.peaks = Restrict(@, {c \in DOMAIN @ : r.lb[2] < c /\ c < r.rb[1]})]

\* the end of adjust_LB() and adjust_RB(): the result of rebuild() is ignored
Adjusted(r) ==
  LET culled == cull_peaks(r)
  IN {save_current_fit(n) :
        n \in IF Fitted(culled) = {} THEN {culled} ELSE Rebuilt(culled)}

\* adjust_LB(): no result if the range is refused
adjust_LB(r, d) ==
  IF d[2] >= r.rb[1] THEN {}
  ELSE LET n == IF d[1] = left_bin(r) THEN r ELSE cloneRange(r, d[1], right_bin(r))
       IN Adjusted([n EXCEPT !.lb = d])

adjust_RB(r, d) ==
  IF d[1] <= r.lb[2] THEN {}
  ELSE LET n == IF d[2] = right_bin(r) THEN r ELSE cloneRange(r, left_bin(r), d[2])
       IN Adjusted([n EXCEPT !.rb = d])

\* a peak that is the sum of the bins of a range
SummedIn(r, d) ==
  save_current_fit([r EXCEPT !.peaks = Put(@, Centroid(SUM4(r, d)), SUM4(r, d))])

\* ROI::add_peak(): within the region, or growing it to take in the range.
\* The region keeps its key.  add_from_resid() is asked for the peak nearest
\* to a hint, and looks at filtered[-1] first: it may take any.
AddPeak(r, d) ==
  LET l == IF d[1] < r.lo THEN d[1] ELSE r.lo
      h == IF d[2] > r.hi THEN d[2] ELSE r.hi
      g == ROI_set_data([r EXCEPT !.moved = @ \/ find_index(l) # r.lo], l, h)
      Resid(n) == {save_current_fit(m) : m \in FromResid(n)}
  IN IF overlaps(r, d[1]) /\ overlaps(r, d[2])
       THEN Resid(r) \cup {SummedIn(r, d)}
       ELSE Resid(g) \cup {SummedIn(g, <<l, h>>)} \cup AutoFitted(g)

\* ROI::remove_peaks() of a region that has some of them: when the rest
\* cannot be fitted the peaks are gone, and that is not saved
WithoutPeaks(r, chosen) ==
  LET rest == [r EXCEPT !.peaks = Restrict(@, DOMAIN @ \ chosen)]
  IN IF DOMAIN rest.peaks = {} THEN {save_current_fit(rest)}
     ELSE IF Fitted(rest) = {} THEN {Unsaved(rest)}
     ELSE {save_current_fit(n) : n \in Rebuilt(rest)}

\* ROI::rollback(): the data between the edges of that fit, then the fit
rollback(r, i) ==
  LET f == r.fits[i]
      n == ROI_set_data(r, f.lb[1], f.rb[2])
  IN [n EXCEPT !.lb = f.lb, !.rb = f.rb, !.peaks = f.peaks, !.own = f.own,
               !.cur = i, !.unsaved = FALSE,
               !.moved = @ \/ left_bin(n) # left_bin(r)]

----------------------------------------------------------------------------
(* Files.  A fit is written as it is after a rollback to it, but with the    *)
(* settings that are the region's own at present.  Of a sum only the bins are*)
(* written: it is taken anew, from the bins that end where the right         *)
(* background begins.                                                        *)

\* ROI::to_xml()
to_xml(r) ==
  [cur  |-> r.cur,
   fits |-> [i \in DOMAIN r.fits |-> [FitOf(rollback(r, i)) EXCEPT !.own = r.own]]]

\* one <Fit>: the bins between the edges, the edges, then the peaks
Ground(f) ==
  [ROI_set_data(EmptyROI, f.lb[1], f.rb[1]) EXCEPT !.lb = f.lb, !.rb = f.rb]

ReadFit(f) == [f EXCEPT !.peaks = Resummed(Ground(f), @)]

\* mutant of ReadFits: peaks_ is not cleared after a fit was read
ReadFitsUncleared(fits) ==
  LET With(i, c) == {j \in 1 .. i : c \in DOMAIN ReadFit(fits[j]).peaks}
      Latest(S)  == CHOOSE j \in S : \A k \in S : k <= j
  IN [i \in DOMAIN fits |->
        [ReadFit(fits[i]) EXCEPT !.peaks =
           [c \in {b \in Bin : With(i, b) # {}} |-> ReadFit(fits[Latest(With(i, c))]).peaks[c]]]]

\* each fit is read and saved, and its peaks are forgotten
ReadFits(fits) == [i \in DOMAIN fits |-> ReadFit(fits[i])]

\* ROI::from_xml(): the fits, of which then the chosen one is shown
from_xml(f) ==
  [rollback([EmptyROI EXCEPT !.fits = ReadFits(f.fits)], f.cur) EXCEPT !.moved = FALSE]

\* Fitter::to_xml() writes the regions that have fits, from_xml() takes those
\* that have bins, under the left bin they then have; the last of a kind stays
Written(rs) == {k \in DOMAIN rs : rs[k].fits # << >>}

Loaded(rs) ==
  LET Load(k)  == from_xml(to_xml(rs[k]))
      Valid    == {k \in Written(rs) : width(Load(k)) > 0}
      At(n)    == {k \in Valid : ID(Load(k)) = n}
  IN [n \in {ID(Load(k)) : k \in Valid} |->
        Load(CHOOSE k \in At(n) : \A j \in At(n) : j <= k)]

----------------------------------------------------------------------------
(* Fitter                                                                    *)

\* regions_[newROI.ID()] = newROI
Inserted(rs, r) == Put(rs, ID(r), r)

\* the map without these keys
Erased(rs, keys) == Restrict(rs, DOMAIN rs \ keys)

\* relevant_regions(): the IDs, not the keys, of the regions that a range meets
relevant_regions(left, right) ==
  {ID(regions[k]) : k \in
     {j \in DOMAIN regions :
        LET r == regions[j]
        IN \/ left <= left_bin(r) /\ left_bin(r) <= right
           \/ left <= right_bin(r) /\ right_bin(r) <= right
           \/ overlaps(r, left) \/ overlaps(r, right)}}

RegionsInit == regions = [k \in {} |-> EmptyROI] /\ gone = {} /\ lost = {} /\ acts = 0

\* the operation: these regions, with those removed and those overwritten
Becomes(rs, removed, overwritten) ==
  /\ acts < MaxActs /\ acts' = acts + 1
  /\ regions' = rs /\ gone' = removed /\ lost' = overwritten

\* a region under its key turns into one of these
Turns(k, results) == \E n \in results : Becomes([regions EXCEPT ![k] = n], {}, {})

\* perform_fit(): find_regions() replaces all regions, the thread then fits
\* them in order unless it is stopped
find_regions ==
  [k \in {d[1] : d \in Visible} |-> NewROI(k, (CHOOSE d \in Visible : d[1] = k)[2])]

FitPeaks ==
  {fit \in [DOMAIN find_regions ->
               UNION {{r} \cup AutoFitted(r) : r \in Range(find_regions)}] :
     \E reached \in {-1} \cup DOMAIN find_regions :
       \A k \in DOMAIN find_regions :
         fit[k] \in IF k <= reached THEN AutoFitted(find_regions[k]) ELSE {find_regions[k]}}

PerformFit == \E fit \in FitPeaks : Becomes(fit, DOMAIN regions, {})

RefitROI == \E k \in DOMAIN regions : Turns(k, Refitted(regions[k]))

\* FormFitter::add_peak(), Fitter::add_peak(): the first region that the range
\* overlaps takes the peak, else there is a new one
AddPeakRange ==
  \E d \in Ranges :
    LET over == {k \in DOMAIN regions : overlapsRange(regions[k], d)}
    IN IF over # {}
         THEN LET k == CHOOSE j \in over : \A i \in over : j <= i
              IN Turns(k, AddPeak(regions[k], d))
         ELSE \E n \in AutoFitted(NewROI(d[1], d[2])) :
                Becomes(Inserted(regions, n), {}, {ID(n)} \cap DOMAIN regions)

\* mutant of Moved: the adjusted region goes back under the key it had
MovedInPlace(k, results) == Turns(k, results)

\* Fitter::adj_LB() and adj_RB(): a copy is adjusted, takes the place of the
\* region and is put under the ID it then has
Moved(k, results) ==
  \E n \in results :
    Becomes(Inserted(Erased(regions, {k}), n), {},
            {ID(n)} \cap (DOMAIN regions \ {k}))

\* Fitter::merge_regions(): keys are looked up by ID
MergeRegions(left, right) ==
  LET found == relevant_regions(left, right) \cap DOMAIN regions
      min   == CHOOSE m \in {left} \cup {left_bin(regions[k]) : k \in found} :
                 /\ m <= left /\ \A k \in found : m <= left_bin(regions[k])
      max   == CHOOSE m \in {right} \cup {right_bin(regions[k]) : k \in found} :
                 /\ m >= right /\ \A k \in found : m >= right_bin(regions[k])
      rest  == Erased(regions, found)
  IN \E n \in AutoFitted(NewROI(min, max)) :
       /\ width(n) > 0
       /\ Becomes(Inserted(rest, n), found, {ID(n)} \cap DOMAIN rest)

\* FormFitter::adjust_background(): if other regions are met, the user is
\* asked whether to merge them; a region not under its ID is turned away
AdjustLB ==
  \E k \in DOMAIN regions, d \in Ranges :
    LET rois == relevant_regions(d[1], right_bin(regions[k]))
    IN /\ k \in rois
       /\ \/ Cardinality(rois) > 1 /\ MergeRegions(d[1], right_bin(regions[k]))
          \/ Moved(k, adjust_LB(regions[k], d))

AdjustRB ==
  \E k \in DOMAIN regions, d \in Ranges :
    LET rois == relevant_regions(left_bin(regions[k]), d[2])
    IN /\ k \in rois
       /\ \/ Cardinality(rois) > 1 /\ MergeRegions(left_bin(regions[k]), d[2])
          \/ Moved(k, adjust_RB(regions[k], d))

\* delete_selected_peaks(): peaks of any regions; if no region reports that it
\* has removed some, the form keeps all as it was
RemovePeaks ==
  \E chosen \in SUBSET UNION {DOMAIN regions[k].peaks : k \in DOMAIN regions} :
    LET hit == {k \in DOMAIN regions : DOMAIN regions[k].peaks \cap chosen # {}}
    IN \E new \in [hit -> UNION {WithoutPeaks(regions[k], chosen) : k \in hit}] :
         /\ \A k \in hit : new[k] \in WithoutPeaks(regions[k], chosen)
         /\ \E k \in hit : ~new[k].unsaved
         /\ Becomes([k \in DOMAIN regions |-> IF k \in hit THEN new[k] ELSE regions[k]],
                    {}, {})

\* adjust_sum4(): the sum of a peak is taken over another range; the centre
\* of a peak without a fit is that of the sum (the sum of a fitted peak has no
\* bearing on it, and is left out)
AdjustSum4(r, c, d) ==
  IF r.peaks[c] \in Shapes
    THEN save_current_fit(r)
    ELSE SummedIn([r EXCEPT !.peaks = Restrict(@, DOMAIN @ \ {c})], d)

AdjustSum4Range ==
  \E k \in DOMAIN regions, d \in Ranges : \E c \in DOMAIN regions[k].peaks :
    /\ width(regions[k]) > 0 /\ near(regions[k], d[1]) < near(regions[k], d[2])
    /\ Turns(k, {AdjustSum4(regions[k], c, d)})

\* replace_hypermet(), from the dialog on a peak
ReplaceHypermet ==
  \E k \in DOMAIN regions, v \in Shapes : \E c \in DOMAIN regions[k].peaks :
    Turns(k, {save_current_fit([regions[k] EXCEPT !.peaks[c] = v])})

\* mutant of override_settings: no entry is made in the history
OverrideUnsaved(r) == [r EXCEPT !.own = TRUE]

\* override_settings(): settings of its own, from the dialog on a region
override_settings(r) == save_current_fit([r EXCEPT !.own = TRUE])

RoiSettings == \E k \in DOMAIN regions : Turns(k, {override_settings(regions[k])})

RollbackROI ==
  \E k \in DOMAIN regions : \E i \in DOMAIN regions[k].fits :
    Turns(k, {rollback(regions[k], i)})

DeleteROI == \E k \in DOMAIN regions : Becomes(Erased(regions, {k}), {k}, {})

\* the project is saved, closed and opened again
SaveAndLoad == Becomes(Loaded(regions), DOMAIN regions, {})

RegionsNext ==
  \/ PerformFit \/ RefitROI \/ AddPeakRange \/ AdjustLB \/ AdjustRB
  \/ RemovePeaks \/ AdjustSum4Range \/ ReplaceHypermet \/ RoiSettings
  \/ RollbackROI \/ DeleteROI \/ SaveAndLoad

RegionsSpec == RegionsInit /\ [][RegionsNext]_regionVars

----------------------------------------------------------------------------
\* a peak is fitted, or a sum that is found under its centre
PeaksTyped(p) ==
  /\ DOMAIN p \subseteq Bin
  /\ \A c \in DOMAIN p : p[c] \in Shapes \/ (p[c] \in SumType /\ Centroid(p[c]) = c)

FitTyped(f) == f.lb \in Edge /\ f.rb \in Edge /\ PeaksTyped(f.peaks) /\ f.own \in BOOLEAN

RegionTypes ==
  /\ DOMAIN regions \subseteq -1 .. Bins - 1
  /\ \A k \in DOMAIN regions :
       LET r == regions[k]
       IN /\ r.lo \in Bin /\ r.hi \in -1 .. Bins - 1 /\ FitTyped(r)
          /\ r.moved \in BOOLEAN /\ r.unsaved \in BOOLEAN
          /\ r.cur \in (IF r.fits = << >> THEN {0} ELSE DOMAIN r.fits)
          /\ \A i \in DOMAIN r.fits : FitTyped(r.fits[i])
  /\ acts \in 0 .. MaxActs

(* A region is found under its left bin, by which the form's edits, the      *)
(* merging of regions and relevant_regions() refer to it.  Not so, in the    *)
(* code, once the region was moved in place: by a peak added to the left of  *)
(* it, or a rollback to other edges (moved).                                 *)
KeysAreIds ==
  RegionTypes /\ \A k \in DOMAIN regions : k = ID(regions[k]) \/ regions[k].moved

(* What a region shows is what its history says it shows: edges, peaks and   *)
(* settings are those of the current fit, so that a rollback to any other    *)
(* fit can be undone.  Left out are regions whose last fit failed (unsaved). *)
ShownIsCurrent ==
  \A k \in DOMAIN regions :
    LET r == regions[k]
    IN r.fits # << >> /\ ~r.unsaved => FitOf(r) = r.fits[r.cur]

(* Saving and loading gives back each region that has a history: its fits,   *)
(* the one chosen, the edges and peaks of that one and the region's present  *)
(* settings.  Left out are the peaks of a fit with a sum that reaches the    *)
(* right background, which the bins it is taken anew from are without, or    *)
(* that was last taken when the edges were others: such a sum, and the bin it*)
(* is found under, come back changed.  (Of the settings of earlier fits only *)
(* the present ones are written; two regions that begin at the same bin      *)
(* become one; and one of a single bin is lost.)  What a file has given back *)
(* once it gives back for ever, with no exception.                           *)
Settled(f) ==
  \A c \in DOMAIN f.peaks :
    \/ f.peaks[c] \in Shapes
    \/ LET sum == f.peaks[c]
       IN /\ sum.lb = f.lb /\ sum.rb = f.rb
          /\ f.lb[1] <= sum.over[1] /\ sum.over[1] <= sum.over[2]
          /\ sum.over[2] < f.rb[1]

GivenBack(r, l) ==
  /\ l.cur = r.cur /\ l.own = r.own /\ FitOf(l) = l.fits[l.cur]
  /\ Len(l.fits) = Len(r.fits)
  /\ \A i \in DOMAIN r.fits :
       /\ l.fits[i].lb = r.fits[i].lb /\ l.fits[i].rb = r.fits[i].rb
       /\ Settled(r.fits[i]) => l.fits[i].peaks = r.fits[i].peaks

LoadGivesBack ==
  LET Start(k) == regions[k].fits[regions[k].cur].lb[1]
      End(k)   == regions[k].fits[regions[k].cur].rb[2]
      loaded   == Loaded(regions)
  IN /\ \A k \in Written(regions) :
          \/ \E j \in Written(regions) \ {k} : Start(j) = Start(k)
          \/ Start(k) >= End(k)
          \/ GivenBack(regions[k], loaded[Start(k)])
     /\ Loaded(loaded) = loaded

(* An edit adds to the history of a region and takes nothing from it, also   *)
(* when the region changes its key or is edited after a rollback: any fit    *)
(* that was ever saved can be returned to.  Left out are regions that the    *)
(* operation is there to remove, and those whose key another region took:    *)
(* adjusting an edge overwrites a neighbour that begins where it then does.  *)
HistoryIsKept ==
  [][\A k \in DOMAIN regions \ (gone' \cup lost') :
       \E j \in DOMAIN regions' : IsPrefix(regions[k].fits, regions'[j].fits)]_regionVars
=============================================================================
