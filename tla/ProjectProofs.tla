---------------------------- MODULE ProjectProofs ----------------------------
(***************************************************************************)
(* Proofs about Project for any number of sinks and spills: a project that *)
(* differs from its file says so, new data are told of, and a fit is of    *)
(* the sink it is kept for, each but for the exception the property names. *)
(***************************************************************************)
EXTENDS Project, SequenceTheorems, WellFoundedInduction, TLAPS

-----------------------------------------------------------------------------
(* The inductive invariant: what a save writes, and what is in the file    *)

\* the fits that from_xml() has a sink for
Kept(f, s) == [i \in DOMAIN f \cap DOMAIN s |-> f[i]]

\* the fit under each index is of the sink under that index
Own(f, s) == DOMAIN f \subseteq DOMAIN s /\ \A i \in DOMAIN f : f[i] = s[i]

\* A project without sinks has no data, and neither has its file.
ContentInv ==
  /\ content = [sinks |-> sinks_, fitters |-> Kept(fitters_1d_, sinks_),
                spills |-> content.spills]
  /\ sinks_ = <<>> => content.spills = 0

FileInv ==
  /\ file = [sinks |-> file.sinks, fitters |-> Kept(file.fitters, file.sinks),
             spills |-> file.spills]
  /\ file.sinks = <<>> => file.spills = 0
  /\ Range(file.sinks) \subseteq 1..made /\ Range(file.fitters) \subseteq 1..made
  /\ \E k \in Nat : DOMAIN file.sinks \subseteq 1..k

\* No fit is left over for the next sink to get, here or in the file.
FitsInv ==
  ~deleted => Own(fitters_1d_, sinks_) /\ Own(file.fitters, file.sinks)

Inv == ChangesAreKnown /\ NewDataIsTold /\ ContentInv /\ FileInv /\ FitsInv

-----------------------------------------------------------------------------
(* The helpers of the model                                                *)

\* A map without indices is the empty one, in content and in file alike.
LEMMA EmptyMap == ASSUME NEW f, NEW s, s = <<>>
                  PROVE  Kept(f, s) = <<>>
<1> DEFINE g == Kept(f, s)
<1>1. g = [i \in {} |-> f[i]]
  BY DEF Kept
<1>2. g \in [1..0 -> Nat]
  <2>1. 1..0 = {}
    OBVIOUS
  <2> QED  BY <1>1, <2>1
<1>3. g \in Seq(Nat)
  BY <1>2, SeqDef
<1>4. Len(g) = 0
  BY <1>2, <1>3, LenProperties
<1> QED
  BY <1>3, <1>4, EmptySeq

\* What With() and Without() leave of a map.
LEMMA WithIs == ASSUME NEW f, NEW i, NEW x
                PROVE  /\ DOMAIN With(f, i, x) = DOMAIN f \cup {i}
                       /\ With(f, i, x)[i] = x
                       /\ \A j \in DOMAIN f \ {i} : With(f, i, x)[j] = f[j]
                       /\ Range(With(f, i, x)) \subseteq Range(f) \cup {x}
BY DEF With, Range

LEMMA WithoutIs == ASSUME NEW f, NEW i
                   PROVE  /\ DOMAIN Without(f, i) = DOMAIN f \ {i}
                          /\ \A j \in DOMAIN f \ {i} : Without(f, i)[j] = f[j]
                          /\ Range(Without(f, i)) \subseteq Range(f)
BY DEF Without, Range

\* read_xml() looks for the highest index in the file: there is one.
LEMMA MaxOfIs == ASSUME NEW k \in Nat, NEW S, S \subseteq 1..k
                 PROVE  /\ MaxOf({0} \cup S) \in Nat
                        /\ \A y \in S : y <= MaxOf({0} \cup S)
<1> DEFINE T == {0} \cup S
           U == {k - y : y \in T}
<1>1. T \subseteq 0..k /\ 0 \in T
  OBVIOUS
<1>2. U \subseteq Nat /\ U # {}
  BY <1>1
<1>3. PICK u \in U : \A v \in U : ~(<<v, u>> \in OpToRel(<, Nat))
  <2> HIDE DEF U
  <2> QED  BY <1>2, WFMin, NatLessThanWellFounded
<1>4. \A v \in U : ~(v < u)
  BY <1>2, <1>3 DEF OpToRel
<1>5. PICK x \in T : u = k - x
  BY <1>3
<1>6. \A y \in T : y <= x
  <2> TAKE y \in T
  <2>1. k - y \in U
    OBVIOUS
  <2>2. ~(k - y < k - x)
    BY <2>1, <1>4, <1>5
  <2>3. x \in Nat /\ y \in Nat
    BY <1>1
  <2> QED
    BY <2>2, <2>3
<1>7. MaxOf(T) \in T /\ \A y \in T : y <= MaxOf(T)
  BY <1>6 DEF MaxOf
<1>8. MaxOf(T) \in 0..k
  <2> HIDE DEF T
  <2> QED  BY <1>1, <1>7
<1>9. \A y \in S : y <= MaxOf(T)
  BY <1>7
<1> QED
  BY <1>8, <1>9

-----------------------------------------------------------------------------
(* Types                                                                   *)

\* the part of TypeOK that has no arithmetic in it ...
FlagTypes == /\ ready_ \in BOOLEAN /\ newdata_ \in BOOLEAN /\ changed_ \in BOOLEAN
             /\ terminating_ \in BOOLEAN /\ plot_ready \in BOOLEAN
             /\ plot \in {"test", "lock", "wait", "emit", "exited"}
             /\ gui \in {"ready", "edited", "activate", "join"}
             /\ unseen \in BOOLEAN /\ hidden \in BOOLEAN /\ skipped \in BOOLEAN
             /\ deleted \in BOOLEAN /\ failed \in BOOLEAN

\* ... and the one about indices and sinks
MapTypes == /\ current_index_ \in Nat /\ \A i \in DOMAIN sinks_ : i \in 1..current_index_
            /\ Range(sinks_) \subseteq 1..made /\ Range(fitters_1d_) \subseteq 1..made
            /\ made \in 0..MaxSinks

CountTypes == spills \in 0..MaxSpills

LEMMA TypeParts == TypeOK <=> FlagTypes /\ MapTypes /\ CountTypes
BY DEF TypeOK, FlagTypes, MapTypes, CountTypes

LEMMA FlagsStep == FlagTypes /\ [Next]_vars => FlagTypes'
<1> SUFFICES ASSUME FlagTypes, [Next]_vars PROVE FlagTypes'
  OBVIOUS
<1> USE DEF FlagTypes, Flags, NotifyAll, NotifyNobody
<1>1. CASE add_spill
  BY <1>1 DEF add_spill
<1>2. CASE add_sink
  BY <1>2 DEF add_sink
<1>3. CASE add_prototype
  BY <1>3 DEF add_prototype
<1>4. CASE set_prototypes
  BY <1>4 DEF set_prototypes
<1>5. CASE clear
  BY <1>5 DEF clear
<1>6. CASE save
  BY <1>6 DEF save
<1>7. CASE read_xml
  BY <1>7 DEF read_xml
<1>8. CASE \E i \in DOMAIN sinks_ : delete_sink(i)
  BY <1>8 DEF delete_sink
<1>9. CASE \E i \in DOMAIN sinks_ : update_fitter(i)
  BY <1>9 DEF update_fitter, threadVars
<1>10. CASE activate
  BY <1>10 DEF activate, userVars
<1>11. CASE SetTerminating
  BY <1>11 DEF SetTerminating, projectVars, userVars
<1>12. CASE GuiStep
  <2>1. CASE Activate
    BY <2>1 DEF Activate, userVars
  <2>2. CASE Joined
    BY <2>2 DEF Joined, projectVars, userVars
  <2>3. CASE activate
    BY <2>3 DEF activate, userVars
  <2>4. CASE update_plots
    <3>1. newdata_' \in BOOLEAN /\ unseen' \in BOOLEAN /\ hidden' \in BOOLEAN /\ skipped' \in BOOLEAN
      BY <2>4 DEF update_plots, new_data, NotVisible
    <3> QED
      BY <2>4, <3>1 DEF update_plots
  <2> QED
    BY <1>12, <2>1, <2>2, <2>3, <2>4 DEF GuiStep
<1>13. CASE Restart
  BY <1>13 DEF Restart, projectVars, userVars
<1>14. CASE PlotThread
  <2>1. CASE TestTerminating
    BY <2>1 DEF TestTerminating, projectVars, userVars
  <2>2. CASE wait_ready
    BY <2>2 DEF wait_ready, userVars
  <2>3. CASE Emit
    BY <2>3 DEF Emit, projectVars, userVars
  <2> QED
    BY <1>14, <2>1, <2>2, <2>3 DEF PlotThread
<1>15. CASE UNCHANGED vars
  BY <1>15 DEF vars, projectVars, threadVars, userVars
<1>16. CASE on_pushEnable2d_clicked
  <2>1. newdata_' \in BOOLEAN /\ unseen' \in BOOLEAN /\ hidden' \in BOOLEAN /\ skipped' \in BOOLEAN
    BY <1>16 DEF on_pushEnable2d_clicked, new_data
  <2> QED
    BY <1>16, <2>1 DEF on_pushEnable2d_clicked, threadVars
<1> QED
  BY <1>1, <1>2, <1>3, <1>4, <1>5, <1>6, <1>7, <1>8, <1>9, <1>10, <1>11, <1>12, <1>13,
     <1>14, <1>15, <1>16 DEF Next

\* The steps that leave the project and its file as they are.
Elsewhere == UNCHANGED <<current_index_, sinks_, fitters_1d_, made, spills, content, file>>

LEMMA OtherSteps ==
  activate \/ on_pushEnable2d_clicked \/ SetTerminating \/ GuiStep \/ Restart \/ PlotThread
    \/ UNCHANGED vars
    => Elsewhere /\ UNCHANGED <<changed_, deleted, failed>>
BY DEF activate, on_pushEnable2d_clicked, SetTerminating, GuiStep, Activate, Joined,
       update_plots, new_data, NotVisible, Restart, PlotThread,
       TestTerminating, wait_ready, Emit, vars, projectVars, threadVars, userVars, Elsewhere

LEMMA NewSinkTypes == ASSUME MapTypes, NEW i \in Nat, i > 0, NewSink(i),
                             i = current_index_ + 1 \/ sinks_ = <<>>,
                             fitters_1d_' \in {fitters_1d_, <<>>}
                      PROVE  MapTypes'
<1>1. made' \in 0..MaxSinks /\ made \in Nat /\ made' = made + 1
  BY ProjectAssumption DEF MapTypes, NewSink
<1>2. sinks_' = With(sinks_, i, made + 1) /\ current_index_' = i
  BY DEF NewSink
<1>3. DOMAIN sinks_' = DOMAIN sinks_ \cup {i} /\ Range(sinks_') \subseteq Range(sinks_) \cup {made + 1}
  BY <1>2, WithIs
<1>4. \A j \in DOMAIN sinks_' : j \in 1..i
  <2>1. CASE i = current_index_ + 1
    BY <2>1, <1>3 DEF MapTypes
  <2>2. CASE sinks_ = <<>>
    BY <2>2, <1>3
  <2> QED
    BY <2>1, <2>2
<1>5. Range(sinks_') \subseteq 1..made'
  BY <1>1, <1>3 DEF MapTypes
<1>6. Range(fitters_1d_') \subseteq 1..made'
  <2>1. CASE fitters_1d_' = fitters_1d_
    BY <2>1, <1>1 DEF MapTypes
  <2>2. CASE fitters_1d_' = <<>>
    BY <2>2 DEF Range
  <2> QED
    BY <2>1, <2>2
<1> QED
  BY <1>1, <1>2, <1>4, <1>5, <1>6 DEF MapTypes

LEMMA MapsStep == MapTypes /\ FileInv /\ [Next]_vars => MapTypes'
<1> SUFFICES ASSUME MapTypes, FileInv, [Next]_vars PROVE MapTypes'
  OBVIOUS
<1>1. CASE add_spill
  BY <1>1 DEF add_spill, MapTypes
<1>2. CASE add_sink \/ add_prototype
  <2>1. NewSink(current_index_ + 1) /\ fitters_1d_' = fitters_1d_
    BY <1>2 DEF add_sink, add_prototype
  <2>2. current_index_ + 1 \in Nat /\ current_index_ + 1 > 0
    BY DEF MapTypes
  <2> QED
    BY <2>1, <2>2, NewSinkTypes
<1>3. CASE set_prototypes
  BY <1>3, NewSinkTypes DEF set_prototypes
<1>4. CASE clear
  BY <1>4 DEF clear, MapTypes, Range
<1>5. CASE save
  BY <1>5 DEF save, MapTypes
<1>6. CASE read_xml
  <2> DEFINE S == DOMAIN file.sinks
  <2>1. PICK k \in Nat : S \subseteq 1..k
    BY DEF FileInv
  <2>2. MaxOf({0} \cup S) \in Nat /\ \A y \in S : y <= MaxOf({0} \cup S)
    BY <2>1, MaxOfIs
  <2>3. sinks_' = file.sinks /\ current_index_' = MaxOf({0} \cup S) + 1 /\ made' = made
        /\ fitters_1d_' = Kept(file.fitters, file.sinks)
    BY <1>6 DEF read_xml, Kept
  <2>4. current_index_' \in Nat /\ \A i \in DOMAIN sinks_' : i \in 1..current_index_'
    <3> HIDE DEF S
    <3>1. \A i \in S : i \in Nat /\ i >= 1
      BY <2>1
    <3>2. DOMAIN sinks_' = S
      BY <2>3 DEF S
    <3> QED
      BY <2>2, <2>3, <3>1, <3>2
  <2>5. Range(sinks_') \subseteq 1..made'
    BY <2>3 DEF FileInv
  <2>6. Range(fitters_1d_') \subseteq Range(file.fitters)
    BY <2>3 DEF Kept, Range
  <2> QED
    BY <2>3, <2>4, <2>5, <2>6 DEF FileInv, MapTypes
<1>7. CASE \E i \in DOMAIN sinks_ : delete_sink(i)
  <2>1. PICK i \in DOMAIN sinks_ : delete_sink(i)
    BY <1>7
  <2>2. sinks_' = Without(sinks_, i) /\ UNCHANGED <<fitters_1d_, made>>
        /\ current_index_' = IF sinks_' = <<>> THEN 0 ELSE current_index_
    BY <2>1 DEF delete_sink
  <2>3. DOMAIN sinks_' \subseteq DOMAIN sinks_ /\ Range(sinks_') \subseteq Range(sinks_)
    BY <2>2, WithoutIs
  <2>4. current_index_' \in Nat /\ \A j \in DOMAIN sinks_' : j \in 1..current_index_'
    <3>1. CASE sinks_' = <<>>
      BY <3>1, <2>2
    <3>2. CASE sinks_' # <<>>
      BY <3>2, <2>2, <2>3 DEF MapTypes
    <3> QED
      BY <3>1, <3>2
  <2> QED
    BY <2>2, <2>3, <2>4 DEF MapTypes
<1>8. CASE \E i \in DOMAIN sinks_ : update_fitter(i)
  <2>1. PICK i \in DOMAIN sinks_ : update_fitter(i)
    BY <1>8
  <2>2. fitters_1d_' = With(fitters_1d_, i, sinks_[i])
        /\ UNCHANGED <<sinks_, current_index_, made>>
    BY <2>1 DEF update_fitter
  <2>3. Range(fitters_1d_') \subseteq Range(fitters_1d_) \cup {sinks_[i]}
    BY <2>2, WithIs
  <2>4. sinks_[i] \in Range(sinks_)
    BY DEF Range
  <2> QED
    BY <2>2, <2>3, <2>4 DEF MapTypes
<1>9. CASE Elsewhere
  BY <1>9 DEF Elsewhere, MapTypes
<1> QED
  BY <1>1, <1>2, <1>3, <1>4, <1>5, <1>6, <1>7, <1>8, <1>9, OtherSteps DEF Next

LEMMA CountsStep == CountTypes /\ [Next]_vars => CountTypes'
<1> SUFFICES ASSUME CountTypes, [Next]_vars PROVE CountTypes'
  OBVIOUS
<1>1. CASE add_spill
  BY <1>1, ProjectAssumption DEF add_spill, CountTypes
<1>2. CASE ~add_spill
  <2>1. spills' = spills
    BY <1>2 DEF Next, add_sink, add_prototype, set_prototypes, clear, save, read_xml,
       delete_sink, update_fitter, activate, on_pushEnable2d_clicked, SetTerminating, GuiStep,
       Activate, Joined, update_plots, Restart, PlotThread, TestTerminating, wait_ready, Emit, vars, userVars
  <2> QED
    BY <2>1 DEF CountTypes
<1> QED
  BY <1>1, <1>2

LEMMA TypesStep == TypeOK /\ FileInv /\ [Next]_vars => TypeOK'
<1>1. TypeOK' <=> FlagTypes' /\ MapTypes' /\ CountTypes'
  BY DEF TypeOK, FlagTypes, MapTypes, CountTypes
<1> QED
  BY <1>1, TypeParts, FlagsStep, MapsStep, CountsStep

-----------------------------------------------------------------------------
(* Contents and file                                                       *)

\* ContentNow() is what a save writes, whatever was written before.
LEMMA ContentIs == ASSUME NEW s, NEW f, ContentNow(s, f)
                   PROVE  /\ content' = [sinks |-> s, fitters |-> Kept(f, s),
                                         spills |-> content'.spills]
                          /\ content'.spills = IF s = <<>> THEN 0 ELSE content.spills
<1> DEFINE F == [i \in DOMAIN f \cap DOMAIN s |-> f[i]]
           n == IF s = <<>> THEN 0 ELSE content.spills
<1>1. content' = [sinks |-> s, fitters |-> F, spills |-> n]
  BY DEF ContentNow
<1>2. F = Kept(f, s)
  BY DEF Kept
<1> HIDE DEF F, n
<1>3. content'.spills = n
  BY <1>1
<1> QED
  BY <1>1, <1>2, <1>3 DEF n

LEMMA ContentStep == ContentInv /\ FileInv /\ [Next]_vars => ContentInv'
<1> SUFFICES ASSUME ContentInv, FileInv, [Next]_vars PROVE ContentInv'
  OBVIOUS
<1>1. ASSUME ContentNow(sinks_', fitters_1d_') PROVE ContentInv'
  BY <1>1, ContentIs DEF ContentInv
<1>2. CASE add_spill
  <2>1. UNCHANGED <<sinks_, fitters_1d_>>
        /\ content' = [content EXCEPT !.spills = IF sinks_ # <<>> THEN spills + 1 ELSE @]
    BY <1>2 DEF add_spill
  <2> DEFINE c == content
             n == IF sinks_ # <<>> THEN spills + 1 ELSE c.spills
             F == Kept(fitters_1d_, sinks_)
  <2>2. c = [sinks |-> sinks_, fitters |-> F, spills |-> c.spills]
    BY DEF ContentInv
  <2>3. content' = [c EXCEPT !.spills = n]
    BY <2>1
  <2> HIDE DEF c, n, F
  <2>4. content' = [sinks |-> sinks_, fitters |-> F, spills |-> n] /\ content'.spills = n
    BY <2>2, <2>3
  <2>5. sinks_ = <<>> => n = 0
    BY DEF n, c, ContentInv
  <2>6. Kept(fitters_1d_', sinks_') = F
    BY <2>1 DEF F
  <2> QED
    BY <2>1, <2>4, <2>5, <2>6 DEF ContentInv
<1>3. CASE add_sink \/ add_prototype
  BY <1>1, <1>3 DEF add_sink, add_prototype
<1>4. CASE set_prototypes
  BY <1>1, <1>4 DEF set_prototypes
<1>5. CASE clear
  BY <1>1, <1>5 DEF clear
<1>6. CASE save
  BY <1>6 DEF save, ContentInv
<1>7. CASE read_xml
  <2>1. sinks_' = file.sinks /\ fitters_1d_' = Kept(file.fitters, file.sinks)
        /\ content' = [file EXCEPT !.fitters = fitters_1d_']
    BY <1>7 DEF read_xml, Kept
  <2>2. content' = file
    BY <2>1 DEF FileInv
  <2>3. Kept(file.fitters, file.sinks) = file.fitters
    BY DEF FileInv
  <2>4. Kept(fitters_1d_', sinks_') = file.fitters
    BY <2>1, <2>3
  <2> QED
    BY <2>1, <2>2, <2>4, <2>3 DEF ContentInv, FileInv
<1>8. CASE \E i \in DOMAIN sinks_ : delete_sink(i)
  BY <1>1, <1>8 DEF delete_sink
<1>9. CASE \E i \in DOMAIN sinks_ : update_fitter(i)
  BY <1>1, <1>9 DEF update_fitter
<1>10. CASE Elsewhere
  BY <1>10 DEF Elsewhere, ContentInv
<1> QED
  BY <1>2, <1>3, <1>4, <1>5, <1>6, <1>7, <1>8, <1>9, <1>10, OtherSteps DEF Next

\* A step that leaves the file alone leaves it well formed.
LEMMA FileKept == ASSUME FileInv, file' = file, made \in Nat,
                         made' = made \/ made' = made + 1
                  PROVE  FileInv'
<1>1. 1..made \subseteq 1..made'
  OBVIOUS
<1>2. Range(file.sinks) \subseteq 1..made' /\ Range(file.fitters) \subseteq 1..made'
  BY <1>1 DEF FileInv
<1> QED
  BY <1>2 DEF FileInv

\* What is saved is well formed since the project is.
LEMMA SavedIsFormed == ASSUME MapTypes, ContentInv, file' = content, made' = made
                       PROVE  FileInv'
<1>1. content.sinks = sinks_ /\ content.fitters = Kept(fitters_1d_, sinks_)
  BY DEF ContentInv
<1>2. Kept(content.fitters, content.sinks) = content.fitters
  BY <1>1 DEF Kept
<1>3. Range(content.fitters) \subseteq Range(fitters_1d_)
  BY <1>1 DEF Kept, Range
<1>4. current_index_ \in Nat /\ DOMAIN content.sinks \subseteq 1..current_index_
  BY <1>1 DEF MapTypes
<1> QED
  BY <1>1, <1>2, <1>3, <1>4 DEF FileInv, ContentInv, MapTypes

LEMMA FileStep == MapTypes /\ ContentInv /\ FileInv /\ [Next]_vars => FileInv'
<1> SUFFICES ASSUME MapTypes, ContentInv, FileInv, [Next]_vars PROVE FileInv'
  OBVIOUS
<1>1. made \in Nat
  BY ProjectAssumption DEF MapTypes
<1>2. CASE add_sink \/ add_prototype \/ set_prototypes
  <2>1. file' = file /\ made' = made + 1
    BY <1>2 DEF add_sink, add_prototype, set_prototypes, NewSink
  <2> QED
    BY <1>1, <2>1, FileKept
<1>3. CASE save
  BY <1>1, <1>3, FileKept, SavedIsFormed DEF save
<1>4. CASE read_xml
  <2>1. file' = [file EXCEPT !.fitters = Kept(file.fitters, file.sinks)] /\ made' = made
    BY <1>4 DEF read_xml, Kept
  <2>2. file' = file
    BY <2>1 DEF FileInv
  <2> QED
    BY <1>1, <2>1, <2>2, FileKept
<1>5. CASE add_spill \/ clear \/ \E i \in DOMAIN sinks_ : delete_sink(i) \/ update_fitter(i)
  <2>1. file' = file /\ made' = made
    BY <1>5 DEF add_spill, clear, delete_sink, update_fitter
  <2> QED
    BY <1>1, <2>1, FileKept
<1>6. CASE Elsewhere
  BY <1>1, <1>6, FileKept DEF Elsewhere
<1> QED
  BY <1>2, <1>3, <1>4, <1>5, <1>6, OtherSteps DEF Next

-----------------------------------------------------------------------------
(* The three properties                                                    *)

\* An index that is new has no fit yet.
LEMMA NewSinkOwns == ASSUME Own(fitters_1d_, sinks_), MapTypes,
                            NewSink(current_index_ + 1), fitters_1d_' = fitters_1d_
                     PROVE  Own(fitters_1d_', sinks_')
<1> DEFINE i == current_index_ + 1
<1>1. i \notin DOMAIN sinks_
  BY DEF MapTypes
<1>2. sinks_' = With(sinks_, i, made + 1)
  BY DEF NewSink
<1>3. DOMAIN sinks_' = DOMAIN sinks_ \cup {i} /\ \A j \in DOMAIN sinks_ \ {i} : sinks_'[j] = sinks_[j]
  <2> HIDE DEF i
  <2> QED  BY <1>2 DEF With
<1> QED
  BY <1>1, <1>3 DEF Own

LEMMA FitsStep == MapTypes /\ ContentInv /\ FileInv /\ FitsInv /\ [Next]_vars => FitsInv'
<1> SUFFICES ASSUME MapTypes, ContentInv, FileInv, FitsInv, [Next]_vars, ~deleted'
             PROVE  Own(fitters_1d_', sinks_') /\ Own(file'.fitters, file'.sinks)
  BY DEF FitsInv
<1>1. deleted => deleted'
  BY OtherSteps DEF Next, add_spill, add_sink, add_prototype, set_prototypes, clear, save, read_xml,
     delete_sink, update_fitter
<1>2. Own(fitters_1d_, sinks_) /\ Own(file.fitters, file.sinks)
  BY <1>1 DEF FitsInv
<1>3. CASE add_sink \/ add_prototype
  <2>1. NewSink(current_index_ + 1) /\ fitters_1d_' = fitters_1d_ /\ file' = file
    BY <1>3 DEF add_sink, add_prototype
  <2> QED
    BY <1>2, <2>1, NewSinkOwns
<1>4. CASE set_prototypes \/ clear
  <2>1. fitters_1d_' = <<>> /\ file' = file
    BY <1>4 DEF set_prototypes, clear
  <2> QED
    BY <1>2, <2>1 DEF Own
<1>5. CASE save
  <2>1. UNCHANGED <<sinks_, fitters_1d_>> /\ file' \in {content, file}
    BY <1>5 DEF save
  <2>2. content.sinks = sinks_ /\ content.fitters = Kept(fitters_1d_, sinks_)
    BY DEF ContentInv
  <2>3. Own(content.fitters, content.sinks)
    BY <1>2, <2>2 DEF Own, Kept
  <2> QED
    BY <1>2, <2>1, <2>3
<1>6. CASE read_xml
  <2>1. sinks_' = file.sinks /\ fitters_1d_' = Kept(file.fitters, file.sinks)
        /\ file' = [file EXCEPT !.fitters = fitters_1d_']
    BY <1>6 DEF read_xml, Kept
  <2>2. fitters_1d_' = file.fitters /\ file' = file
    BY <2>1 DEF FileInv
  <2> QED
    BY <1>2, <2>1, <2>2
<1>7. CASE \E i \in DOMAIN sinks_ : delete_sink(i)
  <2>1. PICK i \in DOMAIN sinks_ : delete_sink(i)
    BY <1>7
  <2>2. sinks_' = Without(sinks_, i) /\ fitters_1d_' = fitters_1d_ /\ file' = file
        /\ i \notin DOMAIN fitters_1d_
    BY <2>1 DEF delete_sink
  <2>3. DOMAIN sinks_' = DOMAIN sinks_ \ {i} /\ \A j \in DOMAIN sinks_ \ {i} : sinks_'[j] = sinks_[j]
    BY <2>2, WithoutIs
  <2> QED
    BY <1>2, <2>2, <2>3 DEF Own
<1>8. CASE \E i \in DOMAIN sinks_ : update_fitter(i)
  <2>1. PICK i \in DOMAIN sinks_ : update_fitter(i)
    BY <1>8
  <2>2. fitters_1d_' = With(fitters_1d_, i, sinks_[i]) /\ sinks_' = sinks_ /\ file' = file
    BY <2>1 DEF update_fitter
  <2>3. DOMAIN fitters_1d_' = DOMAIN fitters_1d_ \cup {i} /\ fitters_1d_'[i] = sinks_[i]
        /\ \A j \in DOMAIN fitters_1d_ \ {i} : fitters_1d_'[j] = fitters_1d_[j]
    BY <2>2 DEF With
  <2> QED
    BY <1>2, <2>2, <2>3 DEF Own
<1>9. CASE add_spill \/ Elsewhere
  <2>1. UNCHANGED <<sinks_, fitters_1d_, file>>
    BY <1>9 DEF add_spill, Elsewhere
  <2> QED
    BY <1>2, <2>1
<1> QED
  BY <1>3, <1>4, <1>5, <1>6, <1>7, <1>8, <1>9, OtherSteps DEF Next

LEMMA NewDataStep == TypeOK /\ NewDataIsTold /\ [Next]_vars => NewDataIsTold'
<1> SUFFICES ASSUME FlagTypes, NewDataIsTold, [Next]_vars PROVE NewDataIsTold'
  BY TypeParts
<1> USE DEF NewDataIsTold, Flags
<1>1. CASE add_spill
  BY <1>1 DEF add_spill
<1>2. CASE add_sink \/ add_prototype \/ set_prototypes
  <2>1. CASE add_sink
    BY <2>1 DEF add_sink
  <2>2. CASE add_prototype
    BY <2>2 DEF add_prototype, FlagTypes
  <2>3. CASE set_prototypes
    BY <2>3 DEF set_prototypes
  <2> QED
    BY <1>2, <2>1, <2>2, <2>3
<1>3. CASE clear \/ save \/ read_xml
  BY <1>3 DEF clear, save, read_xml
<1>4. CASE \E i \in DOMAIN sinks_ : delete_sink(i) \/ update_fitter(i)
  <2>1. CASE \E i \in DOMAIN sinks_ : delete_sink(i)
    <3>1. hidden' = unseen'
      BY <2>1 DEF delete_sink
    <3>2. unseen' \in BOOLEAN
      BY <2>1 DEF delete_sink, FlagTypes
    <3> QED
      BY <3>1, <3>2
  <2>2. CASE \E i \in DOMAIN sinks_ : update_fitter(i)
    BY <2>2 DEF update_fitter
  <2> QED
    BY <1>4, <2>1, <2>2
<1>5. CASE update_plots \/ on_pushEnable2d_clicked
  BY <1>5 DEF update_plots, on_pushEnable2d_clicked, new_data, NotVisible, FlagTypes
<1>6. CASE activate \/ SetTerminating \/ (GuiStep /\ ~update_plots) \/ Restart \/ PlotThread
           \/ UNCHANGED vars
  BY <1>6 DEF activate, SetTerminating, GuiStep, Activate, Joined, Restart, PlotThread,
     TestTerminating, wait_ready, Emit, vars, projectVars, threadVars, userVars
<1> QED
  BY <1>1, <1>2, <1>3, <1>4, <1>5, <1>6 DEF Next

\* Only a save and a load clear changed_, and then the file is up to date or
\* the save has failed; and clear() of an empty project changes nothing.
LEMMA ChangesStep == Inv /\ [Next]_vars => (content' # file' => changed_' \/ failed')
<1> SUFFICES ASSUME Inv, [Next]_vars, content' # file' PROVE changed_' \/ failed'
  OBVIOUS
<1> USE DEF Flags
<1>1. CASE add_spill \/ add_sink \/ add_prototype \/ set_prototypes
  BY <1>1 DEF add_spill, add_sink, add_prototype, set_prototypes
<1>2. CASE \E i \in DOMAIN sinks_ : delete_sink(i) \/ update_fitter(i)
  BY <1>2 DEF delete_sink, update_fitter
<1>3. CASE save
  BY <1>3 DEF save
<1>4. CASE read_xml
  BY <1>4 DEF read_xml, Inv, FileInv, Kept
<1>5. CASE clear /\ sinks_ # <<>>
  BY <1>5 DEF clear
<1>6. CASE clear /\ sinks_ = <<>>
  <2>1. ContentNow(<<>>, <<>>) /\ UNCHANGED <<file, failed>> /\ changed_' = changed_
    BY <1>6 DEF clear, Inv, ChangesAreKnown, TypeOK
  <2>2. content' = [sinks |-> <<>>, fitters |-> <<>>, spills |-> 0]
    BY <2>1, ContentIs, EmptyMap
  <2>3. content = [sinks |-> <<>>, fitters |-> <<>>, spills |-> 0]
    <3>1. content.spills = 0 /\ Kept(fitters_1d_, sinks_) = <<>>
      BY <1>6, EmptyMap DEF Inv, ContentInv
    <3> QED
      BY <1>6, <3>1 DEF Inv, ContentInv
  <2> QED
    BY <2>1, <2>2, <2>3 DEF Inv, ChangesAreKnown
<1>7. CASE Elsewhere /\ UNCHANGED <<changed_, failed>>
  BY <1>7 DEF Elsewhere, Inv, ChangesAreKnown
<1> QED
  BY <1>1, <1>2, <1>3, <1>4, <1>5, <1>6, <1>7, OtherSteps DEF Next

-----------------------------------------------------------------------------
(* The theorems                                                            *)

LEMMA InitInv == Init => Inv
<1> SUFFICES ASSUME Init PROVE Inv
  OBVIOUS
<1>1. TypeOK
  <2>1. FlagTypes
    BY DEF Init, FlagTypes
  <2>2. DOMAIN sinks_ = {} /\ DOMAIN fitters_1d_ = {}
    BY DEF Init
  <2>3. MapTypes
    BY <2>2, ProjectAssumption DEF Init, MapTypes, Range
  <2>4. CountTypes
    BY ProjectAssumption DEF Init, CountTypes
  <2> QED
    BY <2>1, <2>3, <2>4, TypeParts
<1>2. content = Nothing /\ file = Nothing /\ sinks_ = <<>> /\ fitters_1d_ = <<>>
  BY DEF Init
<1>3. Kept(<<>>, <<>>) = <<>>
  BY EmptyMap
<1>4. ContentInv
  BY <1>2, <1>3 DEF ContentInv, Nothing
<1>5. FileInv
  <2>1. file = [sinks |-> <<>>, fitters |-> <<>>, spills |-> 0]
    BY <1>2 DEF Nothing
  <2>2. file.sinks = <<>> /\ file.fitters = <<>> /\ file.spills = 0
    BY <2>1
  <2>3. Range(<<>>) = {} /\ DOMAIN file.sinks \subseteq 1..0
    BY <2>2 DEF Range
  <2> QED
    BY <1>3, <2>1, <2>2, <2>3 DEF FileInv
<1>6. FitsInv
  BY <1>2 DEF FitsInv, Own, Nothing
<1>7. ChangesAreKnown /\ NewDataIsTold
  BY <1>1, <1>2 DEF ChangesAreKnown, NewDataIsTold, Init
<1> QED
  BY <1>4, <1>5, <1>6, <1>7 DEF Inv

(***************************************************************************)
(* A save writes what the project holds, a load gives back what was saved: *)
(* in every reachable state content and file are well formed, new data are *)
(* told of and fits are of their sinks.                                    *)
(***************************************************************************)
THEOREM Invariance == Spec => []Inv
<1>1. Inv /\ [Next]_vars => Inv'
  <2> SUFFICES ASSUME Inv, [Next]_vars PROVE Inv'
    OBVIOUS
  <2>1. TypeOK /\ MapTypes /\ NewDataIsTold /\ ContentInv /\ FileInv /\ FitsInv
    BY TypeParts DEF Inv, ChangesAreKnown
  <2>2. TypeOK' /\ (content' # file' => changed_' \/ failed')
    BY <2>1, TypesStep, ChangesStep
  <2>3. ChangesAreKnown'
    BY <2>2 DEF ChangesAreKnown
  <2> QED
    BY <2>1, <2>3, NewDataStep, ContentStep, FileStep, FitsStep DEF Inv
<1> QED
  BY InitInv, <1>1, PTL DEF Spec

(***************************************************************************)
(* A project that differs from its file has changed_ set, or its last save *)
(* has failed, whatever is edited, added, saved and loaded in what order.  *)
(***************************************************************************)
THEOREM ChangesKnown == Spec => []ChangesAreKnown
<1>1. Inv => ChangesAreKnown
  BY DEF Inv
<1> QED
  BY <1>1, Invariance, PTL

(***************************************************************************)
(* Data the plot was not told of have newdata_ set, or an edit hides them. *)
(***************************************************************************)
THEOREM NewDataTold == Spec => []NewDataIsTold
<1>1. Inv => NewDataIsTold
  BY DEF Inv
<1> QED
  BY <1>1, Invariance, PTL

(***************************************************************************)
(* Indices are given out anew, and after a load: still each fit is of the  *)
(* sink under its index, until a sink with a fit is deleted.               *)
(***************************************************************************)
THEOREM FitsOfTheirSinks == Spec => []FitsAreOfTheirSinks
<1>1. Inv => FitsAreOfTheirSinks
  BY DEF Inv, FitsInv, Own, FitsAreOfTheirSinks
<1> QED
  BY <1>1, Invariance, PTL
=============================================================================
