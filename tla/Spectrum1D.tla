------------------------------ MODULE Spectrum1D ------------------------------
(***************************************************************************)
(* A one-dimensional spectrum (sinks/spectrum1D.cpp) behind the locks of   *)
(* engine/daq_sink.cpp, used by two threads: the builder thread pushes     *)
(* spills, and the GUI thread plots, edits, saves and loads.               *)
(*                                                                         *)
(* Methods that write hold unique_mutex_, for which they wait by           *)
(* try_lock() and sleep; methods that read hold shared_mutex_.  These are  *)
(* two different mutexes: a reader does not wait for a writer.             *)
(*                                                                         *)
(* Each spill brings stats of one more unit of time, all of it live.       *)
(***************************************************************************)
EXTENDS Integers, Sequences

CONSTANTS MaxBin,    \* the last bin: 2^bits_ - 1
          MaxSpills, \* bound: spills pushed in all
          MaxHits    \* bound: hits in all

ASSUME SpectrumAssumption == MaxBin \in Nat /\ MaxSpills \in Nat /\ MaxHits \in Nat

VARIABLES unique_mutex_,         \* who holds it
          spectrum_, maxchan_,
          total_hits_,
          times_,                \* real_times_ and live_times_ of its channel: what
                                 \* the stats updates add up to, alike as no time is dead
          attributes,            \* those in metadata_ that matter here
          builder, gui,          \* where the two threads are
          copy,                  \* the metadata the GUI has a copy of
          file,                  \* the sink in the project file
          spills, hits,          \* how many there have been
          wanted,                \* the last "visible" the user asked for
          edited, loaded         \* DialogSpectrum, or a load of the project, has
                                 \* set the attributes since the last spill

data == <<spectrum_, maxchan_, total_hits_, times_>>
counts == <<spills, hits>>
stale == <<edited, loaded>>
sinkVars == <<unique_mutex_, data, attributes, builder, gui, copy, file, counts, wanted,
              stale>>

Bins == 0..MaxBin
Empty == [b \in Bins |-> 0]
Attributes == [visible : BOOLEAN, total_hits : Nat, live_time : Nat, real_time : Nat]
NewAttributes == [visible |-> TRUE, total_hits |-> 0, live_time |-> 0, real_time |-> 0]

SinkInit ==
  /\ unique_mutex_ = "free"
  /\ spectrum_ = Empty /\ maxchan_ = 0
  /\ total_hits_ = 0 /\ times_ = 0
  /\ attributes = NewAttributes
  /\ builder = "off" /\ gui = "ready" /\ copy = NewAttributes
  /\ file = [attributes |-> NewAttributes, data |-> <<>>]
  /\ spills = 0 /\ hits = 0 /\ wanted = TRUE
  /\ edited = FALSE /\ loaded = FALSE

-----------------------------------------------------------------------------
(* The data in a project file: counts, and runs of zeros as one token.     *)

Zeros(n) == [zeros |-> n, count |-> 0]
Count(n) == [zeros |-> 0, count |-> n]

\* out.z zeros are held back until a count follows
Token(out, count) ==
  IF count = 0 THEN [out EXCEPT !.z = @ + 1]
  ELSE [tokens |-> out.tokens \o (IF out.z = 0 THEN <<>> ELSE <<Zeros(out.z)>>)
                     \o <<Count(count)>>,
        z |-> 0]

\* Zeros after the last count, and maxchan_ itself, are not written.
_data_to_xml(spectrum, maxchan) ==
  LET out[n \in 0..maxchan] ==
        IF n = 0 THEN [tokens |-> <<>>, z |-> 0] ELSE Token(out[n - 1], spectrum[n - 1])
  IN out[maxchan].tokens

Width(token) == IF token.zeros > 0 THEN token.zeros ELSE 1

\* where the i-th token goes; for i past the end, the new maxchan_
Position(tokens, i) ==
  LET place[n \in 0..Len(tokens)] ==
        IF n = 0 THEN 0 ELSE place[n - 1] + Width(tokens[n])
  IN place[i - 1]

_data_from_xml(tokens) ==
  [b \in Bins |->
     LET here == {i \in DOMAIN tokens : Position(tokens, i) = b /\ tokens[i].zeros = 0}
     IN IF here = {} THEN 0 ELSE tokens[CHOOSE i \in here : TRUE].count]

-----------------------------------------------------------------------------
(* The builder thread: Sink::push_spill and Sink::flush                    *)

Lock(who) == unique_mutex_ = "free" /\ unique_mutex_' = who
Unlock == unique_mutex_' = "free"

StartRun == /\ builder = "off" /\ gui = "ready"
            /\ builder' = "idle"
            /\ UNCHANGED <<unique_mutex_, data, attributes, gui, copy, file, counts, wanted, stale>>

push_spill == /\ builder = "idle" /\ spills < MaxSpills
              /\ Lock("builder")
              /\ builder' = "hits" /\ spills' = spills + 1
              /\ UNCHANGED <<data, attributes, gui, copy, file, hits, wanted, stale>>

\* Mutant: maxchan_ is the last bin, not the highest.
AddHitLow(en) == /\ builder = "hits" /\ hits < MaxHits
                 /\ hits' = hits + 1
                 /\ spectrum_' = [spectrum_ EXCEPT ![en] = @ + 1]
                 /\ total_hits_' = total_hits_ + 1
                 /\ maxchan_' = en
                 /\ UNCHANGED <<unique_mutex_, times_, attributes, builder, gui,
                                copy, file, spills, wanted, stale>>

addHit(en) == /\ builder = "hits" /\ hits < MaxHits
              /\ hits' = hits + 1
              /\ spectrum_' = [spectrum_ EXCEPT ![en] = @ + 1]
              /\ total_hits_' = total_hits_ + 1
              /\ maxchan_' = IF en > maxchan_ THEN en ELSE maxchan_
              /\ UNCHANGED <<unique_mutex_, times_, attributes, builder, gui,
                             copy, file, spills, wanted, stale>>

\* _push_stats: one attribute after the other
SetLive == /\ builder = "hits"
           /\ times_' = times_ + 1
           /\ attributes' = [attributes EXCEPT !.live_time = times_']
           /\ builder' = "real"
           /\ UNCHANGED <<unique_mutex_, spectrum_, maxchan_, total_hits_, gui, copy,
                          file, counts, wanted, stale>>

\* Mutant: real time is set when it is lower only, as the minimum over channels.
SetRealLower == /\ builder = "real"
                /\ attributes' = [attributes EXCEPT !.real_time =
                                    IF times_ < @ THEN times_ ELSE @]
                /\ builder' = "total"
                /\ UNCHANGED <<unique_mutex_, data, gui, copy, file, counts, wanted, stale>>

SetReal == /\ builder = "real"
           /\ attributes' = [attributes EXCEPT !.real_time = times_]
           /\ builder' = "total"
           /\ UNCHANGED <<unique_mutex_, data, gui, copy, file, counts, wanted, stale>>

SetTotal == /\ builder = "total"
            /\ attributes' = [attributes EXCEPT !.total_hits = total_hits_]
            /\ Unlock
            /\ builder' = "idle"
            /\ edited' = FALSE /\ loaded' = FALSE
            /\ UNCHANGED <<data, gui, copy, file, counts, wanted>>

flush == /\ builder = "idle" /\ unique_mutex_ = "free"
         /\ attributes' = [attributes EXCEPT !.total_hits = total_hits_]
         /\ builder' = "off"
         /\ UNCHANGED <<unique_mutex_, data, gui, copy, file, counts, wanted, stale>>

Builder == \/ push_spill \/ SetLive \/ SetReal \/ SetTotal \/ flush
           \/ \E en \in Bins : addHit(en)

-----------------------------------------------------------------------------
(* The GUI thread                                                          *)

\* Sink::metadata(), for a plot or a dialog: the copy is made field by field
metadata == /\ gui = "ready"
            /\ copy' = [attributes EXCEPT !.real_time = copy.real_time]
            /\ gui' \in {"plotting", "opening"}
            /\ UNCHANGED <<unique_mutex_, data, attributes, builder, file, counts, wanted, stale>>

CopyEnds == /\ gui \in {"plotting", "opening"}
            /\ copy' = [copy EXCEPT !.real_time = attributes.real_time]
            /\ gui' = IF gui = "plotting" THEN "ready" ELSE "dialog"
            /\ UNCHANGED <<unique_mutex_, data, attributes, builder, file, counts, wanted, stale>>

\* FormPlot1D::spectrumLooksChanged: set_attribute() of the one
LooksChanged == /\ gui = "ready"
                /\ wanted' = ~wanted
                /\ gui' = "looks"
                /\ UNCHANGED <<unique_mutex_, data, attributes, builder, copy, file, counts, stale>>

\* Mutant: try_lock() once, and no more.
SetAttributeOnce == /\ gui = "looks"
                    /\ attributes' = IF unique_mutex_ = "free"
                                     THEN [attributes EXCEPT !.visible = wanted]
                                     ELSE attributes
                    /\ gui' = "ready"
                    /\ UNCHANGED <<unique_mutex_, data, builder, copy, file, counts, wanted, stale>>

set_attribute == /\ gui = "looks" /\ unique_mutex_ = "free"
                 /\ attributes' = [attributes EXCEPT !.visible = wanted]
                 /\ gui' = "ready"
                 /\ UNCHANGED <<unique_mutex_, data, builder, copy, file, counts, wanted, stale>>

\* FormPlot1D::on_pushFullInfo_clicked: the dialog is closed with Cancel ...
Cancel == /\ gui = "dialog"
          /\ gui' = "ready"
          /\ UNCHANGED <<unique_mutex_, data, attributes, builder, copy, file, counts, wanted, stale>>

\* ... or with OK; the copy is then edited, and detectors come first
Accept == /\ gui = "dialog" /\ unique_mutex_ = "free"
          /\ \E v \in BOOLEAN : /\ copy' = [copy EXCEPT !.visible = v]
                                /\ wanted' = v
          /\ gui' = "accepted"
          /\ UNCHANGED <<unique_mutex_, data, attributes, builder, file, counts, stale>>

\* all the attributes, those that are not writable too
set_attributes == /\ gui = "accepted" /\ unique_mutex_ = "free"
                  /\ attributes' = copy
                  /\ gui' = "ready"
                  /\ edited' = TRUE
                  /\ UNCHANGED <<unique_mutex_, data, builder, copy, file, counts, wanted,
                                 loaded>>

\* Project::save and read_xml; the menus are disabled during a run
save == /\ gui = "ready" /\ builder = "off"
        /\ file' = [attributes |-> attributes, data |-> _data_to_xml(spectrum_, maxchan_)]
        /\ UNCHANGED <<unique_mutex_, data, attributes, builder, gui, copy, counts, wanted, stale>>

\* A new Sink: only attributes and counts are in the file.
load == /\ gui = "ready" /\ builder = "off"
        /\ attributes' = file.attributes
        /\ spectrum_' = _data_from_xml(file.data)
        /\ maxchan_' = Position(file.data, Len(file.data) + 1)
        /\ total_hits_' = 0 /\ times_' = 0
        /\ wanted' = file.attributes.visible
        /\ edited' = FALSE /\ loaded' = TRUE
        /\ UNCHANGED <<unique_mutex_, builder, gui, copy, file, counts>>

Gui == \/ metadata \/ CopyEnds \/ LooksChanged \/ set_attribute
       \/ Cancel \/ Accept \/ set_attributes \/ save \/ load

SinkNext == StartRun \/ Builder \/ Gui

SinkSpec == SinkInit /\ [][SinkNext]_sinkVars

-----------------------------------------------------------------------------
SinkTypes ==
  /\ unique_mutex_ \in {"free", "builder"}
  /\ spectrum_ \in [Bins -> 0..MaxHits] /\ maxchan_ \in 0..(MaxBin + 1)
  /\ total_hits_ \in 0..MaxHits /\ times_ \in 0..MaxSpills
  /\ attributes \in Attributes /\ copy \in Attributes /\ file.attributes \in Attributes
  /\ builder \in {"off", "idle", "hits", "real", "total"}
  /\ gui \in {"ready", "plotting", "opening", "dialog", "accepted", "looks"}
  /\ spills \in 0..MaxSpills /\ hits \in 0..MaxHits /\ wanted \in BOOLEAN
  /\ edited \in BOOLEAN /\ loaded \in BOOLEAN

(***************************************************************************)
(* After a run the attributes agree with each other and with the data,     *)
(* whatever the GUI has set: "total_hits", "live_time" and "real_time" are *)
(* not writable.  (A load sets them to what the file has.)                 *)
(***************************************************************************)
TotalsAreShown ==
  builder = "off" /\ ~loaded => /\ attributes.total_hits = total_hits_
                                /\ attributes.live_time = times_
                                /\ attributes.real_time = times_

(***************************************************************************)
(* It is so unless DialogSpectrum was closed with OK: that puts back all   *)
(* the attributes as they were when it was opened.                         *)
(***************************************************************************)
UneditedTotalsAreShown == SinkTypes /\ (~edited => TotalsAreShown)

(***************************************************************************)
(* What the user sets stays set: no spill overwrites it, though the        *)
(* builder thread writes to the same set of attributes.                    *)
(***************************************************************************)
ChoiceIsKept == gui \notin {"looks", "accepted"} => attributes.visible = wanted

(***************************************************************************)
(* The file holds every count of the spectrum but that of maxchan_, the    *)
(* highest bin with a hit: the loop that writes them stops short of it.    *)
(***************************************************************************)
FileHoldsCounts ==
  [][save => \A b \in Bins \ {maxchan_} : _data_from_xml(file'.data)[b] = spectrum_[b]]_sinkVars
=============================================================================
