------------------------------- MODULE Project -------------------------------
(***************************************************************************)
(* engine/project.cpp, the container of the sinks, with the three threads  *)
(* that share it: the builder thread of the engine adds spills, the GUI    *)
(* thread edits, saves, loads and plots, and gui/thread_plot_signal.h has  *)
(* a thread wait for something to plot.  Every public method holds mutex_  *)
(* throughout, and is one step; wait_ready() is two.                       *)
(*                                                                         *)
(* A sink and a spectrum fit are a number: that of the sink they are, or   *)
(* are about.                                                              *)
(***************************************************************************)
EXTENDS Naturals, Sequences, FiniteSets, SequencesExt, Functions

CONSTANTS MaxSinks,    \* bound: sinks made in all
          MaxSpills    \* bound: spills added in all

ASSUME ProjectAssumption == MaxSinks \in Nat /\ MaxSpills \in Nat

VARIABLES ready_, newdata_, changed_, current_index_, sinks_, fitters_1d_,
          terminating_, plot, \* the plot thread
          gui,                \* where the GUI is in terminate_helper()
          plot_ready,         \* the signal, emitted and not handled
          made,               \* sinks made so far
          spills,             \* spills added so far
          content,            \* what a file saved now would give back
          file,               \* what the file does give back
          unseen,             \* there are data the 2D plot was not told of
          hidden,             \* an edit has cleared newdata_ since they came
          skipped,            \* it was not visible when it was to be updated
          deleted,            \* a sink with a fit has been deleted
          failed              \* the last save has not reached the disk

projectVars == <<ready_, newdata_, changed_, current_index_, sinks_, fitters_1d_>>
threadVars == <<terminating_, plot, gui, plot_ready>>
userVars == <<made, spills, content, file, unseen, hidden, skipped, deleted, failed>>
vars == <<projectVars, threadVars, userVars>>

Nothing == [sinks |-> <<>>, fitters |-> <<>>, spills |-> 0]

Init == /\ ready_ = FALSE /\ newdata_ = FALSE /\ changed_ = FALSE
        /\ current_index_ = 0 /\ sinks_ = <<>> /\ fitters_1d_ = <<>>
        /\ terminating_ = FALSE /\ plot = "test" /\ gui = "ready" /\ plot_ready = FALSE
        /\ made = 0 /\ spills = 0 /\ content = Nothing /\ file = Nothing
        /\ unseen = FALSE /\ hidden = FALSE /\ skipped = FALSE
        /\ deleted = FALSE /\ failed = FALSE

With(f, i, x) == [j \in DOMAIN f \cup {i} |-> IF j = i THEN x ELSE f[j]]
Without(f, i) == [j \in DOMAIN f \ {i} |-> f[j]]

MaxOf(S) == CHOOSE x \in S : \A y \in S : y <= x

\* cond_.notify_all(): only the plot thread ever waits
NotifyAll == plot' = IF plot = "wait" THEN "lock" ELSE plot
NotifyNobody == UNCHANGED plot

\* What a file saved now gives back: from_xml() skips a fit that has no sink.
ContentNow(s, f) ==
  content' = [sinks |-> s, fitters |-> [i \in DOMAIN f \cap DOMAIN s |-> f[i]],
              spills |-> IF s = <<>> THEN 0 ELSE content.spills]

Flags(ready, newdata, changed) ==
  ready_' = ready /\ newdata_' = newdata /\ changed_' = changed

-----------------------------------------------------------------------------
(* Project::add_spill, from the builder thread                             *)

AddSpillUntold == /\ spills < MaxSpills
                  /\ spills' = spills + 1
                  /\ content' = [content EXCEPT !.spills = IF sinks_ # <<>> THEN spills + 1 ELSE @]
                  /\ unseen' = (unseen \/ sinks_ # <<>>)
                  /\ Flags(TRUE, newdata_, TRUE)
                  /\ NotifyAll
                  /\ UNCHANGED <<current_index_, sinks_, fitters_1d_, terminating_, gui,
                                 plot_ready, made, file, hidden, skipped, deleted, failed>>

AddSpillSilently == /\ spills < MaxSpills
                    /\ spills' = spills + 1
                    /\ content' = [content EXCEPT !.spills = IF sinks_ # <<>> THEN spills + 1 ELSE @]
                    /\ unseen' = (unseen \/ sinks_ # <<>>)
                    /\ hidden' = FALSE /\ skipped' = FALSE
                    /\ Flags(TRUE, TRUE, TRUE)
                    /\ NotifyNobody
                    /\ UNCHANGED <<current_index_, sinks_, fitters_1d_, terminating_, gui,
                                   plot_ready, made, file, deleted, failed>>

add_spill == /\ spills < MaxSpills
             /\ spills' = spills + 1
             /\ content' = [content EXCEPT !.spills = IF sinks_ # <<>> THEN spills + 1 ELSE @]
             /\ unseen' = (unseen \/ sinks_ # <<>>)
             /\ hidden' = FALSE /\ skipped' = FALSE
             /\ Flags(TRUE, TRUE, TRUE)
             /\ NotifyAll
             /\ UNCHANGED <<current_index_, sinks_, fitters_1d_, terminating_, gui,
                            plot_ready, made, file, deleted, failed>>

-----------------------------------------------------------------------------
(* The GUI thread edits the project.                                       *)

NewSink(i) == /\ made < MaxSinks
              /\ made' = made + 1
              /\ current_index_' = i
              /\ sinks_' = With(sinks_, i, made + 1)

\* add_sink(SinkPtr): the client is to call activate() when it is done
add_sink == /\ gui = "ready"
            /\ NewSink(current_index_ + 1)
            /\ Flags(TRUE, TRUE, TRUE)
            /\ NotifyNobody
            /\ ContentNow(sinks_', fitters_1d_)
            /\ unseen' = TRUE /\ hidden' = FALSE /\ skipped' = FALSE
            /\ gui' = "edited"
            /\ UNCHANGED <<fitters_1d_, terminating_, plot_ready, spills, file, deleted, failed>>

\* add_sink(Metadata): there are no new data in it
add_prototype == /\ gui = "ready"
                 /\ NewSink(current_index_ + 1)
                 /\ Flags(TRUE, FALSE, TRUE)
                 /\ NotifyNobody
                 /\ ContentNow(sinks_', fitters_1d_)
                 /\ hidden' = unseen
                 /\ gui' = "edited"
                 /\ UNCHANGED <<skipped, fitters_1d_, terminating_, plot_ready, spills, file, unseen,
                                deleted, failed>>

\* The fit of the sink stays, and the index may be given out again.
delete_sink(i) == /\ gui = "ready"
                  /\ sinks_' = Without(sinks_, i)
                  /\ current_index_' = IF sinks_' = <<>> THEN 0 ELSE current_index_
                  /\ Flags(TRUE, FALSE, TRUE)
                  /\ NotifyNobody
                  /\ ContentNow(sinks_', fitters_1d_)
                  /\ unseen' = (unseen /\ sinks_' # <<>>)
                  /\ hidden' = unseen' /\ skipped' = (skipped /\ unseen')
                  /\ deleted' = (deleted \/ i \in DOMAIN fitters_1d_)
                  /\ gui' = "edited"
                  /\ UNCHANGED <<fitters_1d_, terminating_, plot_ready, made, spills, file,
                                 failed>>

\* clear_helper() and one new sink; forms do this to an empty project
set_prototypes == /\ gui = "ready" /\ sinks_ = <<>>
                  /\ NewSink(1)
                  /\ fitters_1d_' = <<>>
                  /\ Flags(TRUE, FALSE, TRUE)
                  /\ NotifyAll
                  /\ ContentNow(sinks_', <<>>)
                  /\ unseen' = FALSE /\ hidden' = FALSE /\ skipped' = FALSE
                  /\ UNCHANGED <<terminating_, gui, plot_ready, spills, file, deleted, failed>>

ClearQuietly == /\ gui = "ready"
                /\ sinks_' = <<>> /\ fitters_1d_' = <<>> /\ current_index_' = 0
                /\ NotifyAll
                /\ ContentNow(<<>>, <<>>)
                /\ unseen' = FALSE /\ hidden' = FALSE /\ skipped' = FALSE
                /\ UNCHANGED <<ready_, newdata_, changed_, terminating_, gui, plot_ready,
                               made, spills, file, deleted, failed>>

ClearKeepingFits == /\ gui = "ready"
                    /\ changed_' = (changed_ \/ sinks_ # <<>>)
                    /\ sinks_' = <<>> /\ current_index_' = 0
                    /\ NotifyAll
                    /\ ContentNow(<<>>, fitters_1d_)
                    /\ unseen' = FALSE /\ hidden' = FALSE /\ skipped' = FALSE
                    /\ UNCHANGED <<ready_, newdata_, fitters_1d_, terminating_, gui,
                                   plot_ready, made, spills, file, deleted, failed>>

clear == /\ gui = "ready"
         /\ changed_' = (changed_ \/ sinks_ # <<>>)
         /\ sinks_' = <<>> /\ fitters_1d_' = <<>> /\ current_index_' = 0
         /\ NotifyAll
         /\ ContentNow(<<>>, <<>>)
         /\ unseen' = FALSE /\ hidden' = FALSE /\ skipped' = FALSE
         /\ UNCHANGED <<ready_, newdata_, terminating_, gui, plot_ready, made, spills, file,
                        deleted, failed>>

update_fitter(i) == /\ gui = "ready"
                    /\ fitters_1d_' = With(fitters_1d_, i, sinks_[i])
                    /\ changed_' = TRUE
                    /\ ContentNow(sinks_, fitters_1d_')
                    /\ UNCHANGED <<ready_, newdata_, current_index_, sinks_, threadVars,
                                   made, spills, file, unseen, hidden, skipped, deleted, failed>>

\* save(), save_as(): to_xml() clears changed_, whatever save_file() returns
save == /\ gui = "ready"
        /\ file' \in {content, file} /\ failed' = (file' # content)
        /\ hidden' = FALSE /\ skipped' = FALSE
        /\ Flags(TRUE, TRUE, FALSE)
        /\ NotifyAll
        /\ UNCHANGED <<current_index_, sinks_, fitters_1d_, terminating_, gui, plot_ready,
                       made, spills, content, unseen, deleted>>

\* FormMcaDaq clears the project before it reads a file.
read_xml == /\ gui = "ready"
            /\ sinks_' = file.sinks
            /\ fitters_1d_' = [i \in DOMAIN file.fitters \cap DOMAIN file.sinks
                                 |-> file.fitters[i]]
            /\ current_index_' = MaxOf({0} \cup DOMAIN file.sinks) + 1
            /\ Flags(TRUE, TRUE, FALSE)
            /\ NotifyAll
            /\ content' = [file EXCEPT !.fitters = fitters_1d_']
            /\ file' = [file EXCEPT !.fitters = fitters_1d_']
            /\ unseen' = (file.sinks # <<>>) /\ hidden' = FALSE /\ skipped' = FALSE
            /\ failed' = FALSE
            /\ UNCHANGED <<terminating_, gui, plot_ready, made, spills, deleted>>

\* the forms call it when they have edited the project, and at other times
activate == /\ gui \in {"ready", "edited"}
            /\ gui' = "ready"
            /\ ready_' = TRUE
            /\ NotifyAll
            /\ UNCHANGED <<newdata_, changed_, current_index_, sinks_, fitters_1d_,
                           terminating_, plot_ready, userVars>>

\* FormPlot2D::update_plot()
new_data == /\ newdata_' = FALSE
            /\ unseen' = (unseen /\ ~newdata_)
            /\ hidden' = (hidden /\ unseen') /\ skipped' = (skipped /\ unseen')

\* The 2D plot may be switched off, or the form may be behind another tab.
NotVisible == skipped' = unseen /\ UNCHANGED <<newdata_, unseen, hidden>>

\* on plot_ready
update_plots == /\ gui = "ready" /\ plot_ready
                /\ plot_ready' = FALSE
                /\ new_data \/ NotVisible
                /\ UNCHANGED <<ready_, changed_, current_index_, sinks_, fitters_1d_,
                               terminating_, plot, gui, made, spills, content, file,
                               deleted, failed>>

\* The 2D plot is switched on.
on_pushEnable2d_clicked ==
  /\ gui = "ready"
  /\ new_data
  /\ UNCHANGED <<ready_, changed_, current_index_, sinks_, fitters_1d_, threadVars,
                 made, spills, content, file, deleted, failed>>

-----------------------------------------------------------------------------
(* ThreadPlotSignal::terminate_helper, from the GUI thread                 *)

SetTerminating == /\ gui = "ready" /\ ~terminating_
                  /\ terminating_' = TRUE
                  /\ gui' = "activate"
                  /\ UNCHANGED <<projectVars, plot, plot_ready, userVars>>

ActivateNotifyOnly == /\ gui = "activate"
                      /\ gui' = "join"
                      /\ NotifyAll
                      /\ UNCHANGED <<projectVars, terminating_, plot_ready, userVars>>

Activate == /\ gui = "activate"
            /\ gui' = "join"
            /\ ready_' = TRUE
            /\ NotifyAll
            /\ UNCHANGED <<newdata_, changed_, current_index_, sinks_, fitters_1d_,
                           terminating_, plot_ready, userVars>>

Joined == /\ gui = "join" /\ plot = "exited"
          /\ gui' = "ready"
          /\ UNCHANGED <<projectVars, terminating_, plot, plot_ready, userVars>>

(* ThreadPlotSignal::monitor_source, after the helper has returned         *)

Restart == /\ gui = "ready" /\ terminating_
           /\ terminating_' = FALSE
           /\ plot' = "test"
           /\ UNCHANGED <<projectVars, gui, plot_ready, userVars>>

-----------------------------------------------------------------------------
(* ThreadPlotSignal::run                                                   *)

TestTerminating == /\ plot = "test"
                   /\ plot' = IF terminating_ THEN "exited" ELSE "lock"
                   /\ UNCHANGED <<projectVars, terminating_, gui, plot_ready, userVars>>

wait_ready == /\ plot = "lock"
              /\ plot' = IF ready_ THEN "emit" ELSE "wait"
              /\ ready_' = FALSE
              /\ UNCHANGED <<newdata_, changed_, current_index_, sinks_, fitters_1d_,
                             terminating_, gui, plot_ready, userVars>>

\* emit plot_ready(), then sleep if there is time
Emit == /\ plot = "emit"
        /\ plot' = "test"
        /\ plot_ready' = TRUE
        /\ UNCHANGED <<projectVars, terminating_, gui, userVars>>

PlotThread == TestTerminating \/ wait_ready \/ Emit

\* what the GUI does of itself
GuiStep == Activate \/ Joined \/ (gui = "edited" /\ activate) \/ update_plots

Next == \/ add_spill
        \/ add_sink \/ add_prototype \/ set_prototypes \/ clear \/ save \/ read_xml
        \/ \E i \in DOMAIN sinks_ : delete_sink(i) \/ update_fitter(i)
        \/ activate \/ on_pushEnable2d_clicked
        \/ SetTerminating \/ GuiStep \/ Restart
        \/ PlotThread

Spec == Init /\ [][Next]_vars

\* The plot thread runs, and so does the event loop of the GUI.
FairSpec == Spec /\ WF_vars(PlotThread) /\ WF_vars(GuiStep)

-----------------------------------------------------------------------------
TypeOK ==
  /\ ready_ \in BOOLEAN /\ newdata_ \in BOOLEAN /\ changed_ \in BOOLEAN
  /\ current_index_ \in Nat /\ \A i \in DOMAIN sinks_ : i \in 1..current_index_
  /\ Range(sinks_) \subseteq 1..made /\ Range(fitters_1d_) \subseteq 1..made
  /\ terminating_ \in BOOLEAN /\ plot_ready \in BOOLEAN
  /\ plot \in {"test", "lock", "wait", "emit", "exited"}
  /\ gui \in {"ready", "edited", "activate", "join"}
  /\ made \in 0..MaxSinks /\ spills \in 0..MaxSpills
  /\ unseen \in BOOLEAN /\ hidden \in BOOLEAN /\ skipped \in BOOLEAN
  /\ deleted \in BOOLEAN /\ failed \in BOOLEAN

(***************************************************************************)
(* A project that differs from its file says so, and FormMcaDaq asks       *)
(* before it is closed ("Project contents changed") - unless a save has    *)
(* not reached the disk: to_xml() clears changed_ and nobody looks at what *)
(* save_file() returns.                                                    *)
(***************************************************************************)
ChangesAreKnown == TypeOK /\ (content # file => changed_ \/ failed)

(***************************************************************************)
(* new_data() is "any new since last readout?": it tells of data the plot  *)
(* has not shown - unless an edit of another sink has cleared newdata_.    *)
(***************************************************************************)
NewDataIsTold == unseen => newdata_ \/ hidden

(***************************************************************************)
(* The fit kept under an index is of the sink under that index, as long as *)
(* no sink with a fit is deleted: delete_sink() leaves the fit behind.     *)
(***************************************************************************)
FitsAreOfTheirSinks ==
  ~deleted => \A i \in DOMAIN fitters_1d_ \cap DOMAIN sinks_ : fitters_1d_[i] = sinks_[i]

(***************************************************************************)
(* Data get to the plot: the plot thread wakes up for them, unless it is   *)
(* stopped, an edit has cleared newdata_, or the plot was not visible when *)
(* they were to be shown.  No signal is lost between one wait and the      *)
(* next.                                                                   *)
(***************************************************************************)
DataArePlotted == unseen ~> ~unseen \/ terminating_ \/ hidden \/ skipped

(***************************************************************************)
(* Whatever the plot thread does, terminate_helper() returns: the GUI      *)
(* never hangs on it.                                                      *)
(***************************************************************************)
TerminateReturns == gui = "join" ~> gui = "ready"
=============================================================================
