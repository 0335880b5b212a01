--------------------------- MODULE FitterThread ---------------------------
(* The thread that fits (gui/fitter/thread_fitter.cpp) and the form that     *)
(* gives it work (gui/fitter/form_fitter.cpp).  The form hands over a copy   *)
(* of its Fitter and a command, in two calls; the thread works on the copy   *)
(* and sends it back with the signals fit_updated and fitting_done, which    *)
(* wait in the form's event queue.  action_ is one slot, written by both     *)
(* threads and read by the worker without the mutex; running_ and busy_ are  *)
(* to keep them apart.  A command stores its parameters after it has stored  *)
(* action_, so that the thread may begin it with those of an earlier one.    *)
(* A Fitter is the set of edits that made it; what an edit does to the       *)
(* regions is module FitRegions.                                             *)
EXTENDS Integers, Sequences, FiniteSets

CONSTANTS
  Parts,      \* the regions that a fit of the whole spectrum goes through
  MaxEdits    \* bound: edits and commands of the user

ASSUME FitterAssumption == Parts \in Nat \ {0} /\ MaxEdits \in Nat

VARIABLES
  gui,        \* *fit_data_, the form's Fitter: a set of edits <<number, part>>
  busy,       \* FormFitter::busy_
  canStop,    \* pushStopFitter is enabled
  calling,    \* the command in the midst of its calls, or none
  edits,      \* edits so far; also the number of the last one
  inbox,      \* signals of the thread that the form has not handled
  action,     \* ThreadFitter::action_
  target,     \* target_, LL, RR..: the number of the command
  fitter,     \* ThreadFitter::fitter_
  running,    \* running_
  terminating,\* terminating_
  pc,         \* where run() is
  part,       \* regions done, in a fit
  closing,    \* the form is being destroyed and waits for the thread
  waits,      \* history: the number of the command the form is busy with
  failed,     \* history: commands that the fitter did not carry out in full
  raced,      \* history: something was edited while busy
  refused,    \* history: the thread refused data or a command
  stuck,      \* history: a stop came when there was nothing to stop
  unmarked,   \* history: a command was begun without running_
  mistaken    \* history: an edit was made before its parameters were stored

form   == <<gui, busy, canStop, calling, edits, waits, raced, closing>>
shared == <<action, target, fitter, running, terminating>>
worker == <<pc, part, failed, unmarked, mistaken>>
vars   == <<form, shared, worker, inbox, refused, stuck>>

None     == "none"
Commands == {"fit", "edit"}

Init ==
  /\ gui = {} /\ busy = FALSE /\ canStop = FALSE /\ calling = None /\ edits = 0
  /\ inbox = << >> /\ action = "idle" /\ target = 0 /\ fitter = {}
  /\ running = FALSE /\ terminating = FALSE /\ pc = "mark" /\ part = 0
  /\ closing = FALSE /\ waits = 0 /\ failed = {}
  /\ raced = FALSE /\ refused = FALSE /\ stuck = FALSE /\ unmarked = FALSE
  /\ mistaken = FALSE

----------------------------------------------------------------------------
(* The form, in the GUI thread.  Its slots run one at a time; only the two   *)
(* calls of a command, and the two parts of the second, are steps of their   *)
(* own.                                                                      *)

Free == calling = None /\ ~closing

\* an edit the form makes itself: rollback and deletion look at busy_, the
\* range for a sum and the dialog on a peak do not
EditHere ==
  /\ Free /\ edits < MaxEdits
  /\ edits' = edits + 1 /\ gui' = gui \cup {<<edits + 1, 0>>}
  /\ raced' = (raced \/ busy)
  /\ UNCHANGED <<busy, canStop, calling, waits, closing, shared, worker, inbox, refused, stuck>>

\* perform_fit() replaces all regions by the ones it finds
Found(command, data) == IF command = "fit" THEN {} ELSE data

\* the head of a command: perform_fit(), refit_ROI() and delete_selected_peaks()
\* look at busy_; add_peak(), adjust_background() and roi_settings() do not
Ask(command) ==
  /\ Free /\ edits < MaxEdits /\ (command = "fit" => ~busy)
  /\ edits' = edits + 1 /\ waits' = edits + 1
  /\ busy' = TRUE /\ canStop' = TRUE /\ calling' = command
  /\ gui' = Found(command, gui)
  /\ raced' = (raced \/ busy)
  /\ UNCHANGED <<closing, shared, worker, inbox, refused, stuck>>

AskFit  == Ask("fit")
AskEdit == Ask("edit")

\* mutant of set_data: the thread keeps the copy it has
SetDataOnce ==
  /\ calling \in Commands
  /\ calling' = (IF calling = "fit" THEN "then fit" ELSE "then edit")
  /\ IF running
       THEN refused' = TRUE /\ UNCHANGED <<fitter, action, terminating>>
       ELSE /\ fitter' = (IF fitter = {} THEN gui ELSE fitter)
            /\ action' = "idle" /\ terminating' = FALSE /\ UNCHANGED refused
  /\ UNCHANGED <<gui, busy, canStop, edits, waits, raced, closing, target, running, worker, inbox, stuck>>

\* set_data(): refused while running_
set_data ==
  /\ calling \in Commands
  /\ calling' = (IF calling = "fit" THEN "then fit" ELSE "then edit")
  /\ IF running
       THEN refused' = TRUE /\ UNCHANGED <<fitter, action, terminating>>
       ELSE /\ fitter' = gui /\ action' = "idle" /\ terminating' = FALSE
            /\ UNCHANGED refused
  /\ UNCHANGED <<gui, busy, canStop, edits, waits, raced, closing, target, running, worker, inbox, stuck>>

\* fit_peaks(), add_peak(), refit()..: the second call; a fit has no parameters
Command ==
  /\ calling \in {"then fit", "then edit"}
  /\ IF running
       THEN refused' = TRUE /\ calling' = None /\ UNCHANGED <<action, target, terminating>>
       ELSE /\ terminating' = FALSE /\ UNCHANGED refused
            /\ \/ /\ calling = "then fit" /\ calling' = None
                  /\ action' = "fit" /\ target' = waits
               \/ /\ calling = "then edit" /\ calling' = "parameters"
                  /\ action' = "edit" /\ UNCHANGED target
  /\ UNCHANGED <<gui, busy, canStop, edits, waits, raced, closing, fitter, running, worker, inbox, stuck>>

\* the end of add_peak(), refit()..: target_, LL, RR, settings_, chosen_peaks_
Parameters ==
  /\ calling = "parameters" /\ calling' = None /\ target' = waits
  /\ UNCHANGED <<gui, busy, canStop, edits, waits, raced, closing, action, fitter, running, terminating, worker, inbox, refused, stuck>>

\* on_pushStopFitter_clicked(), stop_work(): action_ is overwritten whatever it
\* is; only a command in the thread's hands will put it back to kIdle.
\* (interruptor_, that the fit looks at between iterations, ends it sooner)
InHand == {"fit", "edit", "report", "done", "rest"}

stop_work ==
  /\ action' = "stop" /\ stuck' = (stuck \/ pc \notin InHand)

PushStop ==
  /\ Free /\ canStop /\ canStop' = FALSE
  /\ stop_work
  /\ UNCHANGED <<gui, busy, calling, edits, waits, raced, closing, target, fitter, running, terminating, worker, inbox, refused>>

\* the slots fit_updated() and fitting_complete(); both set the buttons
fit_updated ==
  /\ Free /\ inbox # << >> /\ Head(inbox).signal = "updated"
  /\ gui' = Head(inbox).data /\ inbox' = Tail(inbox) /\ canStop' = busy
  /\ UNCHANGED <<busy, calling, edits, waits, raced, closing, shared, worker, refused, stuck>>

fitting_complete ==
  /\ Free /\ inbox # << >> /\ Head(inbox).signal = "done"
  /\ busy' = FALSE /\ canStop' = FALSE /\ inbox' = Tail(inbox)
  /\ UNCHANGED <<gui, calling, edits, waits, raced, closing, shared, worker, refused, stuck>>

\* ~FormFitter(): stop_work(), then terminate(), which waits for the thread
Close ==
  /\ Free /\ closing' = TRUE
  /\ stop_work /\ terminating' = TRUE
  /\ UNCHANGED <<gui, busy, canStop, calling, edits, waits, raced, target, fitter, running, worker, inbox, refused>>

----------------------------------------------------------------------------
(* ThreadFitter::run()                                                       *)

emit(signal)  == inbox' = Append(inbox, signal)
Updated(data) == [signal |-> "updated", data |-> data]
Done          == [signal |-> "done", data |-> {}]

\* while (!terminating_), if (action_ != kIdle)
Mark ==
  /\ pc = "mark"
  /\ IF terminating
       THEN pc' = "ended" /\ UNCHANGED running
       ELSE pc' = "choose" /\ running' = (running \/ action # "idle")
  /\ UNCHANGED <<form, action, target, fitter, terminating, part, failed, inbox, refused, stuck, unmarked, mistaken>>

\* the chain of tests reads action_ again; anything else is a sleep
Choose ==
  /\ pc = "choose" /\ part' = 0
  /\ pc' = (IF action \in Commands THEN action ELSE "clear")
  /\ unmarked' = (unmarked \/ (action \in Commands /\ ~running))
  /\ UNCHANGED <<form, shared, failed, inbox, refused, stuck, mistaken>>

\* kFit: region after region; after a while what there is is shown
FitPart ==
  /\ pc = "fit" /\ part < Parts /\ part' = part + 1
  /\ fitter' = fitter \cup {<<target, part + 1>>}
  /\ \/ emit(Updated(fitter'))
     \/ UNCHANGED inbox
  /\ pc' = "rest"
  /\ UNCHANGED <<form, action, target, running, terminating, failed, refused, stuck, unmarked, mistaken>>

\* mutant of Rest: the last regions are shown only if it was time for it
RestSilent ==
  /\ pc = "rest"
  /\ IF action = "stop" \/ terminating \/ part = Parts
       THEN /\ pc' = "report" /\ UNCHANGED inbox
            /\ failed' = (IF part = Parts THEN failed ELSE failed \cup {target})
       ELSE pc' = "fit" /\ UNCHANGED <<inbox, failed>>
  /\ UNCHANGED <<form, shared, part, refused, stuck, unmarked, mistaken>>

\* the end of an iteration: a stop, or the last region, ends the loop
Rest ==
  /\ pc = "rest"
  /\ IF action = "stop" \/ terminating \/ part = Parts
       THEN /\ emit(Updated(fitter)) /\ pc' = "report"
            /\ failed' = (IF part = Parts THEN failed ELSE failed \cup {target})
       ELSE pc' = "fit" /\ UNCHANGED <<inbox, failed>>
  /\ UNCHANGED <<form, shared, part, refused, stuck, unmarked, mistaken>>

\* mutant of Edit: fitting_done() is sent only with a result
EditReportsResults ==
  /\ pc = "edit"
  /\ \/ /\ fitter' = fitter \cup {<<target, 0>>} /\ pc' = "report"
        /\ emit(Updated(fitter')) /\ UNCHANGED failed
     \/ failed' = failed \cup {target} /\ pc' = "done" /\ UNCHANGED <<fitter, inbox>>
  /\ mistaken' = (mistaken \/ calling = "parameters")
  /\ UNCHANGED <<form, action, target, running, terminating, part, refused, stuck, unmarked>>

\* the other commands: fit_updated() if the fitter did what it was asked
Edit ==
  /\ pc = "edit" /\ pc' = "report"
  /\ \/ /\ fitter' = fitter \cup {<<target, 0>>}
        /\ emit(Updated(fitter')) /\ UNCHANGED failed
     \/ failed' = failed \cup {target} /\ UNCHANGED <<fitter, inbox>>
  /\ mistaken' = (mistaken \/ calling = "parameters")
  /\ UNCHANGED <<form, action, target, running, terminating, part, refused, stuck, unmarked>>

\* emit fitting_done()
Report ==
  /\ pc = "report" /\ emit(Done) /\ pc' = "done"
  /\ UNCHANGED <<form, shared, part, failed, refused, stuck, unmarked, mistaken>>

\* action_ = kIdle, whatever has been stored since
ToIdle ==
  /\ pc = "done" /\ action' = "idle" /\ pc' = "clear"
  /\ UNCHANGED <<form, target, fitter, running, terminating, part, failed, inbox, refused, stuck, unmarked, mistaken>>

\* running_.store(false)
Clear ==
  /\ pc = "clear" /\ running' = FALSE /\ pc' = "mark"
  /\ UNCHANGED <<form, action, target, fitter, terminating, part, failed, inbox, refused, stuck, unmarked, mistaken>>

----------------------------------------------------------------------------
Run   == Mark \/ Choose \/ FitPart \/ Rest \/ Edit \/ Report \/ ToIdle \/ Clear
Slots == fit_updated \/ fitting_complete
Calls == set_data \/ Command \/ Parameters

Next ==
  \/ EditHere \/ AskFit \/ AskEdit \/ PushStop \/ Close
  \/ set_data \/ Command \/ Parameters \/ fit_updated \/ fitting_complete
  \/ Mark \/ Choose \/ FitPart \/ Rest \/ Edit \/ Report \/ ToIdle \/ Clear

\* the thread runs on and the form handles its events; the user need do nothing
Spec ==
  /\ Init /\ [][Next]_vars
  /\ WF_vars(Run) /\ WF_vars(Slots) /\ WF_vars(Calls)

----------------------------------------------------------------------------
Fitters  == SUBSET ((0 .. MaxEdits) \X (0 .. Parts))
Callings == Commands \cup {None, "then fit", "then edit", "parameters"}
Orders   == Commands \cup {"idle", "stop"}
Places   == InHand \cup {"mark", "choose", "clear", "ended"}
Signals  == [signal : {"updated", "done"}, data : Fitters]

TypeOK ==
  /\ gui \in Fitters /\ fitter \in Fitters
  /\ busy \in BOOLEAN /\ canStop \in BOOLEAN /\ closing \in BOOLEAN
  /\ running \in BOOLEAN /\ terminating \in BOOLEAN
  /\ raced \in BOOLEAN /\ refused \in BOOLEAN /\ stuck \in BOOLEAN /\ unmarked \in BOOLEAN
  /\ mistaken \in BOOLEAN
  /\ calling \in Callings
  /\ edits \in 0 .. MaxEdits /\ waits \in 0 .. MaxEdits /\ target \in 0 .. MaxEdits
  /\ failed \subseteq 0 .. MaxEdits /\ part \in 0 .. Parts
  /\ action \in Orders
  /\ pc \in Places
  /\ inbox \in Seq(Signals)

\* a mishap that the properties leave out
Mishap == raced \/ refused \/ stuck \/ unmarked

(* While a command is carried out and nothing went wrong before, the form    *)
(* has not changed what the thread works on: the data of a signal is never   *)
(* behind the form's, so that handling it loses no edit.  An edit made while *)
(* the form is busy (raced) or data refused (refused) do lose some.          *)
NothingIsLost ==
  TypeOK /\ (~Mishap => \A i \in DOMAIN inbox :
                          inbox[i].signal = "updated" => gui \subseteq inbox[i].data)

(* When the form is no longer busy it shows the result of the command it was *)
(* busy with, all of it, unless that one failed or was stopped, or an edit   *)
(* was made before its parameters were stored: it is done to what an earlier *)
(* command was about, and is not done to what it is about (mistaken).        *)
ResultIsShown ==
  ~busy /\ ~Mishap /\ ~mistaken /\ waits # 0 /\ waits \notin failed =>
    {<<waits, 0>>} \subseteq gui \/ {<<waits, p>> : p \in 1 .. Parts} \subseteq gui

(* A form that waits for the thread gets its answer: a command that was taken*)
(* is not lost in the slot.  Left out are a refused command, and a stop that *)
(* finds no command in the thread's hands and stays in the slot (stuck): in  *)
(* the code the form then stays busy, with all but the stop button off.  A   *)
(* command that is seen between the two looks at action_ (unmarked) may have *)
(* a second one put on top of it.                                            *)
BusyEnds == busy ~> ~busy \/ Mishap \/ closing
=============================================================================
