---------------------------- MODULE ThreadRunner ----------------------------
(***************************************************************************)
(* gui/thread_runner.cpp: the thread that runs engine commands for the     *)
(* GUI, with the GUI thread and one form that uses it.  The GUI writes     *)
(* action_ under a mutex the runner never takes; running_, terminating_    *)
(* and the form's interruptor are atomics, each stored and loaded alone.   *)
(*                                                                         *)
(* Forms switch the controls off when they send a command; the signals of  *)
(* the runner switch them on again.  FormExperiment also starts its next   *)
(* run inside run_completed(): Chained.                                    *)
(***************************************************************************)
EXTENDS Naturals, Sequences, SequencesExt, Functions

CONSTANTS Chained,     \* is the form a FormExperiment?
          MaxCommands  \* bound: commands the GUI sends

ASSUME RunnerAssumption == Chained \in BOOLEAN /\ MaxCommands \in Nat

Acquisitions == {"kMCA", "kList"}
Commands == Acquisitions \cup
  {"kInitialize", "kBoot", "kShutdown", "kPushSettings", "kSetSetting", "kSetDetector",
   "kSetDetectors", "kOptimize", "kOscil", "kSettingsRefresh"}
Actions == Commands \cup {"kNone"}

VARIABLES action_,      \* the command to run next
          running_,     \* the "busy" flag the GUI tests
          terminating_,
          interruptor,  \* the form's atomic that getMca() and getList() poll
          thread,       \* where the runner thread is
          doing,        \* the command it dispatched
          limited,      \* the acquisition was given a timeout
          erased,       \* history: run() has stored FALSE over what terminate(),
                        \* which has not returned, stored in the interruptor
          gui,          \* what the GUI thread is in the middle of
          asked,        \* the command whose do_...() it is in
          commands,     \* commands sent so far
          my_run_,      \* the form takes an acquisition to be in progress
          stopping,     \* the user pressed stop in this acquisition
          enabled,      \* gui_enabled_: the controls are switched on
          can_run,      \* px_status_ of the GUI has can_run
          closing,      \* the box that asks whether to terminate is on the screen
          settled,      \* the settings were updated since the last run ended
          signals,      \* signals emitted and not yet handled by the GUI
          owed,         \* the last command accepted, until it is dispatched
          patient,      \* the user gave all commands so far after the end of
                        \* the last run and the update of the settings then
          chained,      \* run_completed() has started a run
          idle_refresh_ \* refresh the settings when idle; for booted devices

runnerVars == <<thread, doing, limited, erased>>
guiVars == <<gui, asked, commands, my_run_, stopping, enabled, can_run, settled, closing,
             patient, chained, idle_refresh_>>
vars == <<action_, running_, terminating_, interruptor, runnerVars, guiVars, signals, owed>>

Init == /\ action_ = "kNone" /\ running_ = FALSE /\ terminating_ = FALSE
        /\ interruptor = FALSE
        /\ thread = "loop" /\ doing = "kNone"
        /\ limited = FALSE /\ erased = FALSE
        /\ gui = "ready" /\ asked = "kNone" /\ commands = 0
        /\ my_run_ = FALSE /\ stopping = FALSE
        /\ enabled = TRUE /\ can_run = TRUE /\ settled = TRUE /\ closing = FALSE
        /\ signals = <<>> /\ owed = "kNone"
        /\ patient = TRUE /\ chained = FALSE /\ idle_refresh_ \in BOOLEAN

-----------------------------------------------------------------------------
(* ThreadRunner::run                                                       *)

Goto(from, to) == thread = from /\ thread' = to

Loop == /\ Goto("loop", IF terminating_ THEN "exited" ELSE "mark")
        /\ UNCHANGED <<action_, running_, terminating_, interruptor, doing, limited, erased,
                       guiVars, signals, owed>>

\* if (action_ != kNone) running_.store(true)
Mark == /\ Goto("mark", "dispatch")
        /\ running_' = (running_ \/ action_ # "kNone")
        /\ UNCHANGED <<action_, terminating_, interruptor, doing, limited, erased, guiVars,
                       signals, owed>>

\* The chain of tests reads action_ anew: it need not be what Mark saw.
Dispatch == /\ Goto("dispatch", IF action_ = "kNone" THEN "idle"
                                ELSE IF action_ \in Acquisitions THEN "reset"
                                ELSE "work")
            /\ doing' = action_
            /\ owed' = IF owed = action_ THEN "kNone" ELSE owed
            /\ UNCHANGED <<action_, running_, terminating_, interruptor, limited, erased,
                           guiVars, signals>>

\* Signals are queued for the GUI thread; equal neighbours count once.
Signalled(sig) == IF signals # <<>> /\ Last(signals) = sig THEN signals
                  ELSE Append(signals, sig)

\* interruptor_->store(false), after settings without can_run for kMCA.  It
\* erases what terminate() has stored by then.  The engine is called with the
\* timeout of the form, 0 for none.
Reset == /\ Goto("reset", "work")
         /\ signals' = IF doing = "kMCA" THEN Signalled("cannotRun") ELSE signals
         /\ interruptor' = FALSE
         /\ erased' = (erased \/ gui \in {"terminate", "wait"})
         /\ limited' \in BOOLEAN
         /\ UNCHANGED <<action_, running_, terminating_, doing, guiVars, owed>>

\* The call into the engine returns.  An acquisition does at its timeout, or
\* when it sees the interruptor ...
Work == /\ Goto("work", "set")
        /\ doing \in Acquisitions => limited \/ interruptor
        /\ UNCHANGED <<action_, running_, terminating_, interruptor, doing, limited, erased,
                       guiVars, signals, owed>>

\* ... or if its sources end by themselves, or none can run.
SourcesEnd == /\ Goto("work", "set")
              /\ UNCHANGED <<action_, running_, terminating_, interruptor, doing, limited,
                             erased, guiVars, signals, owed>>

\* What the runner stores in action_ when a command is done.
After(a) == CASE a \in Acquisitions -> {"kSettingsRefresh"}
              [] a = "kInitialize" -> {"kBoot", "kNone"}
              [] a \in {"kOptimize", "kSetDetectors"} -> {"kOscil"}
              [] OTHER -> {"kNone"}

\* A command that leads to another one signals nothing yet.
SetNext == /\ \E a \in After(doing) :
                /\ action_' = a
                /\ Goto("set", IF a \in {"kBoot", "kOscil"} THEN "clear" ELSE "emit")
           /\ UNCHANGED <<running_, terminating_, interruptor, doing, limited, erased,
                          guiVars, signals, owed>>

EmitNoCompletion == /\ Goto("emit", "clear")
                    /\ signals' = IF doing \in Acquisitions THEN signals
                                  ELSE Signalled("settingsUpdated")
                    /\ UNCHANGED <<action_, running_, terminating_, interruptor, doing,
                                   limited, erased, guiVars, owed>>

\* emit runComplete() or listComplete(), else settingsUpdated()
Emit == /\ Goto("emit", "clear")
        /\ signals' = Signalled(IF doing \in Acquisitions THEN "runComplete"
                                ELSE "settingsUpdated")
        /\ UNCHANGED <<action_, running_, terminating_, interruptor, doing, limited, erased,
                       guiVars, owed>>

\* the last else of run(): ask for a refresh, or do nothing
Idle == /\ Goto("idle", "clear")
        /\ action_' = IF idle_refresh_ THEN "kSettingsRefresh" ELSE action_
        /\ UNCHANGED <<running_, terminating_, interruptor, doing, limited, erased, guiVars,
                       signals, owed>>

ClearBoth == /\ Goto("clear", "loop")
             /\ running_' = FALSE
             /\ action_' = IF doing \in Acquisitions THEN action_ ELSE "kNone"
             /\ UNCHANGED <<terminating_, interruptor, doing, limited, erased, guiVars,
                            signals, owed>>

Clear == /\ Goto("clear", "loop")
         /\ running_' = FALSE
         /\ UNCHANGED <<action_, terminating_, interruptor, doing, limited, erased, guiVars,
                        signals, owed>>

run == \/ Loop \/ Mark \/ Dispatch \/ Reset \/ Work \/ SetNext \/ Emit \/ Idle \/ Clear

-----------------------------------------------------------------------------
(* The GUI thread.                                                         *)

\* A form sends a command; for an acquisition it sets my_run_ first.
Ask(cmd) == /\ commands < MaxCommands
            /\ commands' = commands + 1
            /\ asked' = cmd
            /\ gui' = "test"
            /\ enabled' = FALSE
            /\ my_run_' = (my_run_ \/ cmd \in Acquisitions)
            /\ stopping' = (stopping /\ cmd \notin Acquisitions)
            /\ UNCHANGED <<action_, running_, terminating_, runnerVars, can_run, settled,
                           closing, owed, idle_refresh_>>

\* the user, while the controls are on
Click(cmd) == /\ gui = "ready" /\ enabled /\ ~closing
              /\ cmd \in Acquisitions => can_run /\ ~my_run_
              /\ Ask(cmd)
              /\ patient' = (patient /\ can_run /\ settled /\ ~my_run_)
              /\ UNCHANGED <<interruptor, signals, chained>>

\* do_...(): if (running_.load()) { WARN << "Runner busy"; return; }
TestBusy == /\ gui = "test"
            /\ gui' = IF running_ THEN "ready" ELSE "store"
            /\ UNCHANGED <<action_, running_, terminating_, interruptor, runnerVars, asked,
                           commands, my_run_, stopping, enabled, can_run, settled, closing,
                           signals, owed, patient, chained, idle_refresh_>>

\* ... else store the command, and start the thread if it is not running
StoreAction == /\ gui = "store"
               /\ gui' = "ready"
               /\ terminating_' = FALSE
               /\ action_' = asked
               /\ owed' = asked
               /\ thread' = IF thread = "exited" THEN "loop" ELSE thread
               /\ UNCHANGED <<running_, interruptor, doing, limited, erased, asked,
                              commands, my_run_, stopping, enabled, can_run, settled,
                              closing, signals, patient, chained, idle_refresh_>>

\* qpx::update_settings() and toggleIO(true)
SettingsUpdated == /\ gui = "ready"
                   /\ signals # <<>> /\ Head(signals) # "runComplete"
                   /\ signals' = Tail(signals)
                   /\ can_run' = (Head(signals) = "settingsUpdated")
                   /\ enabled' = TRUE
                   /\ settled' = TRUE
                   /\ UNCHANGED <<action_, running_, terminating_, interruptor, runnerVars,
                                  gui, asked, commands, my_run_, stopping, closing, owed,
                                  patient, chained, idle_refresh_>>

\* run_completed(), of a form that thinks the run was its own
RunCompleted == /\ gui = "ready"
                /\ signals # <<>> /\ Head(signals) = "runComplete"
                /\ signals' = Tail(signals)
                /\ \/ /\ Chained /\ my_run_ /\ ~stopping
                      /\ Ask("kMCA")
                      /\ interruptor' = FALSE
                      /\ chained' = TRUE
                      /\ UNCHANGED patient
                   \/ /\ my_run_' = FALSE
                      /\ enabled' = (enabled \/ my_run_)
                      /\ settled' = FALSE
                      /\ UNCHANGED <<action_, running_, terminating_, interruptor,
                                     runnerVars, gui, asked, commands, stopping, can_run,
                                     closing, owed, patient, chained, idle_refresh_>>

\* the stop button
PressStop == /\ gui = "ready" /\ ~closing /\ my_run_ /\ ~stopping
             /\ stopping' = TRUE
             /\ interruptor' = TRUE
             /\ UNCHANGED <<action_, running_, terminating_, runnerVars, gui, asked,
                            commands, my_run_, enabled, can_run, settled, closing, signals,
                            owed, patient, chained, idle_refresh_>>

\* closeEvent(): a modal box, during which signals are handled, is answered
CloseEvent == /\ gui = "ready" /\ ~closing /\ my_run_ /\ running_
              /\ closing' = TRUE
              /\ UNCHANGED <<action_, running_, terminating_, interruptor, runnerVars, gui,
                             asked, commands, my_run_, stopping, enabled, can_run, settled,
                             signals, owed, patient, chained, idle_refresh_>>

Cancel == /\ gui = "ready" /\ closing
          /\ closing' = FALSE
          /\ UNCHANGED <<action_, running_, terminating_, interruptor, runnerVars, gui,
                         asked, commands, my_run_, stopping, enabled, can_run, settled,
                         signals, owed, patient, chained, idle_refresh_>>

TerminateUninterrupted == /\ gui = "ready" /\ closing
                          /\ gui' = "terminate"
                          /\ UNCHANGED <<action_, running_, terminating_, interruptor,
                                         runnerVars, asked, commands, my_run_, stopping,
                                         enabled, can_run, settled, closing, signals, owed,
                                         patient, chained, idle_refresh_>>

\* terminate(): two stores, then wait for the thread
TerminateInterrupt == /\ gui = "ready" /\ closing
                      /\ gui' = "terminate"
                      /\ interruptor' = TRUE
                      /\ UNCHANGED <<action_, running_, terminating_, runnerVars, asked,
                                     commands, my_run_, stopping, enabled, can_run, settled,
                                     closing, signals, owed, patient, chained,
                                     idle_refresh_>>

TerminateStore == /\ gui = "terminate"
                  /\ gui' = "wait"
                  /\ terminating_' = TRUE
                  /\ UNCHANGED <<action_, running_, interruptor, runnerVars, asked,
                                 commands, my_run_, stopping, enabled, can_run, settled,
                                 closing, signals, owed, patient, chained, idle_refresh_>>

\* The form is gone: what it was owed is nobody's.
Terminated == /\ gui = "wait" /\ thread = "exited"
              /\ gui' = "ready"
              /\ my_run_' = FALSE
              /\ closing' = FALSE
              /\ owed' = "kNone"
              /\ erased' = FALSE
              /\ UNCHANGED <<action_, running_, terminating_, interruptor, thread, doing,
                             limited, asked, commands, stopping, enabled, can_run, settled,
                             signals, patient, chained, idle_refresh_>>

GuiStep == \/ TestBusy \/ StoreAction \/ SettingsUpdated \/ RunCompleted
           \/ TerminateStore \/ Terminated

Next == \/ run \/ SourcesEnd
        \/ GuiStep
        \/ \E cmd \in Commands : Click(cmd)
        \/ PressStop
        \/ CloseEvent \/ Cancel \/ TerminateInterrupt

Spec == Init /\ [][Next]_vars

\* Both threads run; neither the user nor the sources owe anything.
FairSpec == Spec /\ WF_vars(run) /\ WF_vars(GuiStep)

-----------------------------------------------------------------------------
TypeOK ==
  /\ action_ \in Actions /\ doing \in Actions /\ asked \in Actions /\ owed \in Actions
  /\ running_ \in BOOLEAN /\ terminating_ \in BOOLEAN /\ interruptor \in BOOLEAN
  /\ limited \in BOOLEAN /\ erased \in BOOLEAN
  /\ my_run_ \in BOOLEAN /\ stopping \in BOOLEAN
  /\ thread \in {"loop", "mark", "dispatch", "reset", "work", "set", "emit", "idle",
                 "clear", "exited"}
  /\ gui \in {"ready", "test", "store", "terminate", "wait"}
  /\ commands \in 0..MaxCommands /\ patient \in BOOLEAN /\ chained \in BOOLEAN
  /\ idle_refresh_ \in BOOLEAN
  /\ enabled \in BOOLEAN /\ can_run \in BOOLEAN /\ settled \in BOOLEAN /\ closing \in BOOLEAN
  /\ signals \in Seq({"runComplete", "cannotRun", "settingsUpdated"})

(***************************************************************************)
(* A command that do_...() accepted stays in action_ until the runner      *)
(* dispatches it: no store of the runner at the end of an earlier command  *)
(* overwrites it, whenever the user gave it (if he waited for the settings *)
(* update that follows a run, and there is no idle refresh).               *)
(***************************************************************************)
AcceptedIsKept == patient /\ ~idle_refresh_ /\ owed # "kNone" => action_ = owed

(***************************************************************************)
(* It is so as long as run_completed() has not started a run of its own.   *)
(***************************************************************************)
UnchainedIsKept == TypeOK /\ (~chained => AcceptedIsKept)

Endless == thread = "work" /\ doing \in Acquisitions /\ ~limited /\ ~interruptor
Reported == "runComplete" \in Range(signals) \/ ~my_run_

(***************************************************************************)
(* The form that asked for an acquisition hears of its end, once the       *)
(* command was accepted, under the same conditions: unless the acquisition *)
(* has no timeout and nobody stops it, and always once it is on its way    *)
(* and the interruptor is set.                                             *)
(***************************************************************************)
RunIsReported ==
  /\ \A a \in Acquisitions :
       owed = a /\ patient /\ ~chained /\ ~idle_refresh_ ~> Reported \/ Endless
  /\ thread = "work" /\ doing \in Acquisitions /\ interruptor /\ patient /\ ~chained
       /\ ~idle_refresh_ ~> Reported

(***************************************************************************)
(* terminate() returns, so that the window closes: unless the runner, just *)
(* about to start an acquisition without a timeout, has erased its store   *)
(* to the interruptor.                                                     *)
(***************************************************************************)
TerminateReturns == gui = "wait" ~> gui = "ready" \/ (erased /\ ~limited)
=============================================================================
