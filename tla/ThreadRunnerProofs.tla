------------------------- MODULE ThreadRunnerProofs -------------------------
(***************************************************************************)
(* Proofs about ThreadRunner for any number of commands and a form of      *)
(* either kind: a command that was accepted stays in action_ until it is   *)
(* dispatched, if the user waits for the settings after a run.             *)
(***************************************************************************)
EXTENDS ThreadRunner, SequenceTheorems, TLAPS

-----------------------------------------------------------------------------
(* The inductive invariant: with controls on, the runner has nothing to do *)

\* No command is running, or waits in action_ to be run.
Quiet == /\ action_ = "kNone" /\ owed = "kNone"
         /\ thread \notin {"reset", "work", "set", "emit"}

\* the user may send a command without losing patience
Free == enabled /\ can_run /\ settled /\ ~my_run_

Pending(sig) == \E i \in 1..Len(signals) : signals[i] = sig

\* A command other than an acquisition is asked for, waits or is running.
OtherCommand ==
  \/ gui \in {"test", "store"} /\ asked \notin Acquisitions
  \/ /\ action_ \notin Acquisitions \cup {"kNone"}
     /\ ~(thread = "emit" /\ doing \in Acquisitions)
  \/ thread \in {"reset", "work", "set", "emit"} /\ doing \notin Acquisitions

\* A command is sent only to a runner that has none.
AskInv == /\ Free => Quiet /\ signals = <<>>
          /\ gui \in {"test", "store"} => Quiet /\ ~enabled /\ signals = <<>>

\* What was accepted is in action_, and the end of a command does not find
\* it there: the runner is not in the middle of another one.
OwedInv == /\ owed # "kNone" => /\ action_ = owed
                                /\ thread \notin {"reset", "work", "set", "emit"}
           /\ thread = "emit" /\ doing \notin Acquisitions => action_ = "kNone"

SettingsLast == \A i \in 1..Len(signals) : signals[i] = "settingsUpdated" => i = Len(signals)

\* The settings that free the form come when all is done, and after the end
\* of the run was signalled.
SignalInv == /\ Pending("settingsUpdated") => Quiet
             /\ SettingsLast
             /\ OtherCommand \/ Pending("settingsUpdated")
                  => ~my_run_ \/ Pending("runComplete")
             /\ my_run_ => ~(enabled /\ can_run)

Calm == patient /\ ~idle_refresh_ /\ ~chained

Inv == TypeOK /\ (Calm => AskInv /\ OwedInv /\ SignalInv)

-----------------------------------------------------------------------------
(* Signals                                                                 *)

Sigs == {"runComplete", "cannotRun", "settingsUpdated"}

\* What Signalled() adds, if it adds anything, is last.
LEMMA SignalledIs ==
  ASSUME NEW sig \in Sigs, signals \in Seq(Sigs)
  PROVE  /\ Signalled(sig) \in Seq(Sigs)
         /\ \/ /\ Signalled(sig) = signals
               /\ Len(signals) \in Nat /\ Len(signals) > 0 /\ signals[Len(signals)] = sig
            \/ /\ Len(Signalled(sig)) = Len(signals) + 1 /\ Len(signals) \in Nat
               /\ Signalled(sig)[Len(signals) + 1] = sig
               /\ \A i \in 1..Len(signals) : Signalled(sig)[i] = signals[i]
<1>1. Append(signals, sig) \in Seq(Sigs)
  BY AppendProperties
<1>2. /\ Len(Append(signals, sig)) = Len(signals) + 1
      /\ Append(signals, sig)[Len(signals) + 1] = sig
      /\ \A i \in 1..Len(signals) : Append(signals, sig)[i] = signals[i]
  BY AppendProperties
<1>3. Len(signals) \in Nat
  BY LenProperties
<1>4. CASE signals # <<>> /\ Last(signals) = sig
  <2>1. Len(signals) # 0
    BY <1>4, EmptySeq
  <2> QED
    BY <1>3, <1>4, <2>1 DEF Signalled, Last
<1>5. CASE ~(signals # <<>> /\ Last(signals) = sig)
  BY <1>1, <1>2, <1>3, <1>5 DEF Signalled
<1> QED
  BY <1>4, <1>5

\* What the GUI has handled is gone, the rest moves up.
LEMMA TailIs ==
  ASSUME signals \in Seq(Sigs), signals # <<>>
  PROVE  /\ Tail(signals) \in Seq(Sigs)
         /\ Len(signals) \in Nat /\ Len(signals) > 0
         /\ Head(signals) = signals[1]
         /\ Len(Tail(signals)) = Len(signals) - 1
         /\ \A i \in 1..Len(signals) - 1 : Tail(signals)[i] = signals[i + 1]
<1>1. Len(signals) \in Nat /\ Len(signals) # 0
  BY LenProperties, EmptySeq
<1> QED
  BY <1>1, HeadTailProperties

LEMMA NothingPending == ASSUME signals = <<>>, NEW sig
                        PROVE  ~Pending(sig)
<1>1. Len(signals) = 0
  BY EmptySeq
<1> QED
  BY <1>1 DEF Pending

-----------------------------------------------------------------------------
(* Types                                                                   *)

LEMMA InitTypes == Init => TypeOK
<1> SUFFICES ASSUME Init PROVE TypeOK
  OBVIOUS
<1>1. signals \in Seq({"runComplete", "cannotRun", "settingsUpdated"})
  BY EmptySeq DEF Init
<1>2. commands \in 0..MaxCommands
  BY RunnerAssumption DEF Init
<1> QED
  BY <1>1, <1>2 DEF Init, TypeOK, Actions

\* the sets that Next does not compute with
RunnerTypes == /\ action_ \in Actions /\ doing \in Actions /\ owed \in Actions
               /\ thread \in {"loop", "mark", "dispatch", "reset", "work", "set", "emit",
                              "idle", "clear", "exited"}

GuiTypes == /\ asked \in Actions
            /\ gui \in {"ready", "test", "store", "terminate", "wait"}

BoolTypes == /\ running_ \in BOOLEAN /\ terminating_ \in BOOLEAN /\ interruptor \in BOOLEAN
             /\ my_run_ \in BOOLEAN /\ stopping \in BOOLEAN
             /\ patient \in BOOLEAN /\ chained \in BOOLEAN /\ idle_refresh_ \in BOOLEAN
             /\ enabled \in BOOLEAN /\ can_run \in BOOLEAN /\ settled \in BOOLEAN
             /\ closing \in BOOLEAN

CountTypes == commands \in 0..MaxCommands

SignalTypes == signals \in Seq(Sigs)

TimeoutTypes == limited \in BOOLEAN /\ erased \in BOOLEAN

LEMMA TypeParts == TypeOK <=> /\ RunnerTypes /\ GuiTypes /\ BoolTypes /\ CountTypes
                              /\ SignalTypes /\ TimeoutTypes
BY DEF TypeOK, RunnerTypes, GuiTypes, BoolTypes, CountTypes, SignalTypes, TimeoutTypes, Sigs

LEMMA TypesNext == ASSUME RunnerTypes', GuiTypes', BoolTypes', CountTypes', SignalTypes',
                          TimeoutTypes'
                   PROVE  TypeOK'
BY DEF TypeOK, RunnerTypes, GuiTypes, BoolTypes, CountTypes, SignalTypes, TimeoutTypes, Sigs

\* Only the start of an acquisition and the end of terminate() touch them.
LEMMA TimeoutTypesStep == ASSUME TypeOK, [Next]_vars PROVE TimeoutTypes'
<1>0. TimeoutTypes
  BY TypeParts
<1>1. CASE Reset
  <2>1. limited' \in BOOLEAN /\ erased' = (erased \/ gui \in {"terminate", "wait"})
    BY <1>1 DEF Reset
  <2> QED
    BY <2>1 DEF TimeoutTypes
<1>2. CASE Terminated
  BY <1>0, <1>2 DEF Terminated, TimeoutTypes
<1>3. CASE UNCHANGED <<limited, erased>>
  BY <1>0, <1>3 DEF TimeoutTypes
<1>4. CASE (run /\ ~Reset) \/ SourcesEnd
  BY <1>3, <1>4 DEF run, Loop, Mark, Dispatch, Work, SourcesEnd, SetNext, Emit, Idle, Clear
<1>5. CASE GuiStep /\ ~Terminated
  BY <1>3, <1>5 DEF GuiStep, TestBusy, StoreAction, SettingsUpdated, RunCompleted, Ask,
     TerminateStore, runnerVars
<1>6. CASE (\E cmd \in Commands : Click(cmd)) \/ PressStop \/ CloseEvent \/ Cancel
             \/ TerminateInterrupt \/ UNCHANGED vars
  BY <1>3, <1>6 DEF Click, Ask, PressStop, CloseEvent, Cancel, TerminateInterrupt, vars,
     runnerVars
<1> QED
  BY <1>1, <1>2, <1>4, <1>5, <1>6 DEF Next

LEMMA RunTypes == ASSUME TypeOK, run \/ SourcesEnd, TimeoutTypes' PROVE TypeOK'
<1>0. RunnerTypes /\ GuiTypes /\ BoolTypes /\ CountTypes /\ SignalTypes
  BY TypeParts
<1> USE <1>0 DEF Goto, guiVars
<1>1. CASE Loop
  <2>3. RunnerTypes' /\ GuiTypes'
    BY <1>1 DEF Loop, RunnerTypes, GuiTypes
  <2>4. BoolTypes'
    BY <1>1 DEF Loop, BoolTypes
  <2>5. CountTypes' /\ SignalTypes'
    BY <1>1 DEF Loop, CountTypes, SignalTypes
  <2> QED
    BY <2>3, <2>4, <2>5, TypesNext
<1>2. CASE Mark
  <2>3. RunnerTypes' /\ GuiTypes'
    BY <1>2 DEF Mark, RunnerTypes, GuiTypes
  <2>4. BoolTypes'
    BY <1>2 DEF Mark, BoolTypes
  <2>5. CountTypes' /\ SignalTypes'
    BY <1>2 DEF Mark, CountTypes, SignalTypes
  <2> QED
    BY <2>3, <2>4, <2>5, TypesNext
<1>3. CASE Dispatch
  <2>3. RunnerTypes' /\ GuiTypes'
    BY <1>3 DEF Dispatch, Actions, RunnerTypes, GuiTypes
  <2>4. BoolTypes'
    BY <1>3 DEF Dispatch, Actions, BoolTypes
  <2>5. CountTypes' /\ SignalTypes'
    BY <1>3 DEF Dispatch, Actions, CountTypes, SignalTypes
  <2> QED
    BY <2>3, <2>4, <2>5, TypesNext
<1>4. CASE Reset
  <2>1. signals' \in Seq(Sigs)
    BY <1>4, SignalledIs DEF Reset, SignalTypes, Sigs
  <2>3. RunnerTypes' /\ GuiTypes'
    BY <1>4 DEF Reset, RunnerTypes, GuiTypes
  <2>4. BoolTypes'
    <3>1. interruptor' = FALSE
      BY <1>4 DEF Reset
    <3>2. UNCHANGED <<running_, terminating_, my_run_, stopping, patient, chained,
                              idle_refresh_, enabled, can_run, settled, closing>>
      BY <1>4 DEF Reset
    <3> QED
      BY <3>1, <3>2 DEF BoolTypes
  <2>5. CountTypes' /\ SignalTypes'
    BY <1>4, <2>1 DEF Reset, CountTypes, SignalTypes
  <2> QED
    BY <2>3, <2>4, <2>5, TypesNext
<1>5. CASE Work \/ SourcesEnd
  <2>3. RunnerTypes' /\ GuiTypes'
    BY <1>5 DEF Work, SourcesEnd, RunnerTypes, GuiTypes
  <2>4. BoolTypes'
    BY <1>5 DEF Work, SourcesEnd, BoolTypes
  <2>5. CountTypes' /\ SignalTypes'
    BY <1>5 DEF Work, SourcesEnd, CountTypes, SignalTypes
  <2> QED
    BY <2>3, <2>4, <2>5, TypesNext
<1>6. CASE SetNext
  <2>1. action_' \in Actions
    BY <1>6 DEF SetNext, After, Actions, Commands
  <2>3. RunnerTypes' /\ GuiTypes'
    BY <1>6, <2>1 DEF SetNext, RunnerTypes, GuiTypes
  <2>4. BoolTypes'
    BY <1>6 DEF SetNext, BoolTypes
  <2>5. CountTypes' /\ SignalTypes'
    BY <1>6 DEF SetNext, CountTypes, SignalTypes
  <2> QED
    BY <2>3, <2>4, <2>5, TypesNext
<1>7. CASE Emit
  <2>1. signals' \in Seq(Sigs)
    BY <1>7, SignalledIs DEF Emit, SignalTypes, Sigs
  <2>3. RunnerTypes' /\ GuiTypes'
    BY <1>7 DEF Emit, RunnerTypes, GuiTypes
  <2>4. BoolTypes'
    BY <1>7 DEF Emit, BoolTypes
  <2>5. CountTypes' /\ SignalTypes'
    BY <1>7, <2>1 DEF Emit, CountTypes, SignalTypes
  <2> QED
    BY <2>3, <2>4, <2>5, TypesNext
<1>8. CASE Idle
  <2>3. RunnerTypes' /\ GuiTypes'
    BY <1>8 DEF Idle, Actions, Commands, RunnerTypes, GuiTypes
  <2>4. BoolTypes'
    BY <1>8 DEF Idle, Actions, Commands, BoolTypes
  <2>5. CountTypes' /\ SignalTypes'
    BY <1>8 DEF Idle, Actions, Commands, CountTypes, SignalTypes
  <2> QED
    BY <2>3, <2>4, <2>5, TypesNext
<1>9. CASE Clear
  <2>3. RunnerTypes' /\ GuiTypes'
    BY <1>9 DEF Clear, RunnerTypes, GuiTypes
  <2>4. BoolTypes'
    <3>1. running_' = FALSE
      BY <1>9 DEF Clear
    <3>2. UNCHANGED <<terminating_, interruptor, my_run_, stopping, patient, chained,
                              idle_refresh_, enabled, can_run, settled, closing>>
      BY <1>9 DEF Clear
    <3> QED
      BY <3>1, <3>2 DEF BoolTypes
  <2>5. CountTypes' /\ SignalTypes'
    BY <1>9 DEF Clear, CountTypes, SignalTypes
  <2> QED
    BY <2>3, <2>4, <2>5, TypesNext
<1> QED
  BY <1>1, <1>2, <1>3, <1>4, <1>5, <1>6, <1>7, <1>8, <1>9 DEF run

LEMMA AskTypes == ASSUME TypeOK, NEW cmd \in Commands, Ask(cmd), SignalTypes', TimeoutTypes',
                         patient' \in BOOLEAN, chained' \in BOOLEAN, interruptor' \in BOOLEAN
                  PROVE  TypeOK'
<1> USE DEF Ask, runnerVars
<1>1. RunnerTypes' /\ GuiTypes'
  BY TypeParts DEF RunnerTypes, GuiTypes, Actions
<1>2. BoolTypes'
  BY TypeParts DEF BoolTypes
<1>3. CountTypes'
  BY RunnerAssumption, TypeParts DEF CountTypes
<1> QED
  BY <1>1, <1>2, <1>3, TypesNext

LEMMA GuiStepTypes == ASSUME TypeOK, GuiStep, TimeoutTypes' PROVE TypeOK'
<1>0. RunnerTypes /\ GuiTypes /\ BoolTypes /\ CountTypes /\ SignalTypes
  BY TypeParts
<1> USE <1>0 DEF runnerVars
<1>1. CASE TestBusy
  <2>3. RunnerTypes' /\ GuiTypes'
    BY <1>1 DEF TestBusy, RunnerTypes, GuiTypes
  <2>4. BoolTypes'
    BY <1>1 DEF TestBusy, BoolTypes
  <2>5. CountTypes' /\ SignalTypes'
    BY <1>1 DEF TestBusy, CountTypes, SignalTypes
  <2> QED
    BY <2>3, <2>4, <2>5, TypesNext
<1>2. CASE StoreAction
  <2>3. RunnerTypes' /\ GuiTypes'
    BY <1>2 DEF StoreAction, RunnerTypes, GuiTypes
  <2>4. BoolTypes'
    <3>1. terminating_' = FALSE
      BY <1>2 DEF StoreAction
    <3>2. UNCHANGED <<running_, interruptor, my_run_, stopping, patient, chained,
                              idle_refresh_, enabled, can_run, settled, closing>>
      BY <1>2 DEF StoreAction
    <3> QED
      BY <3>1, <3>2 DEF BoolTypes
  <2>5. CountTypes' /\ SignalTypes'
    BY <1>2 DEF StoreAction, CountTypes, SignalTypes
  <2> QED
    BY <2>3, <2>4, <2>5, TypesNext
<1>3. CASE SettingsUpdated
  <2>1. signals' \in Seq(Sigs)
    BY <1>3, TailIs DEF SettingsUpdated, SignalTypes
  <2>3. RunnerTypes' /\ GuiTypes'
    BY <1>3 DEF SettingsUpdated, RunnerTypes, GuiTypes
  <2>4. BoolTypes'
    BY <1>3 DEF SettingsUpdated, BoolTypes
  <2>5. CountTypes' /\ SignalTypes'
    BY <1>3, <2>1 DEF SettingsUpdated, CountTypes, SignalTypes
  <2> QED
    BY <2>3, <2>4, <2>5, TypesNext
<1>4. CASE RunCompleted
  <2>1. signals' \in Seq(Sigs)
    BY <1>4, TailIs DEF RunCompleted, SignalTypes
  <2>2. CASE Ask("kMCA") /\ interruptor' = FALSE /\ chained' = TRUE /\ UNCHANGED patient
    BY <2>1, <2>2, AskTypes DEF SignalTypes, Commands, Acquisitions, BoolTypes
  <2>3. CASE ~(Ask("kMCA") /\ interruptor' = FALSE /\ chained' = TRUE /\ UNCHANGED patient)
    <3>1. /\ my_run_' = FALSE /\ enabled' = (enabled \/ my_run_) /\ settled' = FALSE
          /\ UNCHANGED <<action_, running_, terminating_, interruptor, runnerVars, gui, asked,
                         commands, stopping, can_run, closing, owed, patient, chained,
                         idle_refresh_>>
      BY <1>4, <2>3 DEF RunCompleted
    <3>2. RunnerTypes' /\ GuiTypes'
      BY <3>1 DEF RunnerTypes, GuiTypes
    <3>3. BoolTypes'
      BY <3>1 DEF BoolTypes
    <3>4. CountTypes' /\ SignalTypes'
      BY <3>1, <2>1 DEF CountTypes, SignalTypes
    <3> QED
      BY <3>2, <3>3, <3>4, TypesNext
  <2> QED
    BY <2>2, <2>3
<1>5. CASE TerminateStore
  <2>3. RunnerTypes' /\ GuiTypes'
    BY <1>5 DEF TerminateStore, RunnerTypes, GuiTypes
  <2>4. BoolTypes'
    BY <1>5 DEF TerminateStore, BoolTypes
  <2>5. CountTypes' /\ SignalTypes'
    BY <1>5 DEF TerminateStore, CountTypes, SignalTypes
  <2> QED
    BY <2>3, <2>4, <2>5, TypesNext
<1>6. CASE Terminated
  <2>3. RunnerTypes' /\ GuiTypes'
    BY <1>6 DEF Terminated, Actions, RunnerTypes, GuiTypes
  <2>4. BoolTypes'
    BY <1>6 DEF Terminated, Actions, BoolTypes
  <2>5. CountTypes' /\ SignalTypes'
    BY <1>6 DEF Terminated, Actions, CountTypes, SignalTypes
  <2> QED
    BY <2>3, <2>4, <2>5, TypesNext
<1> QED
  BY <1>1, <1>2, <1>3, <1>4, <1>5, <1>6 DEF GuiStep

LEMMA TypesStep == TypeOK /\ [Next]_vars => TypeOK'
<1> SUFFICES ASSUME TypeOK, [Next]_vars PROVE TypeOK'
  OBVIOUS
<1>0. TimeoutTypes'
  BY TimeoutTypesStep
<1> USE <1>0 DEF runnerVars
<1>1. ASSUME NEW cmd \in Commands, Click(cmd) PROVE TypeOK'
  <2>1. Ask(cmd) /\ UNCHANGED <<interruptor, signals, chained>>
        /\ patient' = (patient /\ can_run /\ settled /\ ~my_run_)
    BY <1>1 DEF Click
  <2>2. SignalTypes' /\ patient' \in BOOLEAN /\ chained' \in BOOLEAN /\ interruptor' \in BOOLEAN
    BY <2>1, TypeParts DEF SignalTypes, BoolTypes
  <2> QED
    BY <2>1, <2>2, AskTypes
<1>2. CASE PressStop
  BY <1>2 DEF PressStop, TypeOK, TimeoutTypes
<1>3. CASE CloseEvent \/ Cancel
  <2>3. RunnerTypes' /\ GuiTypes'
    BY <1>3, TypeParts DEF CloseEvent, Cancel, RunnerTypes, GuiTypes
  <2>4. BoolTypes'
    <3>1. closing' \in BOOLEAN
      BY <1>3 DEF CloseEvent, Cancel
    <3>2. UNCHANGED <<running_, terminating_, interruptor, my_run_, stopping, patient, chained,
                      idle_refresh_, enabled, can_run, settled>>
      BY <1>3 DEF CloseEvent, Cancel
    <3> QED
      BY <3>1, <3>2, TypeParts DEF BoolTypes
  <2>5. CountTypes' /\ SignalTypes'
    BY <1>3, TypeParts DEF CloseEvent, Cancel, CountTypes, SignalTypes
  <2> QED
    BY <2>3, <2>4, <2>5, TypesNext
<1>4. CASE TerminateInterrupt
  BY <1>4 DEF TerminateInterrupt, TypeOK, TimeoutTypes
<1>5. CASE UNCHANGED vars
  BY <1>5 DEF vars, guiVars, TypeOK, TimeoutTypes
<1> QED
  BY <1>1, <1>2, <1>3, <1>4, <1>5, RunTypes, GuiStepTypes DEF Next

-----------------------------------------------------------------------------
(* A calm user's command is kept                                           *)

\* Patience is lost once, and so is the form's calm.
LEMMA CalmBefore == [Next]_vars /\ Calm' => Calm
<1> DEFINE U == UNCHANGED <<patient, chained, idle_refresh_>>
<1> SUFFICES ASSUME [Next]_vars, Calm' PROVE Calm
  OBVIOUS
<1>1. U => Calm
  BY DEF Calm
<1>2. CASE run \/ SourcesEnd
  <2>1. U
    BY <1>2 DEF run, Loop, Mark, Dispatch, Reset, Work, SourcesEnd, SetNext, Emit, Idle, Clear, guiVars
  <2> QED
    BY <1>1, <2>1
<1>3. CASE TestBusy \/ StoreAction \/ SettingsUpdated \/ TerminateStore \/ Terminated
  <2>1. U
    BY <1>3 DEF TestBusy, StoreAction, SettingsUpdated, TerminateStore, Terminated
  <2> QED
    BY <1>1, <2>1
<1>4. CASE RunCompleted
  <2>1. U \/ chained' = TRUE
    BY <1>4 DEF RunCompleted, Ask
  <2> QED
    BY <1>1, <2>1 DEF Calm
<1>5. CASE \E cmd \in Commands : Click(cmd)
  <2>1. /\ patient' = (patient /\ can_run /\ settled /\ ~my_run_)
        /\ UNCHANGED <<chained, idle_refresh_>>
    BY <1>5 DEF Click, Ask
  <2> QED
    BY <2>1 DEF Calm
<1>6. CASE PressStop \/ CloseEvent \/ Cancel \/ TerminateInterrupt \/ UNCHANGED vars
  <2>1. U
    BY <1>6 DEF PressStop, CloseEvent, Cancel, TerminateInterrupt, vars, guiVars
  <2> QED
    BY <1>1, <2>1
<1> QED
  BY <1>2, <1>3, <1>4, <1>5, <1>6 DEF Next, GuiStep

CalmInv == AskInv /\ OwedInv /\ SignalInv

\* the steps that none of it depends on
Frame == UNCHANGED <<action_, asked, my_run_, enabled, can_run, settled, signals, owed>>

LEMMA SignalsKept == ASSUME signals' = signals
                     PROVE  /\ \A sig \in Sigs : Pending(sig)' <=> Pending(sig)
                            /\ SettingsLast' <=> SettingsLast
BY DEF Pending, SettingsLast

LEMMA FrameStep ==
  ASSUME CalmInv, Frame,
         gui' \in {"test", "store"} => gui \in {"test", "store"},
         \/ UNCHANGED <<thread, doing>>
         \/ /\ thread \notin {"reset", "work", "set", "emit"}
            /\ thread' \notin {"reset", "work", "set", "emit"}
         \/ thread = "work" /\ thread' = "set" /\ doing' = doing
  PROVE  CalmInv'
<1>1. /\ Pending("settingsUpdated")' <=> Pending("settingsUpdated")
      /\ Pending("runComplete")' <=> Pending("runComplete")
      /\ SettingsLast' <=> SettingsLast
  BY SignalsKept DEF Frame, Sigs
<1>2. (Quiet' <=> Quiet) /\ (Free' <=> Free)
  BY DEF Frame, Quiet, Free
<1>3. OtherCommand' => OtherCommand
  BY DEF Frame, OtherCommand
<1>4. AskInv'
  BY <1>2 DEF CalmInv, AskInv, Frame
<1>5. OwedInv'
  BY DEF CalmInv, OwedInv, Frame
<1>6. SignalInv'
  BY <1>1, <1>2, <1>3 DEF CalmInv, SignalInv, Frame
<1> QED
  BY <1>4, <1>5, <1>6 DEF CalmInv

\* A new signal comes after those that are pending.
LEMMA NewSignal ==
  ASSUME SignalTypes, NEW sig \in Sigs, signals' = Signalled(sig)
  PROVE  /\ Pending(sig)'
         /\ \A other \in Sigs : Pending(other) => Pending(other)'
         /\ \A other \in Sigs \ {sig} : Pending(other)' => Pending(other)
         /\ ~Pending("settingsUpdated") => SettingsLast'
<1>1. /\ signals \in Seq(Sigs) /\ signals' \in Seq(Sigs)
      /\ Len(signals) \in Nat /\ Len(signals') \in Nat
  BY SignalledIs, LenProperties DEF SignalTypes
<1>2. CASE signals' = signals /\ Len(signals) > 0 /\ signals[Len(signals)] = sig
  BY <1>1, <1>2 DEF Pending, SettingsLast
<1>3. CASE /\ Len(signals') = Len(signals) + 1 /\ signals'[Len(signals) + 1] = sig
           /\ \A i \in 1..Len(signals) : signals'[i] = signals[i]
  <2>1. \A i \in 1..Len(signals') : i \in 1..Len(signals) \/ i = Len(signals')
    BY <1>1, <1>3
  <2>2. \A i \in 1..Len(signals) : i \in 1..Len(signals')
    BY <1>1, <1>3
  <2>3. Len(signals') \in 1..Len(signals') /\ signals'[Len(signals')] = sig
    BY <1>1, <1>3
  <2>4. Pending(sig)'
    BY <2>3 DEF Pending
  <2>5. \A other \in Sigs : Pending(other) => Pending(other)'
    BY <1>3, <2>2 DEF Pending
  <2>6. \A other \in Sigs \ {sig} : Pending(other)' => Pending(other)
    BY <1>3, <2>1, <2>3 DEF Pending
  <2>7. ~Pending("settingsUpdated") => SettingsLast'
    BY <1>3, <2>1 DEF Pending, SettingsLast
  <2> QED
    BY <2>4, <2>5, <2>6, <2>7
<1> QED
  BY <1>2, <1>3, SignalledIs DEF SignalTypes

\* While the runner has something to do, no command is sent to it.
LEMMA AskKept ==
  ASSUME CalmInv, ~Quiet, UNCHANGED <<gui, my_run_, enabled, can_run, settled>>
  PROVE  AskInv' /\ gui \notin {"test", "store"} /\ ~Pending("settingsUpdated")
<1>1. ~Free /\ gui \notin {"test", "store"} /\ ~Pending("settingsUpdated")
  BY DEF CalmInv, AskInv, SignalInv
<1>2. Free' <=> Free
  BY DEF Free
<1> QED
  BY <1>1, <1>2 DEF AskInv

LEMMA DispatchStep == ASSUME TypeOK, Calm, CalmInv, Dispatch PROVE CalmInv'
<1> USE DEF Goto
<1>1. CASE action_ = "kNone"
  <2>1. owed = "kNone" /\ owed' = "kNone"
    BY <1>1 DEF Dispatch, CalmInv, OwedInv
  <2> QED
    BY <1>1, <2>1, FrameStep DEF Dispatch, guiVars, Frame
<1>2. CASE action_ # "kNone"
  <2>1. /\ UNCHANGED <<action_, asked, gui, my_run_, enabled, can_run, settled, signals>>
        /\ thread' \in {"reset", "work"} /\ doing' = action_ /\ thread = "dispatch"
    BY <1>2 DEF Dispatch, guiVars
  <2>2. owed' = "kNone"
    BY DEF Dispatch, CalmInv, OwedInv
  <2>3. AskInv' /\ gui \notin {"test", "store"} /\ ~Pending("settingsUpdated")
    BY <1>2, <2>1, AskKept DEF Quiet
  <2>4. OwedInv'
    BY <2>1, <2>2 DEF OwedInv
  <2>5. OtherCommand' => OtherCommand
    BY <1>2, <2>1, <2>3 DEF OtherCommand
  <2>6. SignalInv'
    BY <2>1, <2>3, <2>5, SignalsKept DEF SignalInv, CalmInv, Sigs
  <2> QED
    BY <2>3, <2>4, <2>6 DEF CalmInv
<1> QED
  BY <1>1, <1>2

LEMMA ResetStep == ASSUME TypeOK, Calm, CalmInv, Reset PROVE CalmInv'
<1>1. /\ UNCHANGED <<action_, doing, owed, asked, gui, my_run_, enabled, can_run, settled>>
      /\ thread = "reset" /\ thread' = "work"
      /\ signals' = signals \/ signals' = Signalled("cannotRun")
  BY DEF Reset, Goto, guiVars
<1>2. AskInv' /\ gui \notin {"test", "store"} /\ ~Pending("settingsUpdated")
  BY <1>1, AskKept DEF Quiet
<1>3. OwedInv'
  BY <1>1 DEF OwedInv, CalmInv
<1>4. OtherCommand' => OtherCommand
  BY <1>1 DEF OtherCommand
<1>5. /\ ~Pending("settingsUpdated")' /\ SettingsLast'
      /\ Pending("runComplete") => Pending("runComplete")'
  <2>1. CASE signals' = signals
    BY <2>1, <1>2, SignalsKept DEF CalmInv, SignalInv, Sigs
  <2>2. CASE signals' = Signalled("cannotRun")
    BY <2>2, <1>2, NewSignal, TypeParts DEF Sigs
  <2> QED
    BY <1>1, <2>1, <2>2
<1>6. SignalInv'
  BY <1>1, <1>4, <1>5 DEF CalmInv, SignalInv
<1> QED
  BY <1>2, <1>3, <1>6 DEF CalmInv

LEMMA SetNextStep == ASSUME TypeOK, Calm, CalmInv, SetNext PROVE CalmInv'
<1>1. PICK a \in After(doing) : /\ action_' = a /\ thread = "set"
                               /\ thread' = IF a \in {"kBoot", "kOscil"} THEN "clear" ELSE "emit"
  BY DEF SetNext, Goto
<1>2. UNCHANGED <<doing, owed, asked, gui, my_run_, enabled, can_run, settled, signals>>
  BY DEF SetNext, guiVars
<1>3. AskInv' /\ gui \notin {"test", "store"} /\ ~Pending("settingsUpdated")
  BY <1>1, <1>2, AskKept DEF Quiet
<1>4. /\ doing \in Acquisitions => thread' = "emit"
      /\ doing \notin Acquisitions => a \in {"kBoot", "kNone", "kOscil"}
  BY <1>1 DEF After, Acquisitions
<1>5. owed' = "kNone"
  BY <1>1, <1>2 DEF CalmInv, OwedInv
<1>6. OwedInv'
  BY <1>1, <1>2, <1>4, <1>5 DEF OwedInv
<1>7. OtherCommand' => OtherCommand
  BY <1>1, <1>2, <1>3, <1>4 DEF OtherCommand
<1>8. SignalInv'
  BY <1>2, <1>3, <1>7, SignalsKept DEF SignalInv, CalmInv, Sigs
<1> QED
  BY <1>3, <1>6, <1>8 DEF CalmInv

LEMMA EmitStep == ASSUME TypeOK, Calm, CalmInv, Emit PROVE CalmInv'
<1> DEFINE sig == IF doing \in Acquisitions THEN "runComplete" ELSE "settingsUpdated"
<1>1. /\ UNCHANGED <<action_, doing, owed, asked, gui, my_run_, enabled, can_run, settled>>
      /\ thread = "emit" /\ thread' = "clear"
      /\ signals' = Signalled(sig) /\ sig \in Sigs
  BY DEF Emit, Goto, guiVars, Sigs
<1>2. AskInv' /\ gui \notin {"test", "store"} /\ ~Pending("settingsUpdated")
  BY <1>1, AskKept DEF Quiet
<1>3. owed = "kNone"
  BY <1>1 DEF CalmInv, OwedInv
<1>4. OwedInv'
  BY <1>1, <1>3 DEF OwedInv
<1>5. SettingsLast' /\ (Pending("runComplete") => Pending("runComplete")')
  BY <1>1, <1>2, NewSignal, TypeParts DEF Sigs
<1>6. CASE doing \in Acquisitions
  <2>1. ~Pending("settingsUpdated")' /\ Pending("runComplete")'
    BY <1>1, <1>2, <1>6, NewSignal, TypeParts DEF Sigs
  <2> QED
    BY <1>1, <1>2, <1>4, <1>5, <2>1 DEF CalmInv, SignalInv
<1>7. CASE doing \notin Acquisitions
  <2>1. Quiet'
    BY <1>1, <1>3, <1>7 DEF Quiet, CalmInv, OwedInv
  <2>2. OtherCommand
    BY <1>1, <1>7 DEF OtherCommand
  <2> QED
    BY <1>1, <1>2, <1>4, <1>5, <2>1, <2>2 DEF CalmInv, SignalInv
<1> QED
  BY <1>6, <1>7

LEMMA RunStep == ASSUME TypeOK, Calm, CalmInv, run \/ SourcesEnd PROVE CalmInv'
<1>1. CASE Loop \/ Mark \/ Work \/ SourcesEnd \/ Clear
  BY <1>1, FrameStep DEF Loop, Mark, Work, SourcesEnd, Clear, guiVars, Frame, Goto
<1>2. CASE Idle
  BY <1>2, FrameStep DEF Idle, guiVars, Frame, Calm, Goto
<1> QED
  BY <1>1, <1>2, DispatchStep, ResetStep, SetNextStep, EmitStep DEF run

\* Only a form whose runner is quiet sends a command.
LEMMA ClickStep == ASSUME TypeOK, Calm, Calm', CalmInv, NEW cmd \in Commands, Click(cmd)
                   PROVE  CalmInv'
<1>1. /\ gui' = "test" /\ asked' = cmd /\ enabled' = FALSE /\ enabled
      /\ my_run_' = (my_run_ \/ cmd \in Acquisitions)
      /\ UNCHANGED <<action_, thread, doing, can_run, settled, signals, owed>>
  BY DEF Click, Ask, runnerVars
<1>2. patient' = (patient /\ can_run /\ settled /\ ~my_run_)
  BY DEF Click
<1>3. can_run /\ settled /\ ~my_run_
  BY <1>2 DEF Calm
<1>4. Quiet /\ signals = <<>>
  BY <1>1, <1>3 DEF Free, CalmInv, AskInv
<1>5. Quiet' /\ signals' = <<>> /\ ~Free'
  BY <1>1, <1>4 DEF Quiet, Free
<1>6. AskInv'
  BY <1>1, <1>5 DEF AskInv
<1>7. OwedInv'
  BY <1>1, <1>4 DEF OwedInv, Quiet
<1>8. ~Pending("settingsUpdated")' /\ SettingsLast'
  <2>1. ~Pending("settingsUpdated") /\ SettingsLast
    BY <1>4, NothingPending DEF CalmInv, SignalInv
  <2> QED
    BY <1>1, <2>1, SignalsKept DEF Sigs
<1>9. OtherCommand' => ~my_run_'
  <2>1. CASE cmd \in Acquisitions
    BY <1>1, <1>4, <2>1 DEF OtherCommand, Quiet
  <2>2. CASE cmd \notin Acquisitions
    BY <1>1, <1>3, <2>2
  <2> QED
    BY <2>1, <2>2
<1>10. SignalInv'
  BY <1>1, <1>8, <1>9 DEF SignalInv
<1> QED
  BY <1>6, <1>7, <1>10 DEF CalmInv

LEMMA StoreStep == ASSUME TypeOK, Calm, CalmInv, StoreAction PROVE CalmInv'
<1>1. /\ gui = "store" /\ gui' = "ready" /\ action_' = asked /\ owed' = asked
      /\ thread' \in {thread, "loop"}
      /\ UNCHANGED <<doing, asked, my_run_, enabled, can_run, settled, signals>>
  BY DEF StoreAction
<1>2. Quiet /\ ~enabled /\ signals = <<>>
  BY <1>1 DEF CalmInv, AskInv
<1>3. ~Pending("settingsUpdated")' /\ SettingsLast'
      /\ (Pending("runComplete")' <=> Pending("runComplete"))
  BY <1>1, <1>2, NothingPending, SignalsKept DEF Sigs, CalmInv, SignalInv
<1>4. AskInv'
  BY <1>1, <1>2 DEF AskInv, Free
<1>5. OwedInv'
  BY <1>1, <1>2 DEF OwedInv, Quiet
<1>6. OtherCommand' => OtherCommand
  BY <1>1, <1>2 DEF OtherCommand, Quiet
<1>7. SignalInv'
  BY <1>1, <1>3, <1>6 DEF SignalInv, CalmInv
<1> QED
  BY <1>4, <1>5, <1>7 DEF CalmInv

\* Handling a signal leaves the others pending.
LEMMA HandleSignal ==
  ASSUME SignalTypes, signals # <<>>, signals' = Tail(signals)
  PROVE  /\ \A sig \in Sigs : Pending(sig)' => Pending(sig)
         /\ \A sig \in Sigs \ {Head(signals)} : Pending(sig) => Pending(sig)'
         /\ SettingsLast => SettingsLast'
         /\ SettingsLast /\ Head(signals) = "settingsUpdated" => Len(signals) = 1 /\ signals' = <<>>
<1> DEFINE n == Len(signals)
<1>1. /\ signals' \in Seq(Sigs) /\ n \in Nat /\ n > 0
      /\ Head(signals) = signals[1] /\ Len(signals') = n - 1
      /\ \A i \in 1..n - 1 : signals'[i] = signals[i + 1]
  BY TailIs DEF SignalTypes
<1>2. \A sig \in Sigs : Pending(sig)' => Pending(sig)
  <2> TAKE sig \in Sigs
  <2> HAVE Pending(sig)'
  <2>1. PICK i \in 1..Len(signals') : signals'[i] = sig
    BY DEF Pending
  <2>2. i + 1 \in 1..n /\ signals[i + 1] = sig
    BY <1>1, <2>1
  <2> QED
    BY <2>2 DEF Pending
<1>3. \A sig \in Sigs \ {Head(signals)} : Pending(sig) => Pending(sig)'
  <2> TAKE sig \in Sigs \ {Head(signals)}
  <2> HAVE Pending(sig)
  <2>1. PICK i \in 1..n : signals[i] = sig
    BY DEF Pending
  <2>2. i # 1
    BY <1>1, <2>1
  <2>3. i - 1 \in 1..n - 1 /\ i - 1 \in 1..Len(signals') /\ (i - 1) + 1 = i
    BY <1>1, <2>1, <2>2
  <2>4. signals'[i - 1] = sig
    BY <1>1, <2>1, <2>3
  <2> QED
    BY <2>3, <2>4 DEF Pending
<1>4. SettingsLast => SettingsLast'
  <2> SUFFICES ASSUME SettingsLast, NEW i \in 1..Len(signals'), signals'[i] = "settingsUpdated"
               PROVE  i = Len(signals')
    BY DEF SettingsLast
  <2>1. i + 1 \in 1..n /\ signals[i + 1] = "settingsUpdated"
    BY <1>1
  <2>2. i + 1 = n
    BY <2>1 DEF SettingsLast
  <2>3. i \in Nat /\ Len(signals') = n - 1 /\ n \in Nat
    BY <1>1
  <2> HIDE DEF n
  <2> QED
    BY <2>2, <2>3
<1>5. SettingsLast /\ Head(signals) = "settingsUpdated" => Len(signals) = 1 /\ signals' = <<>>
  <2> SUFFICES ASSUME SettingsLast, signals[1] = "settingsUpdated"
               PROVE  Len(signals) = 1 /\ signals' = <<>>
    BY <1>1
  <2>1. 1 \in 1..n
    BY <1>1
  <2>2. n = 1
    BY <2>1 DEF SettingsLast
  <2>3. Len(signals') = 0
    BY <1>1, <2>2
  <2> QED
    BY <1>1, <2>2, <2>3, EmptySeq
<1> QED
  BY <1>2, <1>3, <1>4, <1>5

LEMMA UpdateStep == ASSUME TypeOK, Calm, CalmInv, SettingsUpdated PROVE CalmInv'
<1>1. /\ gui = "ready" /\ signals # <<>> /\ Head(signals) # "runComplete"
      /\ signals' = Tail(signals) /\ can_run' = (Head(signals) = "settingsUpdated")
      /\ UNCHANGED <<action_, thread, doing, owed, gui, asked, my_run_>>
  BY DEF SettingsUpdated, runnerVars
<1>2. SignalTypes /\ SettingsLast
  BY TypeParts DEF CalmInv, SignalInv
<1>3. /\ Pending("settingsUpdated")' => Pending("settingsUpdated")
      /\ Pending("runComplete")' <=> Pending("runComplete")
      /\ SettingsLast'
  BY <1>1, <1>2, HandleSignal DEF Sigs
<1>4. (Quiet' <=> Quiet) /\ (OtherCommand' <=> OtherCommand)
  BY <1>1 DEF Quiet, OtherCommand
<1>5. OwedInv'
  BY <1>1 DEF OwedInv, CalmInv
<1>6. CASE Head(signals) = "settingsUpdated"
  <2>1. Len(signals) = 1 /\ signals' = <<>> /\ signals[1] = "settingsUpdated"
    BY <1>1, <1>2, <1>6, HandleSignal, TailIs DEF SignalTypes
  <2>2. Pending("settingsUpdated") /\ ~Pending("runComplete")
    BY <2>1 DEF Pending
  <2>3. Quiet /\ ~my_run_
    BY <2>2 DEF CalmInv, SignalInv
  <2>4. AskInv'
    BY <1>1, <1>4, <2>1, <2>3 DEF AskInv
  <2>5. SignalInv'
    BY <1>1, <1>3, <1>4, <2>3 DEF SignalInv
  <2> QED
    BY <1>5, <2>4, <2>5 DEF CalmInv
<1>7. CASE Head(signals) # "settingsUpdated"
  <2>1. ~can_run'
    BY <1>1, <1>7
  <2>2. AskInv'
    BY <1>1, <2>1 DEF AskInv, Free
  <2>3. SignalInv'
    BY <1>1, <1>3, <1>4, <2>1 DEF SignalInv, CalmInv
  <2> QED
    BY <1>5, <2>2, <2>3 DEF CalmInv
<1> QED
  BY <1>6, <1>7

LEMMA CompletedStep == ASSUME TypeOK, Calm, Calm', CalmInv, RunCompleted PROVE CalmInv'
<1>1. chained' # TRUE
  BY DEF Calm
<1>2. /\ gui = "ready" /\ signals # <<>> /\ signals' = Tail(signals)
      /\ my_run_' = FALSE /\ settled' = FALSE
      /\ UNCHANGED <<action_, thread, doing, owed, gui, asked>>
  BY <1>1 DEF RunCompleted, runnerVars
<1>3. SignalTypes /\ SettingsLast
  BY TypeParts DEF CalmInv, SignalInv
<1>4. (Pending("settingsUpdated")' => Pending("settingsUpdated")) /\ SettingsLast'
  BY <1>2, <1>3, HandleSignal DEF Sigs
<1>5. AskInv'
  BY <1>2 DEF AskInv, Free
<1>6. OwedInv'
  BY <1>2 DEF OwedInv, CalmInv
<1>7. Quiet' <=> Quiet
  BY <1>2 DEF Quiet
<1>8. SignalInv'
  BY <1>2, <1>4, <1>7 DEF SignalInv, CalmInv
<1> QED
  BY <1>5, <1>6, <1>8 DEF CalmInv

\* The form is gone, and had its controls off if it had a run.
LEMMA TerminatedStep == ASSUME TypeOK, Calm, CalmInv, Terminated PROVE CalmInv'
<1>1. /\ gui' = "ready" /\ my_run_' = FALSE /\ owed' = "kNone"
      /\ UNCHANGED <<action_, thread, doing, asked, enabled, can_run, settled, signals>>
  BY DEF Terminated, runnerVars
<1>2. Free' => Free
  BY <1>1 DEF Free, CalmInv, SignalInv
<1>3. Quiet => Quiet'
  BY <1>1 DEF Quiet
<1>4. AskInv'
  BY <1>1, <1>2, <1>3 DEF AskInv, CalmInv
<1>5. OwedInv'
  BY <1>1 DEF OwedInv, CalmInv
<1>6. SignalInv'
  BY <1>1, <1>3, SignalsKept DEF SignalInv, CalmInv, Sigs
<1> QED
  BY <1>4, <1>5, <1>6 DEF CalmInv

LEMMA CalmStep == TypeOK /\ Calm /\ Calm' /\ CalmInv /\ [Next]_vars => CalmInv'
<1> SUFFICES ASSUME TypeOK, Calm, Calm', CalmInv, [Next]_vars PROVE CalmInv'
  OBVIOUS
<1>1. CASE TestBusy \/ TerminateStore \/ PressStop \/ CloseEvent \/ Cancel \/ TerminateInterrupt
  BY <1>1, FrameStep DEF TestBusy, TerminateStore, PressStop, CloseEvent, Cancel,
     TerminateInterrupt, runnerVars, Frame
<1>2. CASE UNCHANGED vars
  BY <1>2, FrameStep DEF vars, runnerVars, guiVars, Frame
<1> QED
  BY <1>1, <1>2, RunStep, ClickStep, StoreStep, UpdateStep, CompletedStep, TerminatedStep
     DEF Next, GuiStep

-----------------------------------------------------------------------------
(* The theorems                                                            *)

LEMMA InitInv == Init => Inv
<1> SUFFICES ASSUME Init PROVE CalmInv
  BY InitTypes DEF Inv, CalmInv
<1>1. Quiet /\ signals = <<>> /\ gui = "ready" /\ my_run_ = FALSE /\ owed = "kNone"
      /\ thread = "loop"
  BY DEF Init, Quiet
<1>2. Len(signals) = 0
  BY <1>1, EmptySeq
<1>3. ~Pending("settingsUpdated") /\ SettingsLast
  BY <1>2 DEF Pending, SettingsLast
<1>4. AskInv /\ OwedInv
  BY <1>1 DEF AskInv, OwedInv
<1>5. SignalInv
  BY <1>1, <1>3 DEF SignalInv
<1> QED
  BY <1>4, <1>5 DEF CalmInv

(***************************************************************************)
(* As long as the user is patient, no run starts another and nothing is    *)
(* refreshed when idle, a form whose controls are on has a runner with     *)
(* nothing to do, and the signals say so in order.                         *)
(***************************************************************************)
THEOREM Invariance == Spec => []Inv
<1>1. Inv /\ [Next]_vars => Inv'
  <2> SUFFICES ASSUME Inv, [Next]_vars PROVE Inv'
    OBVIOUS
  <2>1. TypeOK'
    BY TypesStep DEF Inv
  <2>2. Calm' => CalmInv'
    BY CalmBefore, CalmStep DEF Inv, CalmInv
  <2> QED
    BY <2>1, <2>2 DEF Inv, CalmInv
<1> QED
  BY InitInv, <1>1, PTL DEF Spec

(***************************************************************************)
(* No store of the runner thread, at the end of a command or when idle,    *)
(* overwrites a command that do_...() accepted from a patient user.        *)
(***************************************************************************)
THEOREM AcceptedStays == Spec => []UnchainedIsKept
<1>1. Inv => UnchainedIsKept
  BY DEF Inv, Calm, OwedInv, UnchainedIsKept, AcceptedIsKept
<1> QED
  BY <1>1, Invariance, PTL
=============================================================================
