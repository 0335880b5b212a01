# qpx-gamma: a TLA+ model

qpx-gamma acquires list-mode data from gamma spectrometers and sorts them into
spectra while they come in. This directory holds TLA+ modules of the parts of
it that are hard to test: the threads of an acquisition, the merge of several
detectors' hits in order of time, the coincidence logic, the accounting of live
and real time, the objects that the GUI shares with those threads, the walk of
an experiment over its settings, the regions of a fit with the thread that fits
them, and a device behind a serial port whose answers race a timer.

All paths are relative to the root of the repository (`src/` in
`PROJECT.json`).

Contents: 1 the system, 2 the modules, 3 what the runs show, 4 bounds,
5 fairness, 6 proofs, 7 what is only model-checked, 8 where the code falls
short, 9 what is not modelled, 10 plan.

## 1. The system

| Part | State | Operations | Interacts with |
|---|---|---|---|
| `SynchronizedQueue` (engine/synchronized_queue.h) | `queue_`, `end_queue_`, mutex, condition variable | `enqueue`, `dequeue`, `stop`, `size` | every thread of an acquisition |
| Sources (sources/\*): Simulator2D, Pixie4, ParserRaw, ParserEvt | `run_status_` 0..3, a run thread, for Pixie4 a parser thread and a raw queue | `daq_start`, `daq_stop`, `daq_running`, `boot`, `die`, settings | enqueue `Spill`s: hits, stats updates |
| `Engine` (engine/engine.cpp), a singleton with one mutex | `devices_`, `total_det_num_`, status, settings tree | `getMca`, `getList`, `boot`, `die`, settings, `oscilloscope` | starts and stops sources, starts the builder thread |
| The builder thread, `worker_MCA` | `current_spills`, `queue_status`, `out_spill` | merge, evict | takes from the queue, gives to `Project::add_spill` |
| `Project` (engine/project.cpp) | `sinks_`, `fitters_1d_`, `ready_`, `newdata_`, `changed_`, one mutex | add, delete, clear, save, load, `wait_ready`, `new_data` | the builder thread, the GUI thread, the plot thread |
| `Sink`s (engine/daq_sink.cpp, sinks/\*) | counts, attributes, two mutexes; for `Spectrum` a backlog of events and a list of stats updates per channel | `push_spill`, `flush`, `metadata`, `set_attribute(s)`, `save`, `load` | the project; the GUI through `SinkPtr`s |
| `ThreadRunner` (gui/thread_runner.cpp) | one command slot `action_`, `running_`, `terminating_` | `do_...`, `terminate`, `run` | the GUI thread by signals, the engine by calls |
| Forms (gui/daq/\*) | `my_run_`, an `interruptor_` each | start, stop, `run_completed`, close | the runner, the project |
| `ThreadPlotSignal` (gui/thread_plot_signal.h) | `terminating_` | `run`, `monitor_source`, `terminate_wait` | waits in the project |
| `ExperimentProject`, `TrajectoryNode` (engine/experiment.cpp, domain.cpp) and `FormExperiment` | a tree of domains and points, `data`, `next_idx`, `results_`; `continue_`, `my_run_` | edit the tree, start, stop, `next_setting`, `push_next_setting`, `apply_setting`, save, load | sets the engine's settings from the GUI thread; runs through the runner, which refreshes the same settings |
| `Fitter`, `ROI`, `Finder` (engine/fitting/\*) | `regions_` by left bin; each with edges, peaks, `fits_`, `current_fit_` | find, fit, adjust edges, merge, add and remove peaks, rollback, save, load | edited on a copy by the fitting thread, or by the form |
| `ThreadFitter` (gui/fitter/thread_fitter.cpp) and `FormFitter` | `action_`, `running_`, `fitter_`; `busy_`, `fit_data_` | `set_data` and a command, `stop_work`, `run`; `fit_updated`, `fitting_complete` | signals with copies of the fitter |
| `QpxHV8Plugin` and `TimeoutSerial` (sources/HV8/\*) | `voltages`, status; `readData`, the pending read, timer and handlers | `boot`, `die`, `get_all_settings`, `set_voltage`; `readStringUntil` | a supply at the end of a line, with a log in |
| Settings tree, calibration, numerical fits, analysis | | | not modelled, see 9 |

What makes them correct, and what is hard:

* **Queue.** Items come out once and in order; no consumer sleeps on a
  non-empty queue; `stop()` releases all. Hard: several consumers that one
  notification each is to reach, spurious wakeups, and a `stop()` that, unlike
  `enqueue()`, takes no lock.
* **Acquisition.** `getMca` returns, after every thread that uses its queue
  (on its stack) has ended, and with every spill handed on. Hard: three
  threads and a polling loop that talk through one atomic per source and the
  size of a queue.
* **Builder.** Hits reach the sinks once, in order of time, and not before the
  stats update they belong to; nothing is left at the end. Hard: the order in
  which sources start, deliver and stop.
* **Coincidence.** Each hit is in one event, each event has all hits of its
  window, and is counted. Hard: delays that reorder hits, pile-up, eviction.
* **Times.** Live and real time are what the channel was on for, over all
  acquisitions. Hard: sequences of start, running, stop, some incomplete.
* **Sinks and project.** What the GUI shows and saves is what was acquired.
  Hard: two threads, dialogs with copies, flags with several readers, files.
* **Runner.** A command accepted is executed, a run is reported, stop stops,
  the program can be closed. Hard: one slot, written from signals of the
  thread that clears it.
* **Experiment.** The data of a point were taken at the settings the tree says;
  a walk that is done has been everywhere; no two points share data. Hard: a
  tree that is walked, edited, saved and resumed, a device that refuses values,
  and settings that two threads write.
* **Fit regions.** A region is found where it is looked for, shows a fit that
  is in its history, keeps its history, and comes back from a file. Hard:
  identity that follows from data that edits change.
* **Fitting thread.** No edit is overwritten, each result is shown, the form is
  not busy for ever. Hard: a slot, a flag and a copy that are set one by one.
* **HV8.** What was set is set, and what was read is what is there. Hard: late
  answers, retries and restarts, with handlers that outlive their read.

The single hazards, with line and properties, are in `PROJECT.json`.

## 2. The modules

| Module | Models | Composition |
|---|---|---|
| `SpillChannel` | what a queue promises: a sequence with put, get, close | abstract |
| `SynchronizedQueue` | the code of the queue, one step per lock, wait and notification | implements `SpillChannel` (`ChannelSpec`) |
| `Presorter` | `worker_MCA`: dequeue with the status test, merge hit by hit, eviction spill by spill; sources and `getMca` as environment | uses the queue as the channel |
| `PresorterProofs` | theorems about it | extends it and TLAPS |
| `Acquisition` | `getMca`/`getList`, `daq_start/stop/running`, run and parser threads, all queues | the same channel; the builder only takes |
| `AcquisitionProofs` | theorems about it | extends it and TLAPS |
| `ThreadRunner` | the runner thread, the GUI thread, one form | calls into the engine are `Work` |
| `ThreadRunnerProofs` | theorems about it | extends it and TLAPS |
| `Coincidence` | `Spectrum::_push_hit`, `Event`, `Pattern`, the delay | fed in the order `Presorter!TimeSorted` gives |
| `CoincidenceProofs` | theorems about it | extends it and TLAPS |
| `SpectrumTimes` | `Spectrum::_push_stats` and the updates sources send | fed by sources of its own; updates may overtake running ones |
| `Spectrum1D` | the two mutexes of `Sink`, a 1D spectrum with its attributes and file code, the GUI's dialog | builder thread and GUI |
| `QueueAndSinkProofs` | theorems about `SynchronizedQueue`, `Spectrum1D` and `SpectrumTimes` | extends the three and TLAPS |
| `Project` | `Project` and the plot thread | builder, plot and GUI thread |
| `ProjectProofs` | theorems about it | extends it and TLAPS |
| `Experiment` | the tree, its walk and the form that walks it | GUI thread, runner thread (its acquisitions and refreshes), the engine's settings and one device |
| `FitRegions` | `Fitter`, `ROI` and the edits of the form | one edit is a step; how the threads take turns is `FitterThread` |
| `FitterThread` | the fitting thread and the form that waits for it | a region edit is the number of the edit in the data |
| `FittingProofs` | theorems about `FitRegions` and `FitterThread` | extends both and TLAPS |
| `HV8` | the driver, the serial port and, as external, the supply | driver, timer, line and supply take steps on their own |
| `HV8Proofs` | theorems about it | extends it and TLAPS |

`MC...` modules give constants their values for TLC.

Names follow the code: a variable `run_status_` is the member of that name, an
action `delete_sink` is that method. Where a method can be interrupted it is
several actions. Data are abstracted: a hit is a channel and a time, a spill a
source with a number, a sink or a fit a number, a command its enumerator.
History variables (`delivered`, `pushed`, `evicted`, `received`, `owed`,
`content`, `unseen`, `trueReal`, `trueLive`, `wanted`, `gone`, ...) are read by
properties and never by guards of the code's actions, except to bound a run.

Definitions preceded by a comment "Mutant" and not used elsewhere are the code
with one mistake in it. Each property of a passing run has one that breaks it
(`PROJECT.json`, "mutants"), which shows that the run would notice. The types
of a module are the first conjunct of one of its invariants.

Choices worth knowing:

* `Presorter`: `current_spills` is a multiset ordered by address, so the order
  in which it is visited is left open. All channels of a source move together.
  A source may start when another one has sent data (`late`).
* `Acquisition`: the source kinds are a direct one without end (Simulator2D),
  a direct one that runs out (ParserRaw) and a buffered one (Pixie4), whose run
  thread may also fail at its start.
* `ThreadRunner`: `Chained` is a form that starts its next run inside
  `run_completed()`. An acquisition has a timeout or not (`limited`), as the form
  asks; it ends when it is interrupted, at its timeout, or when its sources end
  by themselves, which nothing makes them do. One without a timeout whose
  interruption was erased at its start goes on for ever, and with it a
  `terminate()` that waits for it (`erased`).
* `Coincidence`: time stamps are multiples of `Tick`, delays nanoseconds, as in
  the code; the cutoff is a choice (`low`). The delays are chosen at the start;
  they need not be whole numbers of ticks, and are rounded up where the code
  does so.
* `SpectrumTimes`: each channel counts device time at `Rate` counts per unit of
  lab time. A run may break off at any time. The builder gives a spill without
  hits to the sinks at once, so that any update but a start may overtake the
  running updates sent before it.
* `Spectrum1D`: readers are two steps, since they exclude no writer. All time
  is live there, so that `times_` is both `real_times_` and `live_times_`; dead
  time is in `SpectrumTimes`. Saving and loading are in the
  menus only when there is no run, and hold the project's mutex.
* `Project`: methods are one step, as they hold `mutex_` throughout;
  `wait_ready()` is split at the wait. A save may fail to reach the disk. When
  the thread asks for new plots the 2D plot may be visible or not.
* `Experiment`: every step of a range is 1 and no duration is 0. Calls of the
  engine are split where the other thread may come in: the settings are set,
  written, read and pulled. Projects are the settings of the device when they
  were filled. The user does not take a domain that is in the tree already; the
  domain of a node with sub-domains is not edited (the code leaves these with a
  parent that is gone, and the view of the tree looks at it).
* `FitRegions`: a spectrum of a few bins. A numerical fit finds any of the
  peaks there are, or fails; a peak has a shape, or is a sum: the bins that are
  summed and the edges its background comes from. Where a sum has its centre,
  under which the peak is kept, is a constant operator (`Centroid`). A fit and a
  load take the sums anew, cut to the region's bins; `rebuild_as_gaussian` also
  leaves the old ones in, under their old centres. Fitted peaks keep
  their centre; one that is entered twice because its centre moved is one here. The settings of a region are its own or the general ones.
* `FitterThread`: the commands other than a fit of all regions are one, `edit`.
  The signals are queued, and handled in order between the slots of the form.
  `running_` and `action_` are read and written one at a time, and a command
  stores its parameters after `action_`, which the thread reads without the
  mutex.
* `HV8`: an answer is a record, not its characters; the pauses between commands
  are left out, as any number of steps of the supply may come in between. Of
  the supply only what the driver tells apart is assumed: it prompts `->` when
  nobody is logged in, asks for the password after `L`, prompts `+>` when `HV8`
  was answered, and then takes `s`, `v` and `R`; a restart logs out and turns
  the outputs off. Whether a read without a table has enough lines to not be
  asked again is left open. A handler that is in the queue stays there at
  `cancel()`, as asio has it.

Some properties leave out a case that the code gets wrong (8). The case is then
a history variable of its own, set by the steps that bring it about, so that
those steps are in the run and everything else is still asked after them:
`late`, `chained`, `patient`, `erased`, `disturbed`, `edited`, `loaded`, `hidden`,
`skipped`, `deleted`, `failed`, `raced`, `unapplied`, `trapped`, `moved`, `unsaved`, `lost`,
`refused`, `stuck`, `unmarked`, `mistaken`, `stale`, `unsure`, `unread`, `mishap`;
or a condition on the state or the constants: `InOrder`, `WholeTicks`, `Endless`,
`Behind`, `Settled`.

## 3. What the runs show

| Run | What it shows |
|---|---|
| `queue` | Two producers, two consumers, a stopper: `NoLostWakeup`, `FrontIsDefined`; items are delivered while the queue is open and the consumers that sleep at `stop()` or come later end (`Delivered`); it implements `SpillChannel`. |
| `presort` | Two sources, any interleaving and timing: hits conserved, in order of time if no source was late; the builder ends and leaves nothing behind. |
| `acquire` | Two acquisitions in a row, `getMca` or `getList`, a direct source without end and a buffered one: no thread outlives the call, the raw queue outlives its users, the result is complete, a stop request ends the acquisition. |
| `runner` | Any user, chained runs, idle refresh: `terminate()` returns, unless its interruption was erased by the start of an acquisition without a timeout. Of a patient user, as long as no run was chained and there is no idle refresh, no accepted command is lost, and every run is reported that has a timeout or is stopped once it is on its way. |
| `coinc` | Three channels without a delay, with one of whole ticks and with one that is not: no hit lost; no event closed early, or, with the last of these delays, by no more than a tick; in order of time also none counted twice, all coincidences found. |
| `times` | Two channels that start and stop apart, several acquisitions, updates that overtake others: real and live time are true once the last update sent is the last that came in, no negative dead time. |
| `sink` | Spills, GUI edits, saves and loads: totals and choices both survive, the file holds all counts but those of the top bin. |
| `project` | Three threads: changes known, new data told and plotted, fits in place; the GUI does not hang on the plot thread. Plots that are switched off or out of sight when news come are left out. |
| `experiment` | Three domains, one of them of a device with a limit, edits, runs, stops, saves and loads, and idle refreshes: `LabelsAreTrue`, `DoneIsComplete` (nothing missed, nothing refused twice), `LeavesOwnProjects`. |
| `fit_regions` | Any four edits, loads among them: `KeysAreIds`, `ShownIsCurrent`, `HistoryIsKept`; and a file gives back the fits, with all peaks but those of a fit with an unsettled sum, and comes back the same from the second time on (`LoadGivesBack`). |
| `fitter` | Three edits, stops and a close at any time, the thread at any point of a command's calls: `NothingIsLost`, `ResultIsShown`, `BusyEnds`. |
| `hv8` | Three calls of the engine with late answers, one lost command or restart: `WantedIsSet`, `VoltagesAreTrue`, `ReadIsItsOwn`. |

Deadlock is not checked: each model has an end, because acquisitions, commands
or hits are bounded, and the queue's threads end. That nothing stops early is
stated as liveness (`Delivered`, `BuilderExits`, `StopEndsAcquisition`,
`RunIsReported`, `TerminateReturns`, `DataArePlotted`, `BusyEnds`) where threads wait for
each other.

## 4. Bounds

Every bound is a constant, `Max...`, and a conjunct of a guard. The theorems in
6 hold for every value of the constants, bounds included; the bounds below are
those of TLC's runs.

* Queue: 2 producers of 2 items, 2 consumers: two wakeups may cross, one
  consumer may take the item another was woken for.
* Presorter: 2 sources, 5 spills up to the last with data (two starts and three
  more: two data spills of one source can wait), 2 hits in all at 2 times, so
  that spills overlap, tie and are empty. The merge compares pairs, and a third
  source adds no new comparison.
* Acquisition: 2 sources, a direct one without end and a buffered one that runs
  out, 1 data spill and 2 runs, so that statuses and queues of the first run
  are there for the second. A second direct source (ParserRaw) takes the same
  steps as the first but for its end.
* Runner: 2 commands: one that runs and one that comes at any point of it, or
  of the refresh that follows.
* Coincidence: 4 hits, a window of one tick and times up to 6 ticks: an event,
  its neighbour, pile-up, one that opens late and one that evicts them. The
  delays are none, a tick and a half, and two ticks, twice the window.
* SpectrumTimes: 6 updates are two acquisitions of one channel, or one each of
  both, with running updates enough for one to overtake another; time passes
  twice.
* Spectrum1D: 4 bins and 3 hits make runs of zeros before, between and after
  counts; 2 spills.
* Project: 2 sinks and 1 spill; an index is used again with the second sink.
* Experiment: 5 acts of the user or idle refreshes (a run is one start, however
  long): two domains laid out, started, stopped, and saved, loaded or edited
  between. Ranges of 1 to 3 values, the first beyond the device's limit.
* FitRegions: 9 bins, so that regions have background samples or are too narrow
  for them, meet, and grow into each other; 4 edits: two regions, one changed
  twice, or a region with a sum that is saved, loaded and edited. One shape: what
  tells fits apart is which peaks they have. The centre of a sum is its first or
  last bin, by its edges, so that cutting it or moving an edge moves the peak.
* FitterThread: 2 regions (a stop before, between and after) and 3 edits (one
  in hand, one that comes too early, one after).
* HV8: 2 channels, 2 attempts (a first and a repeated one), 3 calls (boot and
  two more), 1 mishap, 2 reads whose time runs out although an answer is due: a
  late answer for the retry, and one for the call after it. Reads of which
  nothing is due run out without bound.

## 5. Fairness

* `SynchronizedQueue`: a thread in a method goes on (weak fairness), and one
  that wants the mutex gets it in the end (strong fairness, as the mutex is
  free now and then). Producers need not enqueue, and nothing makes a stopper
  stop. A consumer's next `dequeue()` is fair as the loops of the worker
  threads call it at once.
* `Presorter`, `Acquisition`: every thread runs on, with weak fairness of the
  whole thread. New data are not fair: a source may be quiet. A user's stop is
  not fair either: `StopEndsAcquisition` is conditional on it.
* `ThreadRunner`: the runner thread, and the event loop that handles its
  signals and finishes `terminate()`. What the user does is not fair, and
  neither is the end of an acquisition that has no timeout and is not interrupted
  (`SourcesEnd`).
* `Project`: the plot thread, and the GUI's handling of `plot_ready` and the
  `activate()` that follows an edit.
* `FitterThread`: the fitting thread, the event loop of the form, and the form
  between the calls of a command and the two stores of the second. The user need
  do nothing.
* Modules without a liveness property state none.

## 6. Proofs

All theorems are checked by TLAPS. Modules that one proof module extends have
no name in common, hence `RegionsSpec`, `SinkSpec`, `TimesSpec`.

`QueueAndSinkProofs` is about the spill queue and the sink at its other end. Of
`SynchronizedQueue`, for all finite sets of consumers, all sets of producers and stoppers and any number of items:

* `TypeCorrect`, `FrontIsSafe`, `WakeupsSuffice`: `Spec => []TypeOK`,
  `[]FrontIsDefined`, `[]NoLostWakeup`.
* `ImplementsChannel`: `Spec => ChannelSpec`.

The only assumption is `QueueAssumption`: the roles are disjoint, consumers are
finitely many, `None` is no thread.

The argument. `NoLostWakeup` alone (items and an open queue mean that not all
consumers sleep) is not inductive: a consumer that is awake may be on its way
to sleep. What holds is that the number of items is at most the number of
*active* consumers, those awake with a promise to look again, whenever some
consumer sleeps. The induction needs to know who holds the mutex and where
(`LockInv`), that a producer in the middle of `enqueue()` has the lock
(`PushInv`), that sleepers are where they should be (`WaitInv`), and that
between the test of the queue and the wait the queue stays empty (`ParkInv`).
`QueueInv` is their conjunction; `TypeStep`, `ControlStep` and `WakeupStep`
prove it inductive, one action at a time. `FrontIsDefined` is the part that the
`while` around the wait is for. `ChannelStep` maps each step to a step of the
channel: the push is `Put`, the take is `Get`, the write of `end_queue_` is
`Close`, all others stutter.

The `queue` run checks the same statements on a small instance.

Of `Spectrum1D`, for any number of bins, spills and hits: `SinkInvariance`,
`TotalsStay` (`SinkSpec => []UneditedTotalsAreShown`), `ChoiceStays`
(`[]ChoiceIsKept`) and `CountsAreInFile` (`SinkSpec => FileHoldsCounts`).
`SpectrumAssumption` is about types only.

The argument has two parts. The first is about the two threads: a push has the
mutex from its first hit to its last attribute (`MutexInv`), the totals are set
one by one on the way and agree after it (`TotalsInv`), and what the user chose is
in the attributes, or in the hand of the GUI thread until the push unlocks
(`ChoiceInv`); `CountInv` bounds the counts. The second is about the
file. The writer holds zeros back until a count follows; at each bin, the tokens
so far, laid end to end with the zeros held back, reach up to that bin, and each
count stands where its bin is (`Laid`, `Lays`). The reader finds the place of a
token by adding the widths before it, so that it puts each count back in its
bin, and its `maxchan_` is not above the one that was written. As a load
takes its spectrum from a file, the invariant says of the file that it was
written from some spectrum (`DataInv`).

Of `SpectrumTimes`, for any set of channels, any rate of the device clock and any
number of acquisitions and updates: `TimesInvariance` and `TimesStayTrue`
(`TimesSpec => []TimesAreTrue`). `TimesAssumption` says that there is a channel and
that the rate is positive.

The argument. `TimesAreTrue` speaks of a channel whose updates are all in; the
invariant speaks of every moment. Every update, in the list and still to come,
fits the start of its run: native time is `Rate` times the lab time since, live
time a multiple of `Rate` and no more than native time (`SumIs`, `Coming`, and
`Counting` for the source). That makes the scaling of an interval exact (`ScaledIs`), although
the code divides integers. A running update is taken off the list again by the
next one, so that the invariant knows what the list adds up to and also what it
adds up to without its last one (`Kept`). What was on in truth is what the runs
before add up to, and the last update sent less the start of its run, for
channels that were not disturbed (`Agrees`). A running update that was overtaken
sets the list back to where it was when it was sent (`Behind`); this is mended by
the next update, unless a start comes first, which disturbs the channel as a run
that broke off before it reported does. `ShownInv` ties the times and the
attributes to the lists.

Both rest on recursion up to a number. The library's induction takes an
operator, which no prover here can instantiate; but of a *set* of numbers it
can be said that the least one outside does not exist (`UpTo`), and with it that
a function defined step by step exists (`StepsExist`). The sums of the code are
loops, and are written as such functions.

`FittingProofs` extends two modules. Of `FitterThread`, for any number of regions (`Parts`) and edits
(`MaxEdits`): `TypeCorrect`, `Invariance`, `NoEditIsLost`
(`Spec => []NothingIsLost`) and `ResultsAreShown` (`Spec => []ResultIsShown`).
The assumption is that both constants are naturals, one region at least.

The argument. What a slot will do depends on signals that are still queued, and
these on a copy the thread took earlier, so neither property is inductive. `Inv`
says, as long as none of the four mishaps occurred, what the form waits for and
has (`FormInv`), that a command in the slot is the one waited for, its data are
the form's, and its parameters too once they are stored (`SlotInv`; `Handed` and
`Stored` say how far the form has come), what the thread has of it at each place of `run()`
(`WorkInv`), and what the queue of signals holds: each result has all edits of
the form, a later one contains the earlier ones, the end of the fit comes last,
and by then what the form asked for has been delivered or has failed (`InboxInv`).
`InvNext` proves it step by step, `Sending` and `Queues` are the facts about the
sequence of signals. The mishaps only ever become true, so that the steps that
set them need no further proof. An edit that the thread began between the two
stores of its command (`mistaken`) is no such mishap: the invariant goes on
holding after it, and only what concerns the result itself is left out.

Of `FitRegions`, for any number of bins, background samples, shapes and edits,
and any ranges: `Inductive`, `FoundUnderID` (`RegionsSpec => []KeysAreIds`),
`CurrentFitShown` (`[]ShownIsCurrent`), `ProjectGivesBack` (`[]LoadGivesBack`)
and `NoFitIsLost` (`RegionsSpec => HistoryIsKept`). `FitAssumption` says that the
finder's ranges do not overlap, that ranges are in the spectrum, that a sum
is no shape and that sums have their centres in the spectrum.

The argument. `IInv` holds of each region alone: it is well typed, its current
fit is in its history, it shows that fit or has said that it does not (`Good`),
and it stands under its left bin or has said that it was moved (`Placed`).
Every edit of a region is made of few steps, and of each it is shown what it
does to the region and to its history (`Kept`, `InPlace`, `Redrawn`); then of
each operation what it does to the map: which regions stay, which key is
overwritten, which regions are merged (`Holds`, and with it that histories are
kept). `LoadGivesBack` is about one state, of which it needs that each peak is
under the centre of its sum and that the fit shown is in the history. Reading
cuts a sum to the bins below the right background and moves the peak to the
centre the sum then has: `ReadFitIs` says that nothing changes if the sums are
settled, and `ResummedTwice`, that a sum once cut is not cut again, even when two
sums fall on one centre, so that a second load changes no fit (`RereadTwice`) and
no map of regions (`LoadedTwice`). The region loaded last under a key is the one
with the largest key that begins there (`LargestIs`, by well-founded induction
on the naturals).

`AcquisitionProofs`, for any sets of direct and buffered sources, any of them
endless, any number of runs and of spills: `TypeCorrect`, `CallOutlivesThreads`
(`Spec => []NoThreadOutlivesCall`), `RawQueueIsThere`
(`[]RawQueueOutlivesThreads`) and `ResultIsComplete` (`[]ResultComplete`). The
assumption is `AcquisitionAssumption`: a source is direct or buffered and not the
engine, and the bounds are naturals.

The argument has two layers. `ControlInv`: a source has a run thread exactly
from its start until `daq_stop()` has joined it, and likewise a parser thread
and a raw queue (`ThreadInv`, with `CallInv` for where a `daq_stop()` is);
`PhaseInv` says how far the loops over the sources have come, so that all are
idle when the call goes on to its end. `DataInv`, on top of it: what a source
has made is what has come to the engine's queue, plus the spill in the parser's
hand, plus the raw queue, in this order and without a gap (`RawInv`, `InTurn`),
between the two spills of the engine (`StreamInv`). A put moves the border
between two places and a take moves it back; the lemmas on sequences say so.

`PresorterProofs`, for any set of sources, any number of spills, hits and
times: `TypeCorrect`, `Invariance`, `HitsAreConserved`
(`Spec => []HitsConserved`), `HitsAreSorted` (`[]TimeSorted`) and `NothingIsLeft`
(`[]NothingLeftBehind`). The assumption is `PresorterAssumption`: the engine is
no source, and the bounds are naturals.

The argument. `TimeSorted` is about what was given to the project; it holds
because the merge takes a hit only when every source that could still send an
earlier one has a spill in the backlog. The invariant therefore follows the
hits through all the places they can be in: a source's hits are in order across
sinks, output, backlog and queue (`OrderInv`), each was merged once (`OnceInv`)
and each that a source enqueued is somewhere (`CoverInv`), spills come out of the
queue in their source's turn and are somewhere too (`SpillInv`), a source that
has not been heard of still has its start in the queue, before all hits,
unless one started late (`StartInv`), and no hit that is still to come is
earlier than one that was merged (`TimeInv`). `ControlInv` is the state of the
builder's loop.

`ThreadRunnerProofs`, for any number of commands: `Invariance` and
`AcceptedStays` (`Spec => []UnchainedIsKept`). `Inv` holds as long as the user is
patient, no run was chained and there is no idle refresh (`Calm`): a command is
asked for only while no other one waits, runs or has signals to be handled
(`AskInv`), what was accepted is in the slot until the thread takes it, and the
end of the command before does not find it there (`OwedInv`), and the settings
that free the form are the last signal, behind the end of the run
(`SignalInv`). `Calm` is only ever lost, so the steps that end it need no
further proof. `RunnerAssumption` is about types only.

`ProjectProofs`, for any number of sinks and spills: `Invariance`,
`ChangesKnown` (`Spec => []ChangesAreKnown`), `NewDataTold` (`[]NewDataIsTold`) and
`FitsOfTheirSinks` (`[]FitsAreOfTheirSinks`). The properties are not inductive, as
a load brings back what an earlier save wrote. The invariant adds what a save
writes of the sinks and of those fits that have one, and that a project
without sinks has no data (`ContentInv`), the same of what the file holds
(`FileInv`), and that, here and in the file, no fit is left under an index
without a sink, where the next sink would get it (`FitsInv`). `ProjectAssumption`
is about types only.

`CoincidenceProofs`, for any finite set of channels, any delays, patterns,
window, tick, number and times of hits: `Invariance`, `HitsAreAccounted`
(`Spec => []HitsAccounted`), `OrderedHitsDoMeet` (`[]OrderedHitsMeet`) and
`EvictedAreComplete` (`Spec => EvictedIsComplete`). `CoincidenceAssumption` is
about types only: delays need not be whole numbers of ticks.

The argument. A hit changes the list of all events, evicted ones first, in a
simple way, whatever the loops did: some events of the backlog take it, at most
one new event comes behind, and the border between evicted and open moves
(`After`, `HitsAfter`). The inductive invariant says where each hit is
(`HitInv`), how many events there can be (`CountInv`), that the clock has passed
the window of every evicted event (`EvictInv`: the longest delay, part of
`max_delay_`, makes up for the delay of the hit that evicts, but for less than
a tick if that one was rounded), and, without
delays, that one event is open at most and that it was opened by the first hit
too late for the one before (`OrderInv`). `Rounded` is the arithmetic of whole
ticks; `PrefixIs` says that what `Due` counts is the front of the list.

`HV8Proofs`, for any channels and voltages, any number of attempts, calls,
timeouts and mishaps: `Invariance`, `ReadsAreOwn` (`Spec => []ReadIsItsOwn`),
`WantedVoltageIsSet` (`[]WantedIsSet`) and `ReadVoltagesAreTrue`
(`[]VoltagesAreTrue`). `HV8Assumption` says that 0 is no channel,
that 0 is a voltage, and that there is at least one attempt.

The argument. What the supply is set to is known to the driver only through
commands on their way there and answers on their way back, so that none of the
properties is inductive. `PortInv` is about the port: as long as no read left a
handler behind, the handlers in the queue belong to the read in progress, and a
read that is completed has found its delimiter in the queue of characters
(`Single`). The rest holds until a mishap. There is a course, the states the
supply will go through as it takes the commands on the line (`Course`); at its
end the voltages are those wanted and those read, but for channels whose
setting is in progress or was not sent (`SetInv`), and a table that answers a
question of this call shows the voltages of that end, wherever it is: still to
be asked for, on the line, or in the port (`TableInv`, `Fresh`). Once a prompt of
a supply that is logged in has come, it is logged in from there on (`ModeInv`),
which is why a command that is sent then is carried out. Commands are put at the
end of the course (`CourseLonger`), the supply takes them off its front
(`CourseShorter`); `IInv` is proved inductive an action at a time, for the port
and for the supply apart.

## 7. Only model-checked

* Liveness: `Delivered`, `StopEndsAcquisition`, `BuilderExits`, `RunIsReported`,
  both `TerminateReturns`, `DataArePlotted`, `BusyEnds`. Fairness and ENABLED are
  beyond the prover.
* All of `experiment`: its tree is read and walked by recursive operators, which
  the prover does not take, and what they return for every tree needs induction
  over trees.
* That the constants of a run satisfy the assumptions is evaluated by TLC on
  every run.

## 8. Where the code falls short

They are the cases that properties leave out; dropping the variable named from
the property gives the counterexample.

* engine/synchronized_queue.h:58, the second conjunct of `Delivered`: `stop()`
  takes no lock. A consumer that has tested `end_queue_` and does not wait yet
  misses the notification and sleeps on.
* gui/thread_runner.cpp:244, `chained` in `UnchainedIsKept`: the next pass of an
  experiment, asked for inside `run_completed()`, is overwritten by the refresh
  (without the variable the property is `AcceptedIsKept`).
* sinks/spectrum.cpp:265, `InOrder` in `OrderedHitsMeet`: with a delay, the
  event opened for a hit takes no hit that came earlier and is in its window
  (`CoincidentHitsMeet`).
* gui/daq/form_plot1d.cpp:277, `edited` in `UneditedTotalsAreShown`: a dialog
  writes back totals of the time it was opened (`TotalsAreShown`).
* engine/engine.cpp:256, `late` in `TimeSorted`: a source that starts late
  sends hits older than what the sinks were given.
* gui/thread_runner.cpp:321, `idle_refresh_` in `AcceptedIsKept`: the idle
  refresh overwrites a command stored since `action_` was tested.
* gui/thread_runner.cpp:74, `patient`: `running_` is not set between the first
  and the second test of `action_`, nor for the refresh that a run asks for
  before it starts; a second command is accepted then, and overwritten.
* gui/thread_runner.cpp:242, `erased` in `TerminateReturns`, `Endless` in
  `RunIsReported`: a stop pressed before the acquisition is dispatched is erased,
  and so is the store of `terminate()`. Without a timeout the acquisition then
  goes on, and `wait()` hangs the GUI.
* engine/time_stamp.h:107, `WholeTicks` in `EvictedIsComplete`: a delay is rounded
  up to whole ticks, `max_delay_` (sinks/spectrum.cpp:205) is not: an event may
  leave before hits that fall into the last tick of its window.
* sinks/spectrum.cpp:270: with a delay a hit may be in the windows of two
  events (`InOrder` in `HitsAccounted`).
* sinks/spectrum.cpp:406, `Flush`: the events in the backlog at the end of an
  acquisition are not counted.
* sinks/spectrum.cpp:350, `disturbed` in `TimesAreTrue`: a start after a
  start counts an interval twice (`BreakOff`).
* engine/engine.cpp:600, `Behind` in `TimesAreTrue`: spills without hits overtake
  those with hits; a running update that comes in after one sent later takes
  its place at the end of the list, and sets real and live time back.
* gui/daq/form_mca_daq.cpp:279, `skipped` in `DataArePlotted`: data that come
  while the 2D plot is switched off, or the form is behind another tab, are
  not plotted until something else tells the plot thread.
* engine/project.cpp:238, `hidden` in `NewDataIsTold`: deleting a sink, or
  adding an empty one, hides the new data of the others.
* engine/project.cpp:235, `deleted` in `FitsAreOfTheirSinks`: a fit passes to
  the next sink with its index.
* engine/project.cpp:308, `failed` in `ChangesAreKnown`: a save that fails
  counts as one.
* sinks/spectrum1D.cpp:258, `maxchan_` in `FileHoldsCounts`: the highest bin is
  not saved.
* engine/daq_sink.cpp:474, `loaded`: a run into a loaded project restarts its
  totals.
* engine/daq_sink.cpp:392, `copy`: readers do not exclude writers, and a copy
  of the metadata may hold half of a spill.
* engine/domain.cpp:399, `trapped` in `DoneIsComplete`: a value refused in a
  domain with sub-domains lowers the maximum of the point before it, which is
  then not taken for a point; `get_next_point()` tries the same value again and
  calls itself without end (form_experiment.cpp:316). After the user has
  deleted the sub-domain, the point is copied as one, with the projects below.
* gui/daq/form_experiment.cpp:541, `unapplied` in `LabelsAreTrue`: after a load
  there are no results, and what is above the next point is not set again.
* gui/daq/form_experiment.cpp:354, `raced`: a refresh of the runner thread may
  come between setting a value and reading it back.
* gui/daq/form_experiment_setup.cpp:178, `edited`: after points were deleted the
  walk may go on below a point that is not set.
* gui/daq/form_experiment.cpp:302: a run that is refused is waited for.
* engine/experiment.cpp:58: a load keeps old projects and results.
* engine/fitting/roi.cpp:409 and 840, `moved` in `KeysAreIds`: a peak added to
  the left of a region, or a rollback, changes its left bin but not its key;
  the form's edits of its edges are then turned away, and a merge leaves it.
* engine/fitting/fitter.cpp:305, `lost` in `HistoryIsKept`: an edge moved to
  where a neighbour begins overwrites the neighbour.
* engine/fitting/roi.cpp:148 and 454, `unsaved` in `ShownIsCurrent`: a fit that
  fails leaves peaks removed and not in the history; of a deletion it is
  reported that nothing was deleted, and the form then keeps the peaks.
* engine/fitting/finder.cpp:95: the last bin of a range is not copied. Each
  adjusted edge, rollback and load makes a region narrower by a bin, and one of
  a single bin is not loaded (`LoadGivesBack`).
* engine/fitting/roi.cpp:933, `Settled` in `LoadGivesBack`: a fit is read onto the
  bins up to the beginning of its right background, and the sums are taken anew
  there: one that reached further, or was last taken when the edges were others,
  comes back with other bins and edges, and under another centre; of two that
  then share a centre one is lost.
* engine/fitting/roi.cpp:595: a fit of Gaussians leaves sums that have moved in
  the region, under their old centres, besides the new ones.
* engine/fitting/roi.cpp:872: every fit is written with the present settings.
* engine/fitting/roi.cpp:233: the branch said never to happen is reached from
  `add_peak()`.
* gui/fitter/thread_fitter.cpp:173, `stuck` in `BusyEnds`: a stop pressed when
  the thread sleeps, or has ended the command, stays in the slot; the command
  is lost and the form is busy for ever.
* gui/fitter/thread_fitter.cpp:60, `refused`: a command right after
  `fitting_done()`, when `running_` is still set, is refused and waited for; if
  only the data are refused it works on old ones.
* gui/fitter/thread_fitter.cpp:180, `unmarked`: a command between the two looks
  at `action_` runs without `running_`, and a second one is then accepted.
* gui/fitter/thread_fitter.cpp:78, `mistaken` in `ResultIsShown`: `action_` is
  stored before `target_`, `LL`, `RR`, `settings_` or `chosen_peaks_`, and `run()`
  reads them without the mutex: an edit may be made to the region, or with the
  range or the peaks, of an earlier one.
* gui/fitter/form_fitter.cpp:477, `raced` in `NothingIsLost`: edits that do not
  look at `busy_` are overwritten by the result.
* sources/HV8/TimeoutSerial.cpp:183 and 173, `stale` in `ReadIsItsOwn`: a handler
  that was queued before `cancel()` ends the next read, or completes it with
  what may not be there.
* sources/HV8/hv8.cpp:368, `unread` in `VoltagesAreTrue`: a late table of an
  earlier call is taken for the answer to this one.
* sources/HV8/hv8.cpp:152, `unsure` in `WantedIsSet`: a voltage equal to the one
  last read is not sent although another one was set since; and a setting that
  is given up is given up in silence.
* sources/HV8/hv8.cpp:192, `mishap`: if the supply restarts during a call the
  driver logs in again and counts a rejected command as a success.
* sources/HV8/hv8.cpp:148: `HV8/ResponseAttemps` is written where
  `HV8/ResponseAttempts` is read.

## 9. Not modelled

* Engine's profiles, settings and optimization, and the settings tree: walks
  over trees that the devices own; modules take the settings they need.
* The parsing of Pixie4 buffers and EVT files, and the other sinks: arithmetic
  on bits and bins, on top of what is modelled.
* The VME modules: registers read and written one at a time.
* The growth of the builder's backlog when one source is slow
  (engine/engine.cpp:538), and the left margin of a region, which is subtracted
  without a test (engine/fitting/fitter.cpp, `find_regions`).
* Numbers: calibration, fitting, peak finding, histogram statistics.
* Display, command line, factories, logging, and vendored code.
* Time stamps that restart after a reboot (`Coincidence` has one clock).
* Bad files: `Project` loads what it saved.

`PROJECT.json`, "components", has the list with reasons.

## 10. Plan

Done, in this order: the queue with its proofs, `Presorter`, `Acquisition`,
`ThreadRunner`, `Coincidence`, `Project`, `SpectrumTimes`, `Spectrum1D`,
`Experiment`, `FitRegions`, `FitterThread` with its proofs, `HV8`, then the proofs
of `Acquisition`, `Project`, `ThreadRunner`, `Presorter`, `Coincidence`,
`FitRegions`, `HV8`, `Spectrum1D` and `SpectrumTimes`. Every property of a run that
is no liveness property is a theorem now, but for those of `Experiment`.

What could follow: `Engine` (the mutex, with all calls that forms make from the
GUI thread), the settings tree, Pixie4's and EVT's parsing of buffers, the 2D
code and the loss-free counting sink, a reboot in `Coincidence`.

Abstract specifications worth stating: a builder that delivers a sorted
permutation of its input, implemented by `Presorter`; a coincidence counter
that sees all hits at once, implemented by `Coincidence` without delays.

Next theorems: `Experiment`'s `LeavesOwnProjects`, for which the tree would have to
be a function on paths instead of nested sequences.
