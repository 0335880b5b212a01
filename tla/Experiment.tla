----------------------------- MODULE Experiment -----------------------------
(***************************************************************************)
(* engine/experiment.cpp and engine/domain.cpp with the form that walks    *)
(* the experiment, gui/daq/form_experiment.cpp.  The user lays out a tree  *)
(* of domains (settings with a range); the experiment steps through it,    *)
(* sets each value, records in the tree what the device made of it, and    *)
(* makes an acquisition at each leaf.                                      *)
(*                                                                         *)
(* Two threads use the settings of the engine, which nothing guards: the   *)
(* GUI thread, from apply_setting(), and the runner thread, which reads    *)
(* all settings when an acquisition has ended and when it is idle.         *)
(*                                                                         *)
(* A value is a number, the step of every range is 1, and every duration   *)
(* is positive.  The sub-tree of a node is a sequence, kids, as in the     *)
(* code; a path is the sequence of positions that leads to a node.         *)
(***************************************************************************)
EXTENDS Integers, SequencesExt, FiniteSetsExt

CONSTANTS Domains,     \* the settings that can be varied
          DomainKind,  \* "source", "sink" or "manual"
          Minimum, Maximum, \* the range of each
          Limit,       \* the highest value the device accepts
          MaxActs,     \* bound: what the user does, and idle refreshes
          None         \* no domain, no value, no file

ASSUME ExperimentAssumption ==
  /\ None \notin Domains
  /\ \A d \in Domains : /\ DomainKind[d] \in {"source", "sink", "manual"}
                        /\ Minimum[d] \in Nat /\ Maximum[d] \in Nat /\ Limit[d] \in Nat
                        /\ Minimum[d] <= Limit[d] /\ Minimum[d] <= Maximum[d]

VARIABLES root_trajectory, data, next_idx, results_, \* the experiment
          continue_, my_run_,   \* the form
          io,                   \* its controls are enabled
          gui,                  \* where its thread is
          work,                 \* the nodes it is to apply, with their paths
          resuming,             \* it is in apply_all_recursive()
          runner,               \* where the runner thread is
          completed, updated,   \* its signals, emitted and not handled
          settings_tree_,       \* the settings as the engine has them
          device,               \* and as the device has them
          reading,              \* what the runner thread has read
          file, acts,
          refused,     \* the point that was refused last in this search
          raced,       \* the runner thread wrote settings while the GUI applied one
          edited,      \* the user has changed a tree that had points
          unapplied,   \* started without applying the points above the next
          trapped      \* a point was refused in a domain that has sub-domains

experimentVars == <<root_trajectory, data, next_idx, results_>>
formVars == <<continue_, my_run_, io, gui, work, resuming>>
engineVars == <<runner, completed, updated, settings_tree_, device, reading>>
userVars == <<file, acts, edited, unapplied>>
vars == <<experimentVars, formVars, engineVars, userVars, refused, raced, trapped>>

Sources == {d \in Domains : DomainKind[d] = "source"}
Accepted(d, v) == IF v > Limit[d] THEN Limit[d] ELSE v

Template(d) == [dom |-> d, val |-> -1, max |-> -1, idx |-> -1, kids |-> <<>>]
Root == Template(None)

\* The node at a path, and the tree with a node put there or taken away
RECURSIVE At(_, _), Put(_, _, _), Without(_, _), Paths(_)
At(n, p) == IF p = <<>> THEN n ELSE At(n.kids[Head(p)], Tail(p))

Put(n, p, m) ==
  CASE p = <<>> -> m
    [] Head(p) = Len(n.kids) + 1 -> [n EXCEPT !.kids = Append(@, m)]
    [] OTHER -> [n EXCEPT !.kids[Head(p)] = Put(@, Tail(p), m)]

Without(n, p) == IF Len(p) = 1 THEN [n EXCEPT !.kids = RemoveAt(@, Head(p))]
                 ELSE [n EXCEPT !.kids[Head(p)] = Without(@, Tail(p))]

Paths(n) == {<<>>} \cup UNION {{<<i>> \o p : p \in Paths(n.kids[i])} : i \in DOMAIN n.kids}

Above(p) == {SubSeq(p, 1, k) : k \in 1 .. Len(p)}
Leaves == {p \in Paths(root_trajectory) : At(root_trajectory, p).idx >= 0}
Points(p) == {q \in Above(p) : At(root_trajectory, q).val >= 0}

-----------------------------------------------------------------------------
(* TrajectoryNode *)

has_subdomains(n) == \E i \in DOMAIN n.kids : n.kids[i].dom # None

\* The range is compared with its maximum, which push_next_setting() changes.
\* Nothing but a point has a range.
is_datapoint(n, b) == n.dom = None \/ (b.val >= 0 /\ b.max = Maximum[n.dom])

\* <<>>, or the first of what f gives for the members of S, in their order
FirstOf(S, f(_)) == LET all == [i \in S |-> f(i)]
                        some == {i \in S : all[i] # <<>>}
                    IN  IF some = {} THEN <<>> ELSE all[Min(some)]

\* The point that comes next below n, with its path: << >> when there is none.
RECURSIVE next_setting(_)
next_setting(n) ==
  LET below(i) == LET next == next_setting(n.kids[i])
                  IN  [k \in DOMAIN next |-> [next[k] EXCEPT !.path = <<i>> \o @]]
      new(b, v) == << [path |-> <<Len(n.kids) + 1>>,
                       node |-> [b EXCEPT !.val = v, !.max = Maximum[n.dom]]] >>
      after(b, last) == IF last.val < last.max THEN new(b, last.val + 1) ELSE <<>>
      subdomain(s) ==
        LET points == {i \in DOMAIN n.kids : /\ is_datapoint(n, n.kids[i])
                                             /\ n.kids[i].dom = n.kids[s].dom}
            deeper == FirstOf(points, below)
        IN  CASE points = {} -> new(n.kids[s], Minimum[n.dom])
              [] deeper # <<>> -> deeper
              [] OTHER -> after(n.kids[s], n.kids[Max(points)])
      subdomains == IF has_subdomains(n)
                    THEN {i \in DOMAIN n.kids : ~is_datapoint(n, n.kids[i])} ELSE {}
      deeper == FirstOf(subdomains, subdomain)
  IN  CASE n.dom = None -> FirstOf(DOMAIN n.kids, below)
        [] deeper # <<>> -> deeper
        [] n.kids = <<>> -> new(Template(None), Minimum[n.dom])
        [] OTHER -> IF is_datapoint(n, Last(n.kids))
                    THEN after(Template(None), Last(n.kids)) ELSE <<>>

done == next_setting(root_trajectory) = <<>>

(* ExperimentProject *)

NeverResults == FALSE
has_results == results_ # {}

IndexFromOne(idx) == 1
IndexAfter(idx) == IF idx = {} THEN 1 ELSE Max(idx) + 1

HitsLimitEarly(prev, node) == prev.val >= 0 /\ prev.val + 1 >= node.val
HitsLimit(prev, node) == prev.val >= node.val

Lowered(b) == [b EXCEPT !.max = b.val]

-----------------------------------------------------------------------------
Init == /\ root_trajectory = Root /\ data = <<>> /\ next_idx = 1 /\ results_ = {}
        /\ continue_ = FALSE /\ my_run_ = FALSE /\ io = TRUE
        /\ gui = "idle" /\ work = <<>> /\ resuming = FALSE
        /\ runner = "idle" /\ completed = FALSE /\ updated = FALSE
        /\ settings_tree_ = [d \in Sources |-> Minimum[d]]
        /\ device = settings_tree_ /\ reading = settings_tree_
        /\ file = None /\ acts = 0
        /\ refused = <<>> /\ raced = FALSE /\ edited = FALSE /\ unapplied = FALSE /\ trapped = FALSE

-----------------------------------------------------------------------------
(* The user edits the experiment: form_experiment_setup.cpp.               *)

\* What was emitted is handled before the user's next click.
UserActs == gui = "idle" /\ ~completed /\ ~updated
Acts == acts < MaxActs /\ acts' = acts + 1
Enabled == UserActs /\ io /\ ~my_run_ /\ Acts

Edit(tree) == /\ root_trajectory' = tree
              /\ edited' = (edited \/ \E p \in Paths(root_trajectory) : Points(p) # {})
              /\ UNCHANGED <<next_idx, formVars, engineVars, file, unapplied,
                             refused, raced, trapped>>

\* The dialog offers every domain; one that is in the tree is not taken again.
Unused(d) == \A q \in Paths(root_trajectory) : At(root_trajectory, q).dom # d

AddSubdomain(p, d) == /\ Enabled /\ ~has_results
                      /\ LET n == At(root_trajectory, p) IN
                           /\ n.idx < 0 /\ Unused(d)
                           /\ Edit(Put(root_trajectory, p \o <<Len(n.kids) + 1>>, Template(d)))
                      /\ UNCHANGED <<data, results_>>

\* Of a domain without sub-domains: others are left with a parent that is
\* gone, which the view of the tree does not survive.
EditDomain(p, d) == /\ Enabled /\ ~has_results
                    /\ LET n == At(root_trajectory, p) IN
                         /\ n.dom # None /\ n.val < 0 /\ n.kids = <<>> /\ Unused(d)
                         /\ Edit(Put(root_trajectory, p, Template(d)))
                    /\ UNCHANGED <<data, results_>>

DeleteDomain(p) == /\ Enabled /\ p # <<>>
                   /\ Edit(Without(root_trajectory, p))
                   /\ LET i == At(root_trajectory, p).idx IN
                        /\ data' = [j \in DOMAIN data \ {i} |-> data[j]]
                        /\ results_' = results_ \ {i}

\* Another form changes a setting, through the runner thread.
ChangeDevice(d, v) == /\ UserActs /\ io /\ runner = "idle" /\ Acts
                      /\ device' = [device EXCEPT ![d] = Accepted(d, v)]
                      /\ settings_tree_' = device'
                      /\ UNCHANGED <<experimentVars, formVars, runner, completed, updated,
                                     reading, file, edited, unapplied, refused, raced, trapped>>

\* to_xml(): the tree, and the indices of the projects, but not what is in them
SaveExperiment == /\ Enabled
                  /\ file' = [root |-> root_trajectory, idx |-> DOMAIN data]
                  /\ UNCHANGED <<experimentVars, formVars, engineVars, edited,
                                 unapplied, refused, raced, trapped>>

\* from_xml() into the experiment as it is: projects of other indices stay
LoadExperiment == /\ Enabled /\ file # None
                  /\ root_trajectory' = file.root
                  /\ data' = [i \in DOMAIN data \cup file.idx |->
                                IF i \in file.idx THEN <<>> ELSE data[i]]
                  /\ next_idx' = IndexAfter(file.idx)
                  /\ UNCHANGED <<results_, formVars, engineVars, file, edited, unapplied,
                                 refused, raced, trapped>>

NewExperiment == /\ Enabled /\ root_trajectory # Root
                 /\ root_trajectory' = Root /\ data' = <<>> /\ next_idx' = 1 /\ results_' = {}
                 /\ UNCHANGED <<formVars, engineVars, file, edited, unapplied, refused, raced, trapped>>

-----------------------------------------------------------------------------
(* The GUI thread walks the experiment.                                    *)

\* apply_all_recursive() first sets the next point and all above it, and
\* forgets the point: start_new_pass() asks for it again.
PushStart == /\ Enabled /\ ~done
             /\ LET next == next_setting(root_trajectory)[1]
                    points == Points(Front(next.path))
                IN  /\ resuming' = has_results
                    /\ work' = IF resuming'
                               THEN [k \in 1 .. Cardinality(points) |->
                                       LET p == SubSeq(next.path, 1, Len(next.path)
                                                                      - Cardinality(points) - 1 + k)
                                       IN  [path |-> p, node |-> At(root_trajectory, p)]]
                                    \o <<next>>
                               ELSE <<>>
                    /\ gui' = IF resuming' THEN "apply" ELSE "next"
                    /\ continue_' = IF resuming' THEN continue_ ELSE TRUE
                    /\ unapplied' = (unapplied \/ (results_ = {} /\ points # {}))
                    /\ refused' = <<>>
             /\ UNCHANGED <<experimentVars, my_run_, io, engineVars, file, edited,
                            raced, trapped>>

PushStop == /\ UserActs /\ my_run_
            /\ continue_' = FALSE
            /\ UNCHANGED <<experimentVars, my_run_, io, gui, work, resuming, engineVars, userVars,
                           refused, raced, trapped>>

\* start_new_pass(), get_next_point()
GetNextPoint == /\ gui = "next"
                /\ work' = next_setting(root_trajectory)
                /\ gui' = IF done THEN "idle" ELSE "apply"
                /\ UNCHANGED <<experimentVars, continue_, my_run_, io, resuming, engineVars,
                               userVars, refused, raced, trapped>>

\* ExperimentProject::push_next_setting()
push_next_setting(p, node) ==
  LET parent == At(root_trajectory, Front(p))
      prev == Len(parent.kids)
      limited == prev > 0 /\ HitsLimit(parent.kids[prev], node)
      leaf == node.kids = <<>> /\ node.dom = None
  IN  CASE limited ->
             /\ root_trajectory' = Put(root_trajectory, Front(p) \o <<prev>>,
                                       Lowered(parent.kids[prev]))
             /\ trapped' = (trapped \/ has_subdomains(parent))
             /\ refused' = << [path |-> p, node |-> Head(work).node] >>
             /\ gui' = "next"
             /\ UNCHANGED <<data, next_idx, results_>>
        [] ~limited /\ leaf ->
             /\ root_trajectory' = Put(root_trajectory, p, [node EXCEPT !.idx = next_idx])
             /\ data' = [i \in DOMAIN data \cup {next_idx} |-> IF i = next_idx THEN <<>> ELSE data[i]]
             /\ results_' = results_ \cup {next_idx}
             /\ next_idx' = next_idx + 1
             /\ refused' = <<>> /\ gui' = "start"
             /\ UNCHANGED trapped
        [] ~limited /\ ~leaf ->
             /\ root_trajectory' = Put(root_trajectory, p, node)
             /\ refused' = <<>> /\ gui' = "next"
             /\ UNCHANGED <<data, next_idx, results_, trapped>>

\* The node has its value: on to the next of work, or out of apply_setting().
Applied(v) ==
  LET p == Head(work).path
      node == [Head(work).node EXCEPT !.val = v]
  IN  /\ work' = Tail(work)
      /\ resuming' = (resuming /\ Len(work) > 1)
      /\ UNCHANGED <<my_run_, io, userVars>>
      /\ IF resuming
         THEN /\ root_trajectory' = IF Len(work) > 1 THEN Put(root_trajectory, p, node)
                                    ELSE root_trajectory
              /\ gui' = IF Len(work) > 1 THEN "apply" ELSE "next"
              /\ continue_' = (continue_ \/ Len(work) = 1)
              /\ UNCHANGED <<data, next_idx, results_, refused, trapped>>
         ELSE push_next_setting(p, node) /\ UNCHANGED continue_

\* The domain of the node to apply
Varied == At(root_trajectory, Front(Head(work).path)).dom

ApplySink == /\ gui = "apply" /\ DomainKind[Varied] = "sink"
             /\ Applied(Head(work).node.val)
             /\ UNCHANGED <<engineVars, raced>>

ConfirmManual(v) == /\ gui = "apply" /\ DomainKind[Varied] = "manual"
                    /\ v \in Minimum[Varied] .. Maximum[Varied]
                    /\ Applied(v)
                    /\ UNCHANGED <<engineVars, raced>>

AbortManual == /\ gui = "apply" /\ DomainKind[Varied] = "manual"
               /\ gui' = "idle" /\ work' = <<>> /\ resuming' = FALSE
               /\ UNCHANGED <<experimentVars, continue_, my_run_, io, engineVars, userVars,
                              refused, raced, trapped>>

GuiStep(from, to) == /\ gui = from /\ gui' = to
                     /\ UNCHANGED <<experimentVars, continue_, my_run_, io, work, resuming, runner,
                                    completed, updated, reading, userVars, refused, raced, trapped>>

\* Engine::get_all_settings(), Engine::set_setting() up to the write
SetSetting == /\ GuiStep("apply", "write")
              /\ DomainKind[Varied] = "source"
              /\ settings_tree_' = [device EXCEPT ![Varied] = Head(work).node.val]
              /\ UNCHANGED device

WriteSettings == /\ GuiStep("write", "read")
                 /\ device' = [d \in Sources |-> Accepted(d, settings_tree_[d])]
                 /\ UNCHANGED settings_tree_

ReadSettings == /\ GuiStep("read", "pull")
                /\ settings_tree_' = device
                /\ UNCHANGED device

\* set_number() brings the value into the range of the node
PullSetting == /\ gui = "pull"
               /\ LET v == settings_tree_[Varied]
                      node == Head(work).node
                  IN  Applied(IF v > node.max THEN node.max
                              ELSE IF v < Minimum[Varied] THEN Minimum[Varied] ELSE v)
               /\ UNCHANGED <<engineVars, raced>>

\* do_run(): a runner that is busy refuses, and the form does not notice
StartRun == /\ gui = "start"
            /\ gui' = "idle" /\ my_run_' = TRUE /\ io' = FALSE
            /\ IF runner \in {"idle", "between"}
               THEN /\ runner' = "run"
                    /\ settings_tree_' = device
                    /\ data' = [data EXCEPT ![next_idx - 1] = device]
               ELSE UNCHANGED <<runner, settings_tree_, data>>
            /\ UNCHANGED <<root_trajectory, next_idx, results_, continue_, work, resuming,
                           completed, updated, device, reading, userVars, refused, raced, trapped>>

RunCompleted == /\ gui = "idle" /\ completed
                /\ completed' = FALSE
                /\ my_run_' = FALSE
                /\ io' = (io \/ my_run_)
                /\ gui' = IF my_run_ /\ continue_ THEN "next" ELSE "idle"
                /\ UNCHANGED <<experimentVars, continue_, work, resuming, runner, updated,
                               settings_tree_, device, reading, userVars, refused, raced, trapped>>

\* The signals of one thread arrive in the order it emits them.
SettingsUpdated == /\ gui = "idle" /\ updated /\ ~completed
                   /\ updated' = FALSE /\ io' = TRUE
                   /\ UNCHANGED <<experimentVars, continue_, my_run_, gui, work, resuming, runner,
                                  completed, settings_tree_, device, reading, userVars,
                                  refused, raced, trapped>>

-----------------------------------------------------------------------------
(* The runner thread: an acquisition, and after it a refresh.              *)

RunnerStep(from, to) == /\ runner = from /\ runner' = to
                        /\ UNCHANGED <<experimentVars, formVars, device, file, edited,
                                       unapplied, refused, trapped>>

RunEnds == /\ RunnerStep("run", "after")
           /\ completed' = TRUE
           /\ UNCHANGED <<acts, updated, settings_tree_, reading, raced>>

\* running_ is FALSE between two rounds, and do_run() may come in there
EndRound == /\ RunnerStep("after", "between")
            /\ UNCHANGED <<acts, completed, updated, settings_tree_, reading, raced>>

IdleRefresh == /\ RunnerStep("idle", "between")
               /\ Acts
               /\ UNCHANGED <<completed, updated, settings_tree_, reading, raced>>

RefreshRead == /\ RunnerStep("between", "refresh")
               /\ reading' = device
               /\ UNCHANGED <<acts, completed, updated, settings_tree_, raced>>

RefreshStore == /\ RunnerStep("refresh", "idle")
                /\ settings_tree_' = reading
                /\ updated' = TRUE
                /\ reading' = [d \in Sources |-> Minimum[d]]
                /\ raced' = (raced \/ gui \in {"write", "read", "pull"})
                /\ UNCHANGED <<acts, completed>>

-----------------------------------------------------------------------------
Next == \/ \E d \in Domains : \E p \in Paths(root_trajectory) :
             AddSubdomain(p, d) \/ EditDomain(p, d)
        \/ \E p \in Paths(root_trajectory) : DeleteDomain(p)
        \/ \E d \in Sources : \E v \in Minimum[d] .. Maximum[d] : ChangeDevice(d, v)
        \/ SaveExperiment \/ LoadExperiment \/ NewExperiment
        \/ PushStart \/ PushStop \/ GetNextPoint
        \/ ApplySink \/ AbortManual \/ SetSetting \/ WriteSettings \/ ReadSettings \/ PullSetting
        \/ \E d \in Domains : \E v \in Minimum[d] .. Maximum[d] : ConfirmManual(v)
        \/ StartRun \/ RunCompleted \/ SettingsUpdated
        \/ RunEnds \/ EndRound \/ IdleRefresh \/ RefreshRead \/ RefreshStore

Spec == Init /\ [][Next]_vars

-----------------------------------------------------------------------------
TypeOK == /\ next_idx \in Nat \ {0} /\ results_ \subseteq DOMAIN data
          /\ \A i \in DOMAIN data : data[i] \in {<<>>} \cup [Sources -> Nat]
          /\ gui \in {"idle", "next", "apply", "write", "read", "pull", "start"}
          /\ runner \in {"idle", "run", "after", "between", "refresh"}
          /\ (gui \in {"apply", "write", "read", "pull"}) = (work # <<>>)

\* What the tree says a leaf was measured at is what the device was set to
\* while it was measured, at every level of the tree: apply_setting() reads
\* each value back, and on_pushStart_clicked() sets again what is above the
\* next point.  Left out: values read or written across a refresh of the
\* runner thread (raced), a start that sets nothing again because there are
\* no results yet, as always after a load (unapplied), and experiments from
\* which the user has deleted points: the walk may then go on from an earlier
\* point to one below a later point, which it does not set (edited).
LabelsAreTrue ==
  /\ TypeOK
  /\ raced \/ unapplied \/ edited \/
     \A p \in Leaves : \A q \in Points(p) :
        LET d == At(root_trajectory, Front(q)).dom
            at == data[At(root_trajectory, p).idx]
        IN  d \in Sources /\ at # <<>> => At(root_trajectory, q).val = at[d]

\* Every domain has a point at each value that the device accepts, and each of
\* these has all its sub-domains done.  (A domain set by hand has the values
\* that the user gave it.)
RECURSIVE Complete(_)
Complete(n) ==
  LET kids == {n.kids[i] : i \in DOMAIN n.kids}
      wanted == {v \in Minimum[n.dom] .. Maximum[n.dom] : n.dom \in Sources => v <= Limit[n.dom]}
  IN  /\ n.dom # None /\ DomainKind[n.dom] # "manual" => {k.val : k \in kids} \ {-1} = wanted
      /\ \A k \in kids : n.dom = None \/ k.val >= 0 => Complete(k)

\* next_setting() and push_next_setting() together miss no point: when there
\* is none left, the tree is complete.  Left out: trees the user has edited
\* meanwhile, and races.
\* On its way to a point get_next_point() calls itself until it has a leaf,
\* and comes to an end though the device refuses values: one that was applied
\* is not the next one again.  Left out there: a value refused in a domain
\* that has sub-domains, where is_datapoint() no longer knows the point whose
\* maximum was lowered, and the same value is tried without end (trapped).
DoneIsComplete ==
  /\ gui = "idle" /\ done /\ ~raced /\ ~edited => Complete(root_trajectory)
  /\ gui = "next" /\ refused # <<>> => trapped \/ next_setting(root_trajectory) # refused

\* Each leaf has a project of its own, however the experiment was edited,
\* saved and loaded, and the next leaf will too.  Left out: a point whose
\* maximum was lowered in a domain with sub-domains (trapped): when the user
\* deletes the sub-domain, the point is taken for one, leaves and all.
LeavesOwnProjects ==
  \/ trapped
  \/ \A p \in Leaves : LET i == At(root_trajectory, p).idx IN
       /\ i \in DOMAIN data /\ i < next_idx
       /\ \A q \in Leaves \ {p} : At(root_trajectory, q).idx # i
=============================================================================
