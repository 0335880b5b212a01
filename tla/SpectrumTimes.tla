---------------------------- MODULE SpectrumTimes ----------------------------
(***************************************************************************)
(* sinks/spectrum.cpp, _push_stats(): how a Spectrum adds up real time and *)
(* live time from the stats updates of its channels, over any number of    *)
(* acquisitions into the same project.  Here each channel has a source of  *)
(* its own, which counts native and live time since it was started, at     *)
(* Rate counts to a unit of lab time.                                      *)
(*                                                                         *)
(* The builder passes a spill on when it has no hits left: one that had    *)
(* none at once, whatever waits of its source.  So any update but a start  *)
(* may overtake running updates that were sent before it.                  *)
(***************************************************************************)
EXTENDS Integers, Sequences, SequencesExt

CONSTANTS Channels,
          Rate,       \* counts of the device clock in a unit of lab time
          MaxTime,    \* bound: lab time
          MaxUpdates  \* bound: updates sent in all

ASSUME TimesAssumption == /\ Channels # {} /\ Rate \in Nat \ {0}
                          /\ MaxTime \in Nat /\ MaxUpdates \in Nat

VARIABLES stats_list_, real_times_, live_times_,
          real_time, live_time,  \* the attributes in the metadata
          now,                   \* lab time
          source,                \* per channel: is it on, and its counters
          sent,                  \* how many updates there have been
          pending,               \* updates sent and not pushed
          trueReal, trueLive,    \* what was on until the last update sent
          disturbed              \* channels with a run that broke off before it
                                 \* reported, or that the next one followed with
                                 \* an overtaken update at the end of the list

spectrumVars == <<stats_list_, real_times_, live_times_, real_time, live_time>>
sourceVars == <<now, source, sent, trueReal, trueLive>>
timesVars == <<spectrumVars, sourceVars, pending, disturbed>>

StatsTypes == {"start", "running", "stop"}
Updates == [stats_type : StatsTypes, lab_time : Nat, native_time : Nat, live_time : Nat]

\* at and liveAt: lab time and live counter when it last sent an update
\* told: it has reported since its start
Off == [on |-> FALSE, told |-> FALSE, native |-> 0, live |-> 0, at |-> 0, liveAt |-> 0]

TimesInit ==
  /\ stats_list_ = [c \in Channels |-> <<>>]
  /\ real_times_ = <<>> /\ live_times_ = <<>>
  /\ real_time = 0 /\ live_time = 0
  /\ now = 0
  /\ source = [c \in Channels |-> Off]
  /\ sent = 0
  /\ pending = [c \in Channels |-> <<>>]
  /\ trueReal = [c \in Channels |-> 0] /\ trueLive = [c \in Channels |-> 0]
  /\ disturbed = {}

-----------------------------------------------------------------------------
(* The sources.                                                            *)

\* Time goes by; channels not in Alive are dead for that long.
Pass(Alive) == /\ now < MaxTime
               /\ now' = now + 1
               /\ source' = [c \in Channels |->
                    IF ~source[c].on THEN source[c]
                    ELSE [source[c] EXCEPT !.native = @ + Rate,
                                           !.live = IF c \in Alive THEN @ + Rate ELSE @]]
               /\ UNCHANGED <<spectrumVars, sent, pending, trueReal, trueLive, disturbed>>

Send(c, type, src) ==
  /\ sent < MaxUpdates
  /\ sent' = sent + 1
  /\ pending' = [pending EXCEPT ![c] =
       Append(@, [stats_type |-> type, lab_time |-> now,
                  native_time |-> src.native, live_time |-> src.live])]
  /\ UNCHANGED <<spectrumVars, now>>

\* The last update of the list is not the last one sent: that overtook it.
Behind(c) == /\ stats_list_[c] # <<>>
             /\ Last(stats_list_[c]).lab_time # source[c].at

\* An acquisition starts when the last one is over and all of it is pushed.
Start(c) == /\ ~source[c].on /\ pending[c] = <<>>
            /\ source' = [source EXCEPT ![c] = [Off EXCEPT !.on = TRUE, !.at = now]]
            /\ Send(c, "start", Off)
            /\ disturbed' = IF Behind(c) THEN disturbed \cup {c} ELSE disturbed
            /\ UNCHANGED <<trueReal, trueLive>>

Report(c, type) ==
  /\ source[c].on
  /\ source' = [source EXCEPT ![c] = [@ EXCEPT !.on = (type = "running"), !.told = TRUE,
                                              !.at = now, !.liveAt = source[c].live]]
  /\ trueReal' = [trueReal EXCEPT ![c] = @ + now - source[c].at]
  /\ trueLive' = [trueLive EXCEPT ![c] =
                     @ + (source[c].live - source[c].liveAt) \div Rate]
  /\ Send(c, type, source[c])
  /\ UNCHANGED disturbed

\* Without a stop: ParserRaw is interrupted, or its file ends, at a spill that
\* has no stats of this channel.
BreakOff(c) == /\ source[c].on
               /\ source' = [source EXCEPT ![c].on = FALSE]
               /\ disturbed' = IF source[c].told THEN disturbed ELSE disturbed \cup {c}
               /\ UNCHANGED <<spectrumVars, now, sent, pending, trueReal, trueLive>>

-----------------------------------------------------------------------------
(* Spectrum::_push_stats                                                   *)

\* Mutant: the run that broke off is not closed.
ClosedByNone(list, blk) == list

ClosedBy(list, blk) ==
  IF list # <<>> /\ blk.stats_type = "start" /\ Last(list).stats_type = "running"
  THEN [list EXCEPT ![Len(list)].stats_type = "stop"]
  ELSE list

\* Of the running updates only the last is kept.
Listed(list, blk) ==
  LET closed == ClosedBy(list, blk)
  IN Append(IF closed # <<>> /\ Last(closed).stats_type = "running"
            THEN Front(closed) ELSE closed,
            blk)

\* live time of an interval, from counts of the device to lab time
Scaled(from, to) ==
  LET rt     == to.lab_time - from.lab_time
      native == to.native_time - from.native_time
      live   == to.live_time - from.live_time
  IN IF native > 0 THEN (live * rt) \div native ELSE live

\* Mutant: the interval before a start is not added.
AddUpLast(sum, q) ==
  IF q.stats_type = "start" THEN [sum EXCEPT !.start = q]
  ELSE [sum EXCEPT !.rt = q.lab_time - sum.start.lab_time, !.lt = Scaled(sum.start, q)]

\* one pass over the list: an interval is added when the next one starts
AddUp(sum, q) ==
  IF q.stats_type = "start"
  THEN [sum EXCEPT !.real = @ + sum.rt, !.live = @ + sum.lt, !.start = q]
  ELSE [sum EXCEPT !.rt = q.lab_time - sum.start.lab_time, !.lt = Scaled(sum.start, q)]

Totals(list) ==
  LET sum[n \in 0..Len(list)] ==
        IF n = 0
        THEN [start |-> Head(list), rt |-> 0, lt |-> 0, real |-> 0, live |-> 0]
        ELSE AddUp(sum[n - 1], list[n])
  IN sum[Len(list)]

\* the last interval too, if it has begun
Sums(list) ==
  LET sum == Totals(list)
  IN IF Last(list).stats_type = "start" THEN <<sum.real, sum.live>>
     ELSE <<sum.real + sum.rt, sum.live + sum.lt>>

MinOf(S) == CHOOSE x \in S : \A y \in S : x <= y

Put(f, c, x) == [d \in DOMAIN f \cup {c} |-> IF d = c THEN x ELSE f[d]]

_push_stats(c, blk) ==
  LET list == Listed(stats_list_[c], blk)
      sums == Sums(list)
  IN /\ stats_list_' = [stats_list_ EXCEPT ![c] = list]
     /\ IF stats_list_[c] = <<>>
        THEN UNCHANGED <<real_times_, live_times_, real_time, live_time>>
        ELSE /\ real_times_' = Put(real_times_, c, sums[1])
             /\ live_times_' = Put(live_times_, c, sums[2])
             /\ real_time' = MinOf({real_times_'[d] : d \in DOMAIN real_times_'})
             /\ live_time' = MinOf({sums[1]} \cup
                                    {live_times_'[d] : d \in DOMAIN live_times_'})

\* A spill without hits leaves at once, before earlier ones that have hits.  A
\* start never has any, and after a stop there is nothing to overtake it.
Overtakes(list, i) == \A j \in 1..(i - 1) : list[j].stats_type = "running"

Push(c) ==
  \E i \in DOMAIN pending[c] :
    /\ Overtakes(pending[c], i)
    /\ pending' = [pending EXCEPT ![c] = RemoveAt(@, i)]
    /\ _push_stats(c, pending[c][i])
    /\ UNCHANGED <<sourceVars, disturbed>>

TimesNext ==
  \/ \E Alive \in SUBSET Channels : Pass(Alive)
  \/ \E c \in Channels : \/ Start(c) \/ Report(c, "running") \/ Report(c, "stop")
                         \/ BreakOff(c) \/ Push(c)

TimesSpec == TimesInit /\ [][TimesNext]_timesVars

-----------------------------------------------------------------------------
TimesTypes ==
  /\ \A c \in Channels : /\ stats_list_[c] \in Seq(Updates)
                         /\ pending[c] \in Seq(Updates)
  /\ sent \in 0..MaxUpdates
  /\ DOMAIN real_times_ = DOMAIN live_times_
  /\ real_time \in Nat /\ live_time \in Nat /\ now \in 0..MaxTime
  /\ disturbed \subseteq Channels

Settled(c) == /\ pending[c] = <<>> /\ Len(stats_list_[c]) > 1
              /\ c \notin disturbed /\ ~Behind(c)

(***************************************************************************)
(* When all updates are in, the real time of a channel is the time its     *)
(* source was on, over all acquisitions, and its live time what it was     *)
(* live for, in lab time however the device counts: also if running        *)
(* updates came late, as long as the last one sent was the last to come    *)
(* before the sums are looked at, and before the next start.  Not so of a  *)
(* channel that was disturbed: a start after a start adds the interval     *)
(* before it again (rt is not reset), and an update that comes late at the *)
(* end sets the time back.  The attributes, which are minima over channels *)
(* that start and stop apart, never claim more live time than real time.   *)
(***************************************************************************)
TimesAreTrue ==
  /\ TimesTypes
  /\ \A c \in Channels :
       Settled(c) => real_times_[c] = trueReal[c] /\ live_times_[c] = trueLive[c]
  /\ live_time <= real_time
=============================================================================
