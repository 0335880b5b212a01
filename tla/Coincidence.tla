----------------------------- MODULE Coincidence -----------------------------
(***************************************************************************)
(* sinks/spectrum.cpp: how a Spectrum builds coincidence events from the   *)
(* hits that the presorter gives it in time order.  Each channel has a     *)
(* digital delay, added to the time stamp first.  An event opens a window  *)
(* at its first hit, waits in the backlog for max_delay_, and is then      *)
(* validated against the patterns and counted.  Times are in nanoseconds;  *)
(* time stamps are whole multiples of the Tick of the device.              *)
(***************************************************************************)
EXTENDS Naturals, Sequences, FiniteSets, SequencesExt

CONSTANTS Channels,
          Tick,          \* the timebase of the device
          Delays,        \* the digital delays each channel may be given
          coinc_window_,
          pattern_coinc_, pattern_anti_, pattern_add_, \* [gates, threshold]
          MaxTime,       \* bound: the last time a hit arrives at
          MaxHits        \* bound: hits that pass the cutoff and the patterns

Patterns == [gates : SUBSET Channels, threshold : Nat]

ASSUME CoincidenceAssumption ==
  /\ IsFiniteSet(Channels) /\ Channels # {}
  /\ Tick \in Nat \ {0}
  /\ Delays \subseteq [Channels -> Nat] /\ coinc_window_ \in Nat
  /\ {pattern_coinc_, pattern_anti_, pattern_add_} \subseteq Patterns
  /\ MaxTime \in Nat /\ MaxHits \in Nat

VARIABLES delay_ns_,     \* the digital delay of each channel, a setting
          backlog,       \* the events still open for hits
          energy_idx_,   \* channels whose hit model is known, from their stats
          total_events_,
          flushed,       \* total_events_ as _flush() shows it, when it has
          clock,         \* when the last hit arrived
          pushed,        \* the hits accepted, with their delayed time stamps
          evicted,       \* the events that have left the backlog
          pileups        \* the hits that were dropped for pile-up

vars == <<delay_ns_, backlog, energy_idx_, total_events_, flushed, clock, pushed, evicted, pileups>>

Hits == [id : 1..MaxHits, channel : Channels, timestamp : Nat]
Events == [lower_time : Nat, hits : SUBSET Hits]

\* Event::hits is a map from the channel.
OnePerChannel(e) == \A g, h \in e.hits : g.channel = h.channel => g = h

Init == /\ delay_ns_ \in Delays
        /\ backlog = <<>>
        /\ energy_idx_ = {}
        /\ total_events_ = 0 /\ flushed = 0
        /\ clock = 0
        /\ pushed = <<>> /\ evicted = <<>> /\ pileups = {}

-----------------------------------------------------------------------------
(* engine/event.cpp                                                        *)

MaxOf(S) == CHOOSE x \in S : \A y \in S : y <= x

max_delay_ == MaxOf({delay_ns_[c] : c \in Channels}) + coinc_window_

in_window(e, h) == /\ h.timestamp >= e.lower_time
                   /\ h.timestamp - e.lower_time <= coinc_window_

past_due(e, h) == /\ h.timestamp >= e.lower_time
                  /\ h.timestamp - e.lower_time > max_delay_

HasChannel(e, c) == \E h \in e.hits : h.channel = c

addHit(e, h) == [e EXCEPT !.hits = @ \cup {h}]

(* engine/pattern.cpp                                                      *)

relevant(c) == \E p \in {pattern_coinc_, pattern_anti_, pattern_add_} : c \in p.gates

Matches(p, e) == Cardinality({c \in p.gates : HasChannel(e, c)})

validate(p, e) == Matches(p, e) >= p.threshold

\* The count starts at the threshold, and one hit that matches ends it.
antivalidate(p, e) == p.threshold = 0 \/ Matches(p, e) = 0

validateEvent(e) == validate(pattern_coinc_, e) /\ antivalidate(pattern_anti_, e)

(* engine/time_stamp.h, delay(): whole ticks, rounded up                   *)

delayed(c, t) == t + Tick * ((delay_ns_[c] + Tick - 1) \div Tick)

-----------------------------------------------------------------------------
(* Spectrum::_push_hit                                                     *)

\* the events that the loop looks at before one that is past due ends it;
\* there is no loop when the last event is
Reached(h) == {i \in DOMAIN backlog : /\ ~past_due(Last(backlog), h)
                                      /\ \A j \in 1..i : ~past_due(backlog[j], h)}

InWindowLater(h) ==
  {i \in Reached(h) : in_window(backlog[i], h) /\ h.timestamp > backlog[i].lower_time}

InWindow(h) == {i \in Reached(h) : in_window(backlog[i], h)}

\* an event takes one hit of a channel: another one is pile-up
Piled(h) == {i \in InWindow(h) : HasChannel(backlog[i], h.channel)}

Joined(h) == [i \in DOMAIN backlog |->
                IF i \in InWindow(h) \ Piled(h) THEN addHit(backlog[i], h)
                ELSE backlog[i]]

NewEvent(h) == [lower_time |-> h.timestamp, hits |-> {h}]

WithHitOrFirst(h) == IF backlog = <<>> THEN <<NewEvent(h)>> ELSE Joined(h)

\* a new event for a hit that is in no window
WithHit(h) == IF InWindow(h) = {} THEN Append(backlog, NewEvent(h)) ELSE Joined(h)

DueInWindow(log, h) ==
  Cardinality({i \in DOMAIN log :
                 \A j \in 1..i : h.timestamp > log[j].lower_time + coinc_window_ - Tick})

\* how many events at the front are past due
Due(log, h) == Cardinality({i \in DOMAIN log : \A j \in 1..i : past_due(log[j], h)})

Counted(events) == Cardinality({i \in DOMAIN events : validateEvent(events[i])})

PushHit(c, t, low) ==
  LET h    == [id |-> Len(pushed) + 1, channel |-> c, timestamp |-> delayed(c, t)]
      log  == WithHit(h)
      due  == Due(log, h)
      outs == SubSeq(log, 1, due)
  IN /\ t % Tick = 0
     /\ clock' = t
     /\ IF c \in energy_idx_ /\ ~low /\ relevant(c)
        THEN /\ Len(pushed) < MaxHits
             /\ pushed' = Append(pushed, h)
             /\ pileups' = IF InWindow(h) # {} /\ InWindow(h) = Piled(h)
                           THEN pileups \cup {h} ELSE pileups
             /\ backlog' = SubSeq(log, due + 1, Len(log))
             /\ evicted' = evicted \o outs
             /\ total_events_' = total_events_ + Counted(outs)
        ELSE UNCHANGED <<pushed, pileups, backlog, evicted, total_events_>>
     /\ UNCHANGED <<delay_ns_, energy_idx_, flushed>>

\* Spectrum::_push_stats: of interest here is the hit model it brings
PushStats(c) == /\ relevant(c)
                /\ energy_idx_' = energy_idx_ \cup {c}
                /\ flushed' = total_events_
                /\ UNCHANGED <<delay_ns_, backlog, total_events_, clock, pushed, evicted, pileups>>

Flush == /\ flushed' = total_events_
         /\ UNCHANGED <<delay_ns_, backlog, energy_idx_, total_events_, clock, pushed, evicted,
                        pileups>>

Next == \/ \E c \in Channels, t \in clock..MaxTime, low \in BOOLEAN : PushHit(c, t, low)
        \/ \E c \in Channels : PushStats(c)
        \/ Flush

Spec == Init /\ [][Next]_vars

-----------------------------------------------------------------------------
TypeOK ==
  /\ delay_ns_ \in Delays
  /\ backlog \in Seq(Events) /\ evicted \in Seq(Events)
  /\ \A e \in Range(backlog \o evicted) : OnePerChannel(e)
  /\ energy_idx_ \subseteq Channels
  /\ total_events_ \in 0..MaxHits /\ flushed \in 0..MaxHits
  /\ clock \in 0..MaxTime
  /\ pushed \in Seq(Hits) /\ pileups \subseteq Hits

All == evicted \o backlog

EventsOf(h) == {i \in DOMAIN All : h \in All[i].hits}

\* Hits come in the order of their time stamps.
InOrder == \A c \in Channels : delay_ns_[c] = 0

(***************************************************************************)
(* Every hit accepted is in some event, unless it was pile-up: the loop    *)
(* over the backlog never lets one fall through.  Without delays none is   *)
(* in two events, so that none is counted twice ("counted >=2 times" is    *)
(* what the code logs of one that is).                                     *)
(***************************************************************************)
HitsAccounted ==
  /\ TypeOK
  /\ \A h \in Range(pushed) :
       /\ EventsOf(h) = {} <=> h \in pileups
       /\ InOrder => Cardinality(EventsOf(h)) <= 1

\* max_delay_ does not allow for the rounding of a delay to whole ticks.
WholeTicks == \A c \in Channels : delay_ns_[c] % Tick = 0

InLastTick(e, h) == h.timestamp + Tick > e.lower_time + coinc_window_

(***************************************************************************)
(* An event leaves the backlog only when no hit that is still to come can  *)
(* fall into its window: max_delay_ is long enough for hits that the       *)
(* delays put out of order.  If a delay is not a whole number of ticks an  *)
(* event may leave too early, and miss hits in the last tick of its        *)
(* window, but in no more than that.                                       *)
(***************************************************************************)
EvictedIsComplete ==
  [][\A h \in Range(pushed') \ Range(pushed) : \A e \in Range(evicted) :
       in_window(e, h) => ~WholeTicks /\ InLastTick(e, h)]_vars

(***************************************************************************)
(* A hit that falls into the window of an event is in that event, unless   *)
(* the event already has a hit of that channel: the coincidences found are *)
(* all there are.                                                          *)
(***************************************************************************)
CoincidentHitsMeet ==
  \A i \in DOMAIN All, h \in Range(pushed) :
    in_window(All[i], h) => HasChannel(All[i], h.channel)

(***************************************************************************)
(* It is so without digital delays: an event that is past due then stands  *)
(* before no event whose window the hit is in.                             *)
(***************************************************************************)
OrderedHitsMeet == InOrder => CoincidentHitsMeet
=============================================================================
