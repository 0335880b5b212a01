----------------------------- MODULE Presorter ------------------------------
(***************************************************************************)
(* Engine::worker_MCA (engine/engine.cpp): the spectra builder thread.  It *)
(* dequeues spills that several sources enqueue independently, merges      *)
(* their hits in order of time, and gives the project one spill for each   *)
(* spill it took, as soon as that one has no hits left.                    *)
(*                                                                         *)
(* The queue is the channel SynchronizedQueue implements.  The sources are *)
(* the environment: each enqueues a start update, then data, then a stop   *)
(* update, its own hits never going back in time.  current_spills is a     *)
(* multiset of pointers ordered by address, so the order in which its      *)
(* members are visited is left open.                                       *)
(***************************************************************************)
EXTENDS Naturals, Sequences, SequencesExt

CONSTANTS Sources,     \* devices; all channels of a device move together
          Engine,      \* source of the two spills getMca() itself enqueues
          MaxSpills,   \* bound: spills of all sources up to the last with data
          MaxHits,     \* bound: hits of all sources together
          MaxTime      \* bound: timestamps are 1..MaxTime

ASSUME PresorterAssumption ==
  /\ Engine \notin Sources
  /\ MaxSpills \in Nat /\ MaxHits \in Nat /\ MaxTime \in Nat \ {0}

VARIABLES data_queue,     \* spills enqueued and not yet dequeued
          engine,         \* getMca() is acquiring, draining or stopped
          current_spills, \* dequeued spills that were not passed on yet
          queue_status,   \* channels heard of: the keys of the code's map
          at_end,         \* the last dequeue() returned NULL
          out_hits,       \* out_spill->hits
          pc,             \* where the builder is in its loop
          delivered,      \* the spills given to Project::add_spill, in order
          source,         \* each source is off, running, stopping or stopped
          enqueued,       \* spills each source has enqueued
          hitCount,       \* hits each source has enqueued
          clock,          \* time of the last hit of each source
          late            \* a source started when another one had gone on

builderVars == <<current_spills, queue_status, at_end, out_hits, pc, delivered>>
sourceVars == <<source, enqueued, hitCount, clock, late>>
vars == <<data_queue, engine, builderVars, sourceVars>>

Times == 1..MaxTime
Hits == [source : Sources, n : Nat, time : Times]
StatsTypes == {"start", "running", "stop"}

\* stats_type of a spill of the engine stands for an empty stats map
Spills == [source : Sources \cup {Engine}, k : Nat,
           stats_type : StatsTypes \cup {"none"}, hits : Seq(Hits)]

NoHit == [source |-> Engine, n |-> 0, time |-> 0]   \* a Hit() of no channel

EngineSpill(k) ==
  [source |-> Engine, k |-> k, stats_type |-> "none", hits |-> <<>>]

Init == /\ data_queue = <<EngineSpill(1)>>
        /\ engine = "acquiring"
        /\ current_spills = {}
        /\ queue_status = {}
        /\ at_end = FALSE
        /\ out_hits = <<>>
        /\ pc = "dequeue"
        /\ delivered = <<>>
        /\ source = [s \in Sources |-> "off"]
        /\ enqueued = [s \in Sources |-> 0]
        /\ hitCount = [s \in Sources |-> 0]
        /\ clock = [s \in Sources |-> 1]
        /\ late = FALSE

-----------------------------------------------------------------------------
(* The sources' run threads.                                               *)

\* Times of the hits of one spill: in order, none before the source's last.
HitTimes(s) == {t \in UNION {[1..n -> Times] : n \in 0..MaxHits} :
                  /\ SumFunction(hitCount) + Len(t) <= MaxHits
                  /\ \A i \in DOMAIN t : t[i] >= clock[s]
                  /\ \A i, j \in DOMAIN t : i <= j => t[i] <= t[j]}

Enqueue(s, type, t) ==
  /\ enqueued' = [enqueued EXCEPT ![s] = @ + 1]
  /\ hitCount' = [hitCount EXCEPT ![s] = @ + Len(t)]
  /\ clock' = [clock EXCEPT ![s] = IF t = <<>> THEN @ ELSE t[Len(t)]]
  /\ data_queue' = Append(data_queue,
       [source |-> s, k |-> enqueued'[s], stats_type |-> type,
        hits |-> [i \in DOMAIN t |->
                    [source |-> s, n |-> hitCount[s] + i, time |-> t[i]]]])
  /\ UNCHANGED <<engine, builderVars>>

SourceStart(s) == /\ source[s] = "off"
                  /\ source' = [source EXCEPT ![s] = "running"]
                  /\ late' = (late \/ \E r \in Sources : enqueued[r] > 1)
                  /\ Enqueue(s, "start", <<>>)

SourceData(s) == /\ source[s] = "running"
                 /\ SumFunction(enqueued) < MaxSpills
                 /\ \E t \in HitTimes(s) : Enqueue(s, "running", t)
                 /\ UNCHANGED <<source, late>>

\* Pixie4 marks what it reads after the stop request as "stop" as well.
SourceLastData(s) == /\ source[s] = "running"
                     /\ SumFunction(enqueued) < MaxSpills
                     /\ source' = [source EXCEPT ![s] = "stopping"]
                     /\ \E t \in HitTimes(s) : Enqueue(s, "stop", t)
                     /\ UNCHANGED late

SourceStop(s) == /\ source[s] \in {"running", "stopping"}
                 /\ source' = [source EXCEPT ![s] = "stopped"]
                 /\ Enqueue(s, "stop", <<>>)
                 /\ UNCHANGED late

-----------------------------------------------------------------------------
(* The end of Engine::getMca: one more spill when all sources have         *)
(* stopped, then stop() once the queue is seen empty.                      *)

EngineFinal == /\ engine = "acquiring"
               /\ \A s \in Sources : source[s] = "stopped"
               /\ engine' = "draining"
               /\ data_queue' = Append(data_queue, EngineSpill(2))
               /\ UNCHANGED <<builderVars, sourceVars>>

EngineStop == /\ engine = "draining"
              /\ data_queue = <<>>
              /\ engine' = "stopped"
              /\ UNCHANGED <<data_queue, builderVars, sourceVars>>

end_queue_ == engine = "stopped"

-----------------------------------------------------------------------------
(* The builder thread; what it does to its own variables after a           *)
(* dequeue(), up to the merge, is part of that step.                       *)

Goto(from, to) == pc = from /\ pc' = to

\* What queue_status says of a channel once it is recomputed from the backlog
HasData(s) == \E sp \in current_spills :
                sp.source = s /\ (sp.hits # <<>> \/ sp.stats_type = "stop")

\* Mutants: not every channel needs data; NULL does not force the merge.
ReadyAny == queue_status # {} /\ (at_end \/ \E s \in queue_status : HasData(s))
ReadyNeverForced == queue_status # {} /\ \A s \in queue_status : HasData(s)

\* The backlog may be merged: no channel heard of could still add older hits.
Ready == queue_status # {} /\ (at_end \/ \A s \in queue_status : HasData(s))

\* in_spill = data_queue->dequeue(): a spill, its channels now heard of ...
DequeueSpill ==
  /\ ~end_queue_
  /\ data_queue # <<>>
  /\ pc = "dequeue"
  /\ data_queue' = Tail(data_queue)
  /\ current_spills' = current_spills \cup {Head(data_queue)}
  /\ queue_status' = queue_status \cup ({Head(data_queue).source} \ {Engine})
  /\ UNCHANGED <<engine, at_end, out_hits, delivered, sourceVars>>
  /\ pc' = IF Ready' THEN "merge" ELSE "evict"

\* ... or NULL
DequeueNull ==
  /\ end_queue_
  /\ pc = "dequeue"
  /\ at_end' = TRUE
  /\ UNCHANGED <<data_queue, engine, current_spills, queue_status, out_hits,
                 delivered, sourceVars>>
  /\ pc' = IF Ready' THEN "merge" ELSE "evict"

HasOldest(sp) == \A other \in current_spills :
                   sp.hits[1].time <= other.hits[1].time

\* while (!empty): move the oldest hit of the backlog to out_spill ...
MergeHit ==
  /\ pc = "merge"
  /\ current_spills # {}
  /\ \A sp \in current_spills : sp.hits # <<>>
  /\ \E sp \in current_spills :
       /\ HasOldest(sp)
       /\ out_hits' = Append(out_hits, Head(sp.hits))
       /\ current_spills' = (current_spills \ {sp})
                              \cup {[sp EXCEPT !.hits = Tail(@)]}
  /\ UNCHANGED <<data_queue, engine, queue_status, at_end, pc, delivered, sourceVars>>

\* ... until some spill has none; without spills a blank Hit is pushed once.
MergeDone ==
  /\ Goto("merge", "evict")
  /\ current_spills # {} => \E sp \in current_spills : sp.hits = <<>>
  /\ out_hits' = IF current_spills = {} THEN Append(out_hits, NoHit) ELSE out_hits
  /\ UNCHANGED <<data_queue, engine, current_spills, queue_status, at_end,
                 delivered, sourceVars>>

\* Mutant: out_spill is not renewed.
EvictKeepingHits ==
  /\ pc = "evict"
  /\ \E sp \in current_spills :
       /\ sp.hits = <<>>
       /\ delivered' = Append(delivered, [sp EXCEPT !.hits = out_hits])
       /\ current_spills' = current_spills \ {sp}
  /\ UNCHANGED <<data_queue, engine, queue_status, at_end, pc, out_hits, sourceVars>>

\* A spill without hits leaves with the hits merged so far: add_spill(out_spill)
Evict ==
  /\ pc = "evict"
  /\ \E sp \in current_spills :
       /\ sp.hits = <<>>
       /\ delivered' = Append(delivered, [sp EXCEPT !.hits = out_hits])
       /\ current_spills' = current_spills \ {sp}
  /\ out_hits' = <<>>
  /\ UNCHANGED <<data_queue, engine, queue_status, at_end, pc, sourceVars>>

\* Mutant: the thread ends at NULL whatever the backlog holds.
EvictDoneEarly ==
  /\ \A sp \in current_spills : sp.hits # <<>>
  /\ Goto("evict", IF at_end THEN "exited" ELSE "dequeue")
  /\ out_hits' = <<>>
  /\ UNCHANGED <<data_queue, engine, current_spills, queue_status, at_end,
                 delivered, sourceVars>>

\* noempties: out_spill is deleted; the thread ends after NULL if nothing is left
EvictDone ==
  /\ \A sp \in current_spills : sp.hits # <<>>
  /\ Goto("evict", IF at_end /\ current_spills = {} THEN "exited" ELSE "dequeue")
  /\ out_hits' = <<>>
  /\ UNCHANGED <<data_queue, engine, current_spills, queue_status, at_end,
                 delivered, sourceVars>>

-----------------------------------------------------------------------------
worker_MCA == \/ DequeueSpill \/ DequeueNull
              \/ MergeHit \/ MergeDone \/ Evict \/ EvictDone

Run(s) == SourceStart(s) \/ SourceData(s) \/ SourceLastData(s) \/ SourceStop(s)

Next == \/ worker_MCA
        \/ EngineFinal \/ EngineStop
        \/ \E s \in Sources : Run(s)

Spec == Init /\ [][Next]_vars

\* Threads are scheduled; every source stops some day, and getMca() goes on.
FairSpec == /\ Spec
            /\ WF_vars(worker_MCA)
            /\ WF_vars(EngineFinal) /\ WF_vars(EngineStop)
            /\ \A s \in Sources : WF_vars(SourceStart(s)) /\ WF_vars(SourceStop(s))

-----------------------------------------------------------------------------
TypeOK ==
  /\ data_queue \in Seq(Spills)
  /\ engine \in {"acquiring", "draining", "stopped"}
  /\ current_spills \in SUBSET Spills
  /\ queue_status \in SUBSET Sources
  /\ at_end \in BOOLEAN
  /\ out_hits \in Seq(Hits \cup {NoHit})
  /\ pc \in {"dequeue", "merge", "evict", "exited"}
  /\ delivered \in Seq(Spills)
  /\ source \in [Sources -> {"off", "running", "stopping", "stopped"}]
  /\ enqueued \in [Sources -> Nat]
  /\ hitCount \in [Sources -> Nat]
  /\ clock \in [Sources -> Times]
  /\ late \in BOOLEAN

HitsIn(spills) == UNION {Range(sp.hits) : sp \in spills}

\* The places a hit can be in, with how many hits are there.
InQueue == HitsIn(Range(data_queue))
InBacklog == HitsIn(current_spills)
InDelivered == HitsIn(Range(delivered))

(***************************************************************************)
(* No hit is lost or counted twice between a source and the sinks: each is *)
(* in exactly one place, although hits change spills on their way and      *)
(* out_spill is deleted at the end of every pass.                          *)
(***************************************************************************)
HitsConserved ==
  LET places == <<InQueue, InBacklog, Range(out_hits) \ {NoHit}, InDelivered>>
  IN  /\ TypeOK
      /\ \A i, j \in DOMAIN places : i # j => places[i] \cap places[j] = {}
      /\ \A s \in Sources :
           {h.n : h \in {g \in UNION Range(places) : g.source = s}}
              = 1..hitCount[s]

(***************************************************************************)
(* What the presorter is for: hits reach the sinks in order of time, none  *)
(* twice.  spectrum.cpp drops out of its backlog on the strength of it.    *)
(* It is so when all sources start before one goes on: a source is in      *)
(* queue_status from its first update only.                                *)
(***************************************************************************)
TimeSorted ==
  \A i, j \in DOMAIN delivered :
    \A k \in DOMAIN delivered[i].hits, l \in DOMAIN delivered[j].hits :
      LET h == delivered[i].hits[k]
          g == delivered[j].hits[l]
      IN  i < j \/ (i = j /\ k < l) => h # g /\ (late \/ h.time <= g.time)

(***************************************************************************)
(* Nothing is left behind: the thread ends only when every spill was given *)
(* to the project, those included that waited for a source that had        *)
(* already stopped.                                                        *)
(***************************************************************************)
NothingLeftBehind ==
  pc = "exited" =>
    /\ data_queue = <<>> /\ current_spills = {}
    /\ \A s \in Sources :
         {sp.k : sp \in {d \in Range(delivered) : d.source = s}}
           = 1..enqueued[s]

(***************************************************************************)
(* The builder thread ends, so that Engine::getMca can join it: the loop   *)
(* after NULL does not spin on a backlog it never empties.                 *)
(***************************************************************************)
BuilderExits == <>(pc = "exited")
=============================================================================
