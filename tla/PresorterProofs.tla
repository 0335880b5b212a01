-------------------------- MODULE PresorterProofs ---------------------------
(***************************************************************************)
(* Proofs about Presorter for any sources, spills, hits and times: no hit  *)
(* is lost or doubled on its way through the backlog, hits are given to    *)
(* the project in order of time, and no spill is left behind.              *)
(***************************************************************************)
EXTENDS Presorter, SequenceTheorems, TLAPS

-----------------------------------------------------------------------------
(* The inductive invariant                                                 *)

Merged == InDelivered \cup (Range(out_hits) \ {NoHit})
Dequeued == InBacklog \cup Merged

\* the hits of one source in the order it enqueued them
Before(h, g) == h.source = g.source => h.n < g.n /\ h.time <= g.time

\* A spill has hits of its own source, in order.
Ordered(sp) ==
  /\ \A i \in DOMAIN sp.hits : sp.hits[i].source = sp.source
  /\ \A i, j \in DOMAIN sp.hits : i < j => Before(sp.hits[i], sp.hits[j])

\* Where threads are: after NULL nothing comes any more, and out_hits is
\* empty between two passes.
ControlInv ==
  /\ engine # "acquiring" => \A s \in Sources : source[s] = "stopped"
  /\ end_queue_ => data_queue = <<>>
  /\ at_end => end_queue_
  /\ pc = "exited" => at_end /\ current_spills = {}
  /\ pc \in {"dequeue", "exited"} => out_hits = <<>>
  /\ pc = "merge" /\ current_spills = {} => out_hits = <<>>
  /\ NoHit \in Range(out_hits) => pc = "evict" /\ current_spills = {}
  /\ pc = "evict" /\ (\A sp \in current_spills : sp.hits # <<>>)
       => Range(out_hits) \subseteq {NoHit}
  /\ \A s \in Sources : /\ source[s] = "off" <=> enqueued[s] = 0
                        /\ hitCount[s] > 0 => enqueued[s] > 1

\* The queue has each source's hits in order, after those it has given out.
OrderInv ==
  /\ \A i \in 1..Len(data_queue) : Ordered(data_queue[i])
  /\ \A sp \in current_spills : Ordered(sp)
  /\ \A i, j \in 1..Len(data_queue) : i < j =>
       \A h \in Range(data_queue[i].hits), g \in Range(data_queue[j].hits) : Before(h, g)
  /\ \A h \in Dequeued, g \in InQueue : Before(h, g)
  /\ \A h \in InQueue \cup Dequeued :
       h \in Hits /\ h.n \in 1..hitCount[h.source] /\ h.time <= clock[h.source]

\* Each hit that was dequeued is in one spill of the backlog or was merged once.
OnceInv ==
  /\ \A sp, other \in current_spills :
       sp # other => Range(sp.hits) \cap Range(other.hits) = {}
  /\ InBacklog \cap Merged = {}
  /\ InDelivered \cap Range(out_hits) = {}
  /\ \A k, l \in DOMAIN out_hits : k < l => out_hits[k] # out_hits[l]
  /\ \A i, j \in DOMAIN delivered :
       \A k \in DOMAIN delivered[i].hits, l \in DOMAIN delivered[j].hits :
         i < j \/ (i = j /\ k < l) => delivered[i].hits[k] # delivered[j].hits[l]

\* Every hit that a source enqueued is somewhere.
CoverInv ==
  \A s \in Sources : \A n \in 1..hitCount[s] :
    \E h \in InQueue \cup Dequeued : h.source = s /\ h.n = n

\* Spills are told apart by their number, and each of them is somewhere.
Count(s) == IF s = Engine THEN IF engine = "acquiring" THEN 1 ELSE 2 ELSE enqueued[s]

Earlier(sp, other) == sp.source = other.source => sp.k < other.k

SpillInv ==
  /\ \A i, j \in 1..Len(data_queue) : i < j => Earlier(data_queue[i], data_queue[j])
  /\ \A sp \in current_spills, j \in 1..Len(data_queue) : Earlier(sp, data_queue[j])
  /\ \A sp, other \in current_spills :
       sp.source = other.source /\ sp.k = other.k => sp = other
  /\ \A sp \in Range(data_queue) \cup current_spills \cup Range(delivered) :
       sp.k \in 1..Count(sp.source)
  /\ \A s \in Sources : \A k \in 1..enqueued[s] :
       \E sp \in Range(data_queue) \cup current_spills \cup Range(delivered) :
         sp.source = s /\ sp.k = k

\* As long as no source is late, a source that was not heard of has its start
\* in the queue, before all hits.
StartInv ==
  ~late => \A s \in Sources : source[s] # "off" /\ s \notin queue_status =>
             /\ Dequeued = {}
             /\ \E j \in 1..Len(data_queue) : /\ data_queue[j].source = s
                                              /\ \A i \in 1..j : data_queue[i].hits = <<>>

\* Then no hit that was merged is younger than one that was not, or will come.
TimeInv ==
  /\ pc = "merge" /\ (\A sp \in current_spills : sp.hits # <<>>)
       => at_end \/ \A s \in queue_status : HasData(s)
  /\ ~late =>
       /\ \A m \in Merged, r \in InBacklog \cup InQueue : m.time <= r.time
       /\ \A s \in Sources : source[s] = "running" => \A m \in Merged : m.time <= clock[s]
       /\ \A k, l \in DOMAIN out_hits : k < l => out_hits[k].time <= out_hits[l].time
       /\ \A m \in InDelivered, r \in Range(out_hits) \ {NoHit} : m.time <= r.time
       /\ \A i, j \in DOMAIN delivered :
            \A k \in DOMAIN delivered[i].hits, l \in DOMAIN delivered[j].hits :
              i < j \/ (i = j /\ k < l) => delivered[i].hits[k].time <= delivered[j].hits[l].time

-----------------------------------------------------------------------------
(* Sequences and spills                                                    *)

LEMMA Elements == ASSUME NEW S, NEW q \in Seq(S)
                  PROVE  /\ Len(q) \in Nat /\ DOMAIN q = 1..Len(q)
                         /\ Range(q) \subseteq S
                         /\ \A x : x \in Range(q) <=> \E i \in 1..Len(q) : q[i] = x
                         /\ q = <<>> <=> Len(q) = 0
BY LenProperties, ElementOfSeq, EmptySeq DEF Range

LEMMA Appended == ASSUME NEW S, NEW q \in Seq(S), NEW x \in S
                  PROVE  /\ Append(q, x) \in Seq(S) /\ Len(q) \in Nat
                         /\ Len(Append(q, x)) = Len(q) + 1
                         /\ Append(q, x)[Len(q) + 1] = x
                         /\ \A i \in 1..Len(q) : Append(q, x)[i] = q[i]
                         /\ Range(Append(q, x)) = Range(q) \cup {x}
<1>1. /\ Append(q, x) \in Seq(S) /\ Len(q) \in Nat
      /\ Len(Append(q, x)) = Len(q) + 1
      /\ Append(q, x)[Len(q) + 1] = x
      /\ \A i \in 1..Len(q) : Append(q, x)[i] = q[i]
  BY AppendProperties, LenProperties
<1> DEFINE a == Append(q, x)
<1>2. DOMAIN a = 1..Len(q) + 1 /\ DOMAIN q = 1..Len(q)
  BY <1>1, LenProperties
<1>3. \A i \in DOMAIN a : i \in DOMAIN q \/ i = Len(q) + 1
  BY <1>1, <1>2
<1>4. Len(q) + 1 \in DOMAIN a /\ DOMAIN q \subseteq DOMAIN a
  BY <1>1, <1>2
<1> HIDE DEF a
<1>5. a[Len(q) + 1] = x /\ \A i \in DOMAIN q : a[i] = q[i]
  BY <1>1, <1>2 DEF a
<1>6. Range(a) = Range(q) \cup {x}
  BY <1>3, <1>4, <1>5 DEF Range
<1> QED
  BY <1>1, <1>6 DEF a

LEMMA Taken == ASSUME NEW S, NEW q \in Seq(S), q # <<>>
               PROVE  /\ Tail(q) \in Seq(S) /\ Head(q) \in S /\ Head(q) = q[1]
                      /\ Len(q) \in Nat /\ Len(q) > 0 /\ Len(Tail(q)) = Len(q) - 1
                      /\ DOMAIN q = 1..Len(q) /\ DOMAIN Tail(q) = 1..Len(q) - 1
                      /\ \A i \in 1..Len(q) - 1 : Tail(q)[i] = q[i + 1]
                      /\ Range(q) = Range(Tail(q)) \cup {Head(q)}
<1> DEFINE t == Tail(q)
<1>1. /\ t \in Seq(S) /\ Head(q) \in S /\ Head(q) = q[1]
      /\ Len(q) \in Nat /\ Len(q) > 0 /\ Len(t) = Len(q) - 1
      /\ \A i \in 1..Len(q) - 1 : t[i] = q[i + 1]
  BY HeadTailProperties, EmptySeq, LenProperties
<1>2. DOMAIN q = 1..Len(q) /\ DOMAIN t = 1..Len(q) - 1
  BY <1>1, LenProperties
<1>3. \A i \in DOMAIN q : i = 1 \/ i - 1 \in DOMAIN t
  BY <1>1, <1>2
<1>4. \A i \in DOMAIN t : i + 1 \in DOMAIN q
  BY <1>1, <1>2
<1>5. \A i \in DOMAIN q : i - 1 \in DOMAIN t => t[i - 1] = q[i]
  BY <1>1, <1>2
<1>6. 1 \in DOMAIN q
  BY <1>1, <1>2
<1> HIDE DEF t
<1>7. Range(q) \subseteq Range(t) \cup {q[1]}
  BY <1>3, <1>5 DEF Range
<1>8. Range(t) \subseteq Range(q)
  BY <1>1, <1>2, <1>4 DEF Range
<1>9. q[1] \in Range(q)
  BY <1>6 DEF Range
<1> QED
  BY <1>1, <1>2, <1>7, <1>8, <1>9 DEF t

LEMMA SpillFields == ASSUME NEW sp \in Spills
                     PROVE  /\ sp.source \in Sources \cup {Engine} /\ sp.k \in Nat
                            /\ sp.stats_type \in StatsTypes \cup {"none"}
                            /\ sp.hits \in Seq(Hits)
BY DEF Spills

LEMMA NewHits == ASSUME NEW sp \in Spills, NEW q \in Seq(Hits)
                 PROVE  /\ [sp EXCEPT !.hits = q] \in Spills
                        /\ [sp EXCEPT !.hits = q].hits = q
                        /\ [sp EXCEPT !.hits = q].source = sp.source
                        /\ [sp EXCEPT !.hits = q].k = sp.k
                        /\ [sp EXCEPT !.hits = q].stats_type = sp.stats_type
BY DEF Spills

LEMMA EngineSpills == ASSUME NEW k \in Nat
                      PROVE  /\ EngineSpill(k) \in Spills /\ EngineSpill(k).hits = <<>>
                             /\ EngineSpill(k).source = Engine /\ EngineSpill(k).k = k
BY EmptySeq DEF EngineSpill, Spills

LEMMA HitFields == ASSUME NEW h \in Hits
                   PROVE  h.source \in Sources /\ h.n \in Nat /\ h.time \in Times /\ h # NoHit
BY PresorterAssumption DEF Hits, NoHit

\* A spill without hits adds none to those of others.
LEMMA HitsUnion == ASSUME NEW S, NEW sp
                   PROVE  /\ HitsIn(S \cup {sp}) = HitsIn(S) \cup Range(sp.hits)
                          /\ \A h : h \in HitsIn(S) <=> \E x \in S : h \in Range(x.hits)
BY DEF HitsIn

LEMMA NoRange == Range(<<>>) = {}
BY DEF Range

LEMMA NoElements == ASSUME NEW S, NEW q \in Seq(S), Range(q) = {}
                    PROVE  q = <<>>
<1>1. Len(q) \in Nat /\ \A i \in 1..Len(q) : q[i] \in Range(q)
  BY Elements
<1>2. 1 \notin 1..Len(q)
  BY <1>1
<1>3. Len(q) = 0
  BY <1>1, <1>2
<1> QED
  BY <1>3, Elements

-----------------------------------------------------------------------------
(* The sources: what a run thread adds to the queue                        *)

NewSpill(s, type, t) ==
  [source |-> s, k |-> enqueued[s] + 1, stats_type |-> type,
   hits |-> [i \in DOMAIN t |-> [source |-> s, n |-> hitCount[s] + i, time |-> t[i]]]]

\* Times that HitTimes() allows, of any number of hits
InTime(s, n, t) == /\ n \in Nat /\ t \in [1..n -> Times]
                   /\ \A i \in 1..n : t[i] >= clock[s]
                   /\ \A i, j \in 1..n : i <= j => t[i] <= t[j]

\* A new spill has the source's next number and its next hits.
NextOf(s, new) ==
  /\ new \in Spills /\ new.source = s /\ new.k = enqueued[s] + 1
  /\ Ordered(new)
  /\ \A h \in Range(new.hits) : /\ h \in Hits /\ h.source = s
                                /\ h.n \in hitCount[s] + 1..hitCount'[s]
                                /\ h.time >= clock[s] /\ h.time <= clock'[s]
  /\ \A m \in hitCount[s] + 1..hitCount'[s] : \E h \in Range(new.hits) : h.n = m

Counters(s) ==
  /\ enqueued' = [enqueued EXCEPT ![s] = @ + 1]
  /\ hitCount' \in [Sources -> Nat] /\ clock' \in [Sources -> Times]
  /\ hitCount'[s] >= hitCount[s] /\ clock'[s] >= clock[s]
  /\ \A r \in Sources \ {s} : hitCount'[r] = hitCount[r] /\ clock'[r] = clock[r]

SourceTypes == /\ source \in [Sources -> {"off", "running", "stopping", "stopped"}]
               /\ enqueued \in [Sources -> Nat] /\ hitCount \in [Sources -> Nat]
               /\ clock \in [Sources -> Times] /\ late \in BOOLEAN

LEMMA EnqueueIs ==
  ASSUME SourceTypes, NEW s \in Sources, NEW type \in StatsTypes, NEW n, NEW t,
         InTime(s, n, t), Enqueue(s, type, t)
  PROVE  \E new : /\ data_queue' = Append(data_queue, new)
                  /\ NextOf(s, new) /\ Counters(s)
                  /\ n = 0 => new.hits = <<>> /\ hitCount'[s] = hitCount[s] /\ clock'[s] = clock[s]
<1> DEFINE new == NewSpill(s, type, t)
           c == hitCount[s]
           hit(i) == [source |-> s, n |-> c + i, time |-> t[i]]
<1>1. n \in Nat /\ DOMAIN t = 1..n /\ (\A i \in 1..n : t[i] \in Times) /\ t \in Seq(Times)
      /\ Len(t) = n
  <2>1. t \in [1..n -> Times] /\ n \in Nat
    BY DEF InTime
  <2>2. t \in Seq(Times)
    BY <2>1, SeqDef
  <2>3. DOMAIN t = 1..Len(t) /\ Len(t) \in Nat
    BY <2>2, LenProperties
  <2>4. Len(t) = n
    BY <2>1, <2>3
  <2> QED
    BY <2>1, <2>2, <2>4
<1>2. c \in Nat /\ enqueued[s] \in Nat /\ clock[s] \in Times
  BY DEF SourceTypes
<1>3. /\ new.hits = [i \in 1..n |-> hit(i)]
      /\ new.source = s /\ new.k = enqueued[s] + 1 /\ new.stats_type = type
  BY <1>1 DEF NewSpill
<1>4. \A i \in 1..n : hit(i) \in Hits
  BY <1>1, <1>2 DEF Hits
<1>5. new.hits \in [1..n -> Hits]
  BY <1>3, <1>4
<1>6. new.hits \in Seq(Hits) /\ DOMAIN new.hits = 1..n
  BY <1>1, <1>5, SeqDef
<1>7. new \in Spills
  BY <1>2, <1>6 DEF NewSpill, Spills
<1>8. \A i \in 1..n : /\ new.hits[i].source = s /\ new.hits[i].n = c + i
                      /\ new.hits[i].time = t[i]
  BY <1>3
<1>9. Ordered(new)
  <2>1. \A i, j \in 1..n : i < j => c + i < c + j /\ t[i] <= t[j]
    BY <1>2 DEF InTime
  <2> QED
    BY <1>3, <1>6, <1>8, <2>1 DEF Ordered, Before
<1>10. /\ hitCount' = [hitCount EXCEPT ![s] = c + n]
       /\ clock' = [clock EXCEPT ![s] = IF t = <<>> THEN clock[s] ELSE t[n]]
       /\ enqueued' = [enqueued EXCEPT ![s] = @ + 1]
  BY <1>1 DEF Enqueue
<1>11. hitCount'[s] = c + n /\ clock'[s] = IF t = <<>> THEN clock[s] ELSE t[n]
  BY <1>10 DEF SourceTypes
<1>12. t = <<>> <=> n = 0
  BY <1>1, EmptySeq
<1>13. \A i \in 1..n : t[i] <= t[n] /\ clock'[s] = t[n]
  BY <1>1, <1>11, <1>12 DEF InTime
<1>14. clock'[s] >= clock[s] /\ clock'[s] \in Times
  <2>1. CASE n = 0
    BY <2>1, <1>2, <1>11, <1>12 DEF Times
  <2>2. CASE n # 0
    <3>1. n \in 1..n
      BY <1>1, <2>2
    <3>2. clock'[s] = t[n] /\ t[n] >= clock[s] /\ t[n] \in Times
      BY <1>1, <1>13, <3>1 DEF InTime
    <3> QED
      BY <3>2
  <2> QED
    BY <2>1, <2>2
<1>15. Counters(s)
  <2>1. hitCount' \in [Sources -> Nat] /\ hitCount'[s] >= hitCount[s]
    BY <1>1, <1>2, <1>10, <1>11 DEF SourceTypes
  <2>2. clock' \in [Sources -> Times]
    BY <1>10, <1>11, <1>14 DEF SourceTypes
  <2>3. \A r \in Sources \ {s} : hitCount'[r] = hitCount[r] /\ clock'[r] = clock[r]
    BY <1>10 DEF SourceTypes
  <2> QED
    BY <1>10, <1>14, <2>1, <2>2, <2>3 DEF Counters
<1>16. \A h \in Range(new.hits) : /\ h \in Hits /\ h.source = s
                                  /\ h.n \in c + 1..hitCount'[s]
                                  /\ h.time >= clock[s] /\ h.time <= clock'[s]
  <2> TAKE h \in Range(new.hits)
  <2>1. PICK i \in 1..n : h = new.hits[i]
    BY <1>6 DEF Range
  <2>2. h = hit(i) /\ h.source = s /\ h.n = c + i /\ h.time = t[i]
    BY <1>3, <1>8, <2>1
  <2>3. c + i \in c + 1..c + n
    BY <1>1, <1>2
  <2>4. t[i] >= clock[s] /\ t[i] <= clock'[s]
    BY <1>13 DEF InTime
  <2> QED
    BY <1>4, <1>11, <2>2, <2>3, <2>4
<1>17. \A m \in c + 1..hitCount'[s] : \E h \in Range(new.hits) : h.n = m
  <2> TAKE m \in c + 1..hitCount'[s]
  <2>1. m - c \in 1..n /\ c + (m - c) = m
    BY <1>1, <1>2, <1>11
  <2>2. new.hits[m - c].n = m
    BY <1>8, <2>1
  <2> QED
    BY <1>6, <2>1, <2>2 DEF Range
<1>18. NextOf(s, new)
  BY <1>3, <1>7, <1>9, <1>16, <1>17 DEF NextOf
<1>19. data_queue' = Append(data_queue, new)
  <2>1. enqueued'[s] = enqueued[s] + 1
    BY <1>10 DEF SourceTypes
  <2> QED
    BY <2>1 DEF Enqueue, NewSpill
<1>20. n = 0 => new.hits = <<>> /\ hitCount'[s] = hitCount[s] /\ clock'[s] = clock[s]
  <2> HAVE n = 0
  <2>1. Len(new.hits) = 0
    <3>1. Len(new.hits) \in Nat /\ 1..Len(new.hits) = 1..n
      BY <1>6, LenProperties
    <3>2. 1 \notin 1..n
      OBVIOUS
    <3> HIDE DEF new
    <3>3. 1 \notin 1..Len(new.hits)
      BY <3>1, <3>2
    <3> QED
      BY <3>1, <3>3
  <2>2. new.hits = <<>>
    BY <2>1, <1>6, EmptySeq
  <2> QED
    BY <2>2, <1>2, <1>11, <1>12
<1> QED
  BY <1>15, <1>18, <1>19, <1>20

\* What each run thread may do, in these terms.
Sends(s, new) ==
  /\ data_queue' = Append(data_queue, new) /\ NextOf(s, new) /\ Counters(s)
  /\ UNCHANGED <<engine, builderVars>>
  /\ \/ /\ source[s] = "off" /\ source' = [source EXCEPT ![s] = "running"]
        /\ late' = (late \/ \E r \in Sources : enqueued[r] > 1)
        /\ new.hits = <<>> /\ hitCount'[s] = hitCount[s]
     \/ /\ source[s] = "running" /\ late' = late
        /\ \E to \in {"running", "stopping", "stopped"} : source' = [source EXCEPT ![s] = to]
     \/ /\ source[s] = "stopping" /\ late' = late
        /\ source' = [source EXCEPT ![s] = "stopped"]
        /\ new.hits = <<>> /\ hitCount'[s] = hitCount[s]

LEMMA RunSends == ASSUME SourceTypes, NEW s \in Sources, Run(s)
                  PROVE  \E new : Sends(s, new)
<1>1. InTime(s, 0, <<>>)
  BY DEF InTime
<1>2. \A t \in HitTimes(s) : \E n : InTime(s, n, t)
  BY DEF HitTimes, InTime
<1>3. {"start", "running", "stop"} = StatsTypes
  BY DEF StatsTypes
<1>4. CASE SourceStart(s)
  <2>1. Enqueue(s, "start", <<>>)
    BY <1>4 DEF SourceStart
  <2>2. PICK new : /\ data_queue' = Append(data_queue, new) /\ NextOf(s, new) /\ Counters(s)
                   /\ new.hits = <<>> /\ hitCount'[s] = hitCount[s]
    BY <1>1, <1>3, <2>1, EnqueueIs
  <2>3. UNCHANGED <<engine, builderVars>>
    BY <2>1 DEF Enqueue
  <2> QED
    BY <1>4, <2>2, <2>3 DEF SourceStart, Sends
<1>5. CASE SourceData(s) \/ SourceLastData(s)
  <2>1. PICK type \in StatsTypes, t \in HitTimes(s) : Enqueue(s, type, t)
    BY <1>3, <1>5 DEF SourceData, SourceLastData
  <2>2. PICK new : data_queue' = Append(data_queue, new) /\ NextOf(s, new) /\ Counters(s)
    BY <1>2, <2>1, EnqueueIs
  <2>3. UNCHANGED <<engine, builderVars>>
    BY <2>1 DEF Enqueue
  <2>4. source[s] = "running" /\ late' = late
        /\ \E to \in {"running", "stopping", "stopped"} : source' = [source EXCEPT ![s] = to]
    BY <1>5 DEF SourceData, SourceLastData, SourceTypes
  <2> QED
    BY <2>2, <2>3, <2>4 DEF Sends
<1>6. CASE SourceStop(s)
  <2>1. Enqueue(s, "stop", <<>>)
    BY <1>6 DEF SourceStop
  <2>2. PICK new : /\ data_queue' = Append(data_queue, new) /\ NextOf(s, new) /\ Counters(s)
                   /\ new.hits = <<>> /\ hitCount'[s] = hitCount[s]
    BY <1>1, <1>3, <2>1, EnqueueIs
  <2>3. UNCHANGED <<engine, builderVars>>
    BY <2>1 DEF Enqueue
  <2> QED
    BY <1>6, <2>2, <2>3 DEF SourceStop, Sends
<1> QED
  BY <1>4, <1>5, <1>6 DEF Run

-----------------------------------------------------------------------------
(* Types                                                                   *)

BuilderTypes == /\ current_spills \in SUBSET Spills /\ queue_status \in SUBSET Sources
                /\ at_end \in BOOLEAN /\ out_hits \in Seq(Hits \cup {NoHit})
                /\ pc \in {"dequeue", "merge", "evict", "exited"} /\ delivered \in Seq(Spills)

QueueTypes == data_queue \in Seq(Spills) /\ engine \in {"acquiring", "draining", "stopped"}

LEMMA TypeParts == TypeOK <=> QueueTypes /\ BuilderTypes /\ SourceTypes
BY DEF TypeOK, QueueTypes, BuilderTypes, SourceTypes

LEMMA TypesNext == ASSUME QueueTypes', BuilderTypes', SourceTypes'
                   PROVE  TypeOK'
BY DEF TypeOK, QueueTypes, BuilderTypes, SourceTypes

\* Only a blank hit is of no channel.
LEMMA OutOfHits == ASSUME BuilderTypes, NoHit \notin Range(out_hits)
                   PROVE  out_hits \in Seq(Hits)
<1>1. out_hits \in [1..Len(out_hits) -> Hits \cup {NoHit}] /\ Len(out_hits) \in Nat
  BY LenProperties DEF BuilderTypes
<1>2. \A i \in 1..Len(out_hits) : out_hits[i] \in Hits
  BY <1>1 DEF Range
<1>3. out_hits \in [1..Len(out_hits) -> Hits]
  BY <1>1, <1>2
<1> QED
  BY <1>1, <1>3, SeqDef

LEMMA InitTypes == Init => TypeOK
<1> SUFFICES ASSUME Init PROVE QueueTypes /\ BuilderTypes /\ SourceTypes
  BY TypeParts
<1>1. EngineSpill(1) \in Spills
  BY EngineSpills
<1>2. <<EngineSpill(1)>> \in Seq(Spills)
  BY <1>1
<1>3. QueueTypes
  BY <1>2 DEF Init, QueueTypes
<1>4. BuilderTypes
  BY EmptySeq DEF Init, BuilderTypes
<1>5. SourceTypes
  <2>1. 1 \in Times
    BY PresorterAssumption DEF Times
  <2> QED
    BY <2>1 DEF Init, SourceTypes
<1> QED
  BY <1>3, <1>4, <1>5

LEMMA SendsTypes == ASSUME TypeOK, NEW s \in Sources, NEW new, Sends(s, new)
                    PROVE  TypeOK'
<1>1. QueueTypes /\ BuilderTypes /\ SourceTypes
  BY TypeParts
<1>2. data_queue' \in Seq(Spills)
  BY <1>1, Appended DEF Sends, NextOf, QueueTypes
<1>3. QueueTypes'
  BY <1>1, <1>2 DEF Sends, QueueTypes
<1>4. BuilderTypes'
  BY <1>1 DEF Sends, BuilderTypes, builderVars
<1>5. source' \in [Sources -> {"off", "running", "stopping", "stopped"}] /\ late' \in BOOLEAN
  BY <1>1 DEF Sends, SourceTypes
<1>6. enqueued' \in [Sources -> Nat] /\ hitCount' \in [Sources -> Nat] /\ clock' \in [Sources -> Times]
  BY <1>1 DEF Sends, Counters, SourceTypes
<1> QED
  BY <1>3, <1>4, <1>5, <1>6, TypesNext DEF SourceTypes

LEMMA TypesStep == TypeOK /\ ControlInv /\ [Next]_vars => TypeOK'
<1> SUFFICES ASSUME TypeOK, ControlInv, [Next]_vars PROVE TypeOK'
  OBVIOUS
<1>a. QueueTypes /\ BuilderTypes /\ SourceTypes
  BY TypeParts
<1>1. CASE DequeueSpill
  <2>1. data_queue # <<>> /\ data_queue' = Tail(data_queue)
        /\ current_spills' = current_spills \cup {Head(data_queue)}
        /\ queue_status' = queue_status \cup ({Head(data_queue).source} \ {Engine})
        /\ pc' \in {"merge", "evict"}
        /\ UNCHANGED <<engine, at_end, out_hits, delivered, sourceVars>>
    BY <1>1 DEF DequeueSpill
  <2>2. Tail(data_queue) \in Seq(Spills) /\ Head(data_queue) \in Spills
    BY <1>a, <2>1, Taken DEF QueueTypes
  <2>3. Head(data_queue).source \in Sources \cup {Engine}
    BY <2>2, SpillFields
  <2>4. BuilderTypes'
    BY <1>a, <2>1, <2>2, <2>3 DEF BuilderTypes
  <2> QED
    BY <1>a, <2>1, <2>2, <2>4, TypesNext DEF QueueTypes, SourceTypes, sourceVars
<1>2. CASE DequeueNull
  <2>1. BuilderTypes'
    BY <1>a, <1>2 DEF DequeueNull, BuilderTypes
  <2> QED
    BY <1>a, <1>2, <2>1, TypesNext DEF DequeueNull, QueueTypes, SourceTypes, sourceVars
<1>3. CASE MergeHit
  <2>1. PICK sp \in current_spills :
          /\ out_hits' = Append(out_hits, Head(sp.hits)) /\ sp.hits # <<>>
          /\ current_spills' = (current_spills \ {sp}) \cup {[sp EXCEPT !.hits = Tail(sp.hits)]}
          /\ UNCHANGED <<data_queue, engine, queue_status, at_end, pc, delivered, sourceVars>>
    BY <1>3 DEF MergeHit
  <2>2. sp \in Spills /\ sp.hits \in Seq(Hits)
    BY <1>a, SpillFields DEF BuilderTypes
  <2>3. Head(sp.hits) \in Hits /\ Tail(sp.hits) \in Seq(Hits)
    BY <2>1, <2>2, Taken
  <2>4. [sp EXCEPT !.hits = Tail(sp.hits)] \in Spills
    BY <2>2, <2>3, NewHits
  <2>5. out_hits' \in Seq(Hits \cup {NoHit})
    BY <1>a, <2>1, <2>3, Appended DEF BuilderTypes
  <2>6. BuilderTypes'
    BY <1>a, <2>1, <2>4, <2>5 DEF BuilderTypes
  <2> QED
    BY <1>a, <2>1, <2>6, TypesNext DEF QueueTypes, SourceTypes, sourceVars
<1>4. CASE MergeDone
  <2>1. out_hits' \in Seq(Hits \cup {NoHit})
    BY <1>a, <1>4, Appended DEF MergeDone, BuilderTypes
  <2>2. BuilderTypes'
    BY <1>a, <1>4, <2>1 DEF MergeDone, BuilderTypes, Goto
  <2> QED
    BY <1>a, <1>4, <2>2, TypesNext DEF MergeDone, QueueTypes, SourceTypes, sourceVars
<1>5. CASE Evict
  <2>1. PICK sp \in current_spills :
          /\ delivered' = Append(delivered, [sp EXCEPT !.hits = out_hits])
          /\ current_spills' = current_spills \ {sp}
    BY <1>5 DEF Evict
  <2>2. out_hits \in Seq(Hits)
    BY <1>a, <2>1, OutOfHits DEF ControlInv
  <2>3. [sp EXCEPT !.hits = out_hits] \in Spills
    BY <1>a, <2>2, NewHits DEF BuilderTypes
  <2>4. delivered' \in Seq(Spills)
    BY <1>a, <2>1, <2>3, Appended DEF BuilderTypes
  <2>5. out_hits' \in Seq(Hits \cup {NoHit})
    BY <1>5, EmptySeq DEF Evict
  <2>6. BuilderTypes'
    BY <1>a, <1>5, <2>1, <2>4, <2>5 DEF Evict, BuilderTypes
  <2> QED
    BY <1>a, <1>5, <2>6, TypesNext DEF Evict, QueueTypes, SourceTypes, sourceVars
<1>6. CASE EvictDone
  <2>1. out_hits' \in Seq(Hits \cup {NoHit})
    BY <1>6, EmptySeq DEF EvictDone
  <2>2. BuilderTypes'
    BY <1>a, <1>6, <2>1 DEF EvictDone, BuilderTypes, Goto
  <2> QED
    BY <1>a, <1>6, <2>2, TypesNext DEF EvictDone, QueueTypes, SourceTypes, sourceVars
<1>7. CASE EngineFinal
  <2>1. data_queue' \in Seq(Spills)
    BY <1>a, <1>7, EngineSpills, Appended DEF EngineFinal, QueueTypes
  <2> QED
    BY <1>a, <1>7, <2>1, TypesNext
       DEF EngineFinal, QueueTypes, SourceTypes, sourceVars, BuilderTypes, builderVars
<1>8. CASE EngineStop
  BY <1>a, <1>8, TypesNext
     DEF EngineStop, QueueTypes, SourceTypes, sourceVars, BuilderTypes, builderVars
<1>9. ASSUME NEW s \in Sources, Run(s) PROVE TypeOK'
  BY <1>a, <1>9, RunSends, SendsTypes
<1>10. CASE UNCHANGED vars
  BY <1>a, <1>10, TypesNext
     DEF vars, QueueTypes, SourceTypes, sourceVars, BuilderTypes, builderVars
<1> QED
  BY <1>1, <1>2, <1>3, <1>4, <1>5, <1>6, <1>7, <1>8, <1>9, <1>10 DEF Next, worker_MCA

-----------------------------------------------------------------------------
(* What each step does to the places hits can be in                        *)

Same == UNCHANGED <<current_spills, out_hits, delivered>>

LEMMA PlacesKept == /\ data_queue' = data_queue => InQueue' = InQueue
                    /\ current_spills' = current_spills => InBacklog' = InBacklog
                    /\ delivered' = delivered => InDelivered' = InDelivered
                    /\ UNCHANGED <<out_hits, delivered>> => Merged' = Merged
                    /\ Same => Dequeued' = Dequeued
BY DEF InQueue, InBacklog, InDelivered, Merged, Dequeued, Same

\* A spill is enqueued, by a source or, without hits, by the engine.
LEMMA EnqueuePlaces ==
  ASSUME TypeOK, NEW new \in Spills, data_queue' = Append(data_queue, new), Same
  PROVE  InQueue' = InQueue \cup Range(new.hits) /\ Dequeued' = Dequeued
<1>1. Range(data_queue') = Range(data_queue) \cup {new}
  BY Appended, TypeParts DEF QueueTypes
<1> QED
  BY <1>1, HitsUnion, PlacesKept DEF InQueue

LEMMA DequeuePlaces ==
  ASSUME TypeOK, DequeueSpill
  PROVE  /\ data_queue # <<>> /\ Head(data_queue) \in Spills
         /\ InQueue = InQueue' \cup Range(Head(data_queue).hits)
         /\ InBacklog' = InBacklog \cup Range(Head(data_queue).hits)
         /\ Merged' = Merged
         /\ Dequeued' = Dequeued \cup Range(Head(data_queue).hits)
<1> DEFINE d == Head(data_queue)
<1>1. /\ data_queue # <<>> /\ data_queue' = Tail(data_queue)
      /\ current_spills' = current_spills \cup {d} /\ UNCHANGED <<out_hits, delivered>>
  BY DEF DequeueSpill
<1>2. Range(data_queue) = Range(data_queue') \cup {d} /\ d \in Spills
  BY <1>1, Taken, TypeParts DEF QueueTypes
<1> HIDE DEF d
<1>3. InQueue = InQueue' \cup Range(d.hits)
  BY <1>2, HitsUnion DEF InQueue
<1>4. InBacklog' = InBacklog \cup Range(d.hits)
  BY <1>1, HitsUnion DEF InBacklog
<1>5. Merged' = Merged
  BY <1>1, PlacesKept
<1> QED
  BY <1>1, <1>2, <1>3, <1>4, <1>5 DEF d, Dequeued

\* The hit that is merged moves from the backlog to out_hits.
Merges(sp, x, rest) ==
  /\ sp \in current_spills /\ HasOldest(sp)
  /\ \A other \in current_spills : other.hits # <<>>
  /\ sp \in Spills /\ sp.hits \in Seq(Hits) /\ x \in Hits /\ x = sp.hits[1]
  /\ rest \in Spills /\ rest.hits = Tail(sp.hits) /\ rest.hits \in Seq(Hits)
  /\ rest.source = sp.source /\ rest.k = sp.k /\ rest.stats_type = sp.stats_type
  /\ current_spills' = (current_spills \ {sp}) \cup {rest}
  /\ out_hits' = Append(out_hits, x)
  /\ Range(sp.hits) = Range(rest.hits) \cup {x}
  /\ Range(out_hits') = Range(out_hits) \cup {x}
  /\ UNCHANGED <<data_queue, engine, queue_status, at_end, pc, delivered, sourceVars>>

LEMMA MergeIs == ASSUME TypeOK, MergeHit
                 PROVE  pc = "merge" /\ \E sp, x, rest : Merges(sp, x, rest)
<1>1. PICK sp \in current_spills :
        /\ HasOldest(sp) /\ out_hits' = Append(out_hits, Head(sp.hits))
        /\ current_spills' = (current_spills \ {sp}) \cup {[sp EXCEPT !.hits = Tail(sp.hits)]}
  BY DEF MergeHit
<1>2. /\ pc = "merge" /\ \A other \in current_spills : other.hits # <<>>
      /\ UNCHANGED <<data_queue, engine, queue_status, at_end, pc, delivered, sourceVars>>
  BY DEF MergeHit
<1> DEFINE x == Head(sp.hits)
           rest == [sp EXCEPT !.hits = Tail(sp.hits)]
<1>3. sp \in Spills /\ sp.hits \in Seq(Hits)
  BY TypeParts, SpillFields DEF BuilderTypes
<1>4. /\ Tail(sp.hits) \in Seq(Hits) /\ x \in Hits /\ x = sp.hits[1]
      /\ Range(sp.hits) = Range(Tail(sp.hits)) \cup {x}
  BY <1>2, <1>3, Taken
<1>5. /\ rest \in Spills /\ rest.hits = Tail(sp.hits)
      /\ rest.source = sp.source /\ rest.k = sp.k /\ rest.stats_type = sp.stats_type
  BY <1>3, <1>4, NewHits
<1>6. Range(out_hits') = Range(out_hits) \cup {x}
  BY <1>1, <1>4, TypeParts, Appended DEF BuilderTypes
<1> HIDE DEF x, rest
<1>7. Merges(sp, x, rest)
  BY <1>1, <1>2, <1>3, <1>4, <1>5, <1>6 DEF Merges, x, rest
<1> QED
  BY <1>2, <1>7

LEMMA MergePlaces ==
  ASSUME TypeOK, OnceInv, OrderInv, NEW sp, NEW x, NEW rest, Merges(sp, x, rest)
  PROVE  /\ InBacklog = InBacklog' \cup {x} /\ x \notin InBacklog'
         /\ InQueue' = InQueue /\ Merged' = Merged \cup {x} /\ x \in InBacklog
         /\ InDelivered' = InDelivered /\ Dequeued' = Dequeued
<1> DEFINE others == current_spills \ {sp}
<1>1. current_spills = others \cup {sp} /\ current_spills' = others \cup {rest}
  BY DEF Merges
<1>2. InBacklog = HitsIn(others) \cup Range(sp.hits)
  BY <1>1, HitsUnion DEF InBacklog
<1>3. InBacklog' = HitsIn(others) \cup Range(rest.hits)
  BY <1>1, HitsUnion DEF InBacklog
<1>4. InBacklog = InBacklog' \cup {x}
  BY <1>2, <1>3 DEF Merges
<1>5. x \notin HitsIn(others)
  <2>1. \A other \in others : x \notin Range(other.hits)
    BY DEF Merges, OnceInv
  <2> QED
    BY <2>1, HitsUnion
<1>6. x \notin Range(rest.hits)
  <2>1. sp.hits # <<>> /\ sp.hits \in Seq(Hits) /\ rest.hits = Tail(sp.hits) /\ x = sp.hits[1]
    BY DEF Merges
  <2>2. /\ DOMAIN rest.hits = 1..Len(sp.hits) - 1 /\ DOMAIN sp.hits = 1..Len(sp.hits)
        /\ Len(sp.hits) \in Nat
        /\ \A i \in 1..Len(sp.hits) - 1 : rest.hits[i] = sp.hits[i + 1]
    BY <2>1, Taken
  <2>3. \A i \in DOMAIN sp.hits : sp.hits[i].n \in Nat
    BY <2>1, <2>2, ElementOfSeq, HitFields
  <2>4. \A i \in DOMAIN rest.hits : rest.hits[i] # x
    <3> TAKE i \in DOMAIN rest.hits
    <3>1. i + 1 \in DOMAIN sp.hits /\ 1 \in DOMAIN sp.hits /\ 1 < i + 1
      BY <2>2
    <3>2. sp.hits[1].n < sp.hits[i + 1].n
      BY <3>1 DEF OrderInv, Ordered, Before, Merges
    <3> QED
      BY <2>1, <2>2, <2>3, <3>1, <3>2
  <2> QED
    BY <2>4 DEF Range
<1>7. x \in Range(sp.hits) /\ x # NoHit
  BY HitFields DEF Merges
<1>8. Merged' = Merged \cup {x} /\ InDelivered' = InDelivered /\ InQueue' = InQueue
  BY <1>7, PlacesKept DEF Merged, Merges
<1> QED
  BY <1>2, <1>3, <1>4, <1>5, <1>6, <1>7, <1>8 DEF Dequeued

LEMMA MergeDonePlaces ==
  ASSUME TypeOK, MergeDone
  PROVE  InQueue' = InQueue /\ InBacklog' = InBacklog /\ Merged' = Merged /\ Dequeued' = Dequeued
         /\ InDelivered' = InDelivered
<1>1. out_hits' = out_hits \/ out_hits' = Append(out_hits, NoHit)
  BY DEF MergeDone
<1>2. Range(out_hits') \ {NoHit} = Range(out_hits) \ {NoHit}
  <2>1. out_hits \in Seq(Hits \cup {NoHit}) /\ NoHit \in Hits \cup {NoHit}
    BY TypeParts DEF BuilderTypes
  <2>2. Range(Append(out_hits, NoHit)) = Range(out_hits) \cup {NoHit}
    BY <2>1, Appended
  <2> QED
    BY <1>1, <2>2
<1>3. UNCHANGED <<data_queue, current_spills, delivered>>
  BY DEF MergeDone
<1> QED
  BY <1>2, <1>3, PlacesKept DEF Merged, Dequeued

\* A spill that is evicted takes the hits merged so far along.
Evicts(sp, given) ==
  /\ pc = "evict" /\ sp \in current_spills /\ sp.hits = <<>>
  /\ given \in Spills /\ given.hits = out_hits /\ out_hits \in Seq(Hits)
  /\ given.source = sp.source /\ given.k = sp.k
  /\ delivered' = Append(delivered, given) /\ current_spills' = current_spills \ {sp}
  /\ out_hits' = <<>>
  /\ UNCHANGED <<data_queue, engine, queue_status, at_end, pc, sourceVars>>

LEMMA EvictIs == ASSUME TypeOK, ControlInv, Evict
                 PROVE  \E sp, given : Evicts(sp, given)
<1>1. PICK sp \in current_spills :
        /\ sp.hits = <<>> /\ delivered' = Append(delivered, [sp EXCEPT !.hits = out_hits])
        /\ current_spills' = current_spills \ {sp}
  BY DEF Evict
<1>2. out_hits \in Seq(Hits) /\ sp \in Spills
  BY <1>1, OutOfHits, TypeParts DEF ControlInv, BuilderTypes
<1> DEFINE given == [sp EXCEPT !.hits = out_hits]
<1>3. /\ given \in Spills /\ given.hits = out_hits
      /\ given.source = sp.source /\ given.k = sp.k
  BY <1>2, NewHits
<1>4. delivered' = Append(delivered, given)
  BY <1>1
<1> HIDE DEF given
<1>5. Evicts(sp, given)
  BY <1>1, <1>2, <1>3, <1>4 DEF Evict, Evicts
<1> QED
  BY <1>5

LEMMA EvictPlaces ==
  ASSUME TypeOK, NEW sp, NEW given, Evicts(sp, given)
  PROVE  /\ InQueue' = InQueue /\ InBacklog' = InBacklog
         /\ Merged' = Merged /\ Dequeued' = Dequeued /\ NoHit \notin Range(out_hits)
         /\ InDelivered' = InDelivered \cup Range(out_hits)
<1>1. current_spills = current_spills' \cup {sp} /\ Range(sp.hits) = {}
  BY NoRange DEF Evicts
<1>2. InBacklog' = InBacklog
  <2>1. HitsIn(current_spills' \cup {sp}) = HitsIn(current_spills') \cup Range(sp.hits)
    BY HitsUnion
  <2> QED
    BY <1>1, <2>1 DEF InBacklog
<1>3. Range(delivered') = Range(delivered) \cup {given}
  BY Appended, TypeParts DEF Evicts, BuilderTypes
<1>4. InDelivered' = InDelivered \cup Range(out_hits)
  BY <1>3, HitsUnion DEF InDelivered, Evicts
<1>5. Range(out_hits) \subseteq Hits
  BY Elements DEF Evicts
<1>6. NoHit \notin Range(out_hits)
  BY <1>5, HitFields
<1>7. Range(out_hits') = {}
  BY NoRange DEF Evicts
<1>8. Merged' = Merged
  BY <1>4, <1>6, <1>7 DEF Merged
<1> QED
  BY <1>2, <1>4, <1>6, <1>8, PlacesKept DEF Dequeued, Evicts

\* The end of a pass deletes no hit.
LEMMA EvictDonePlaces ==
  ASSUME ControlInv, EvictDone
  PROVE  InQueue' = InQueue /\ InBacklog' = InBacklog /\ Merged' = Merged /\ Dequeued' = Dequeued
         /\ InDelivered' = InDelivered
<1>1. Range(out_hits) \subseteq {NoHit}
  BY DEF ControlInv, EvictDone, Goto
<1>2. Range(out_hits') = {}
  BY NoRange DEF EvictDone
<1>3. UNCHANGED <<data_queue, current_spills, delivered>>
  BY DEF EvictDone
<1> QED
  BY <1>1, <1>2, <1>3, PlacesKept DEF Merged, Dequeued

-----------------------------------------------------------------------------
(* Each part of the invariant is kept                                      *)

LEMMA SendsControl == ASSUME TypeOK, ControlInv, NEW s \in Sources, NEW new, Sends(s, new)
                      PROVE  ControlInv'
<1> USE DEF ControlInv
<1>1. UNCHANGED <<engine, builderVars>> /\ source[s] # "stopped"
  BY DEF Sends
<1>2. ~end_queue_ /\ ~at_end /\ engine = "acquiring"
  BY <1>1 DEF end_queue_
<1>3. /\ enqueued'[s] = enqueued[s] + 1 /\ enqueued[s] \in Nat /\ source'[s] # "off"
      /\ \A r \in Sources \ {s} : enqueued'[r] = enqueued[r] /\ source'[r] = source[r]
                                  /\ hitCount'[r] = hitCount[r]
  BY TypeParts DEF Sends, Counters, SourceTypes
<1>4. hitCount'[s] > 0 => enqueued'[s] > 1
  <2>1. CASE source[s] = "off"
    <3>1. hitCount[s] = 0 /\ enqueued[s] = 0
      BY <1>3, <2>1, TypeParts DEF SourceTypes
    <3> QED
      BY <2>1, <3>1 DEF Sends
  <2>2. CASE source[s] # "off"
    BY <1>3, <2>2
  <2> QED
    BY <2>1, <2>2
<1>5. \A r \in Sources : (source'[r] = "off" <=> enqueued'[r] = 0)
                         /\ (hitCount'[r] > 0 => enqueued'[r] > 1)
  <2> TAKE r \in Sources
  <2>1. CASE r = s
    BY <1>3, <1>4, <2>1
  <2>2. CASE r # s
    BY <1>3, <2>2
  <2> QED
    BY <2>1, <2>2
<1> QED
  BY <1>1, <1>2, <1>5 DEF builderVars, end_queue_

LEMMA ControlStep == TypeOK /\ ControlInv /\ [Next]_vars => ControlInv'
<1> SUFFICES ASSUME TypeOK, ControlInv, [Next]_vars PROVE ControlInv'
  OBVIOUS
<1> USE DEF ControlInv, end_queue_
<1>1. CASE DequeueSpill
  <2>1. out_hits = <<>> /\ pc = "dequeue" /\ Range(out_hits) = {} /\ ~at_end
        /\ engine # "stopped" /\ current_spills' # {}
    BY <1>1, NoRange DEF DequeueSpill
  <2>2. pc' \in {"merge", "evict"}
        /\ UNCHANGED <<engine, at_end, out_hits, delivered, sourceVars>>
    BY <1>1 DEF DequeueSpill
  <2> QED
    BY <2>1, <2>2, NoRange DEF sourceVars
<1>2. CASE DequeueNull
  <2>1. out_hits = <<>> /\ pc = "dequeue" /\ Range(out_hits) = {}
    BY <1>2, NoRange DEF DequeueNull
  <2>2. pc' \in {"merge", "evict"} /\ at_end' = TRUE /\ engine = "stopped"
        /\ UNCHANGED <<data_queue, engine, current_spills, out_hits, delivered, sourceVars>>
    BY <1>2 DEF DequeueNull
  <2> QED
    BY <2>1, <2>2 DEF sourceVars
<1>3. CASE MergeHit
  <2>1. PICK sp, x, rest : Merges(sp, x, rest)
    BY <1>3, MergeIs
  <2>2. /\ pc = "merge" /\ pc' = "merge" /\ current_spills # {} /\ current_spills' # {}
        /\ UNCHANGED <<data_queue, engine, at_end, sourceVars>>
        /\ Range(out_hits') = Range(out_hits) \cup {x} /\ x # NoHit
    BY <1>3, <2>1, MergeIs, HitFields DEF Merges
  <2> QED
    BY <2>2 DEF sourceVars
<1>4. CASE MergeDone
  <2>1. pc = "merge" /\ pc' = "evict"
        /\ UNCHANGED <<data_queue, engine, current_spills, at_end, sourceVars>>
    BY <1>4 DEF MergeDone, Goto
  <2>2. CASE current_spills = {}
    <3>1. out_hits' = Append(out_hits, NoHit) /\ Range(out_hits) = {}
      BY <1>4, <2>1, <2>2, NoRange DEF MergeDone
    <3>2. out_hits \in Seq(Hits \cup {NoHit}) /\ NoHit \in Hits \cup {NoHit}
      BY TypeParts DEF BuilderTypes
    <3>3. Range(out_hits') = {NoHit}
      BY <3>1, <3>2, Appended
    <3> QED
      BY <2>1, <2>2, <3>3 DEF sourceVars
  <2>3. CASE current_spills # {}
    BY <1>4, <2>1, <2>3 DEF MergeDone, sourceVars
  <2> QED
    BY <2>2, <2>3
<1>5. CASE Evict
  <2>1. out_hits' = <<>> /\ Range(out_hits') = {} /\ pc = "evict" /\ pc' = "evict"
        /\ UNCHANGED <<data_queue, engine, at_end, sourceVars>>
    BY <1>5, NoRange DEF Evict
  <2> QED
    BY <2>1 DEF sourceVars
<1>6. CASE EvictDone
  <2>1. /\ pc' = "exited" => at_end /\ current_spills = {}
        /\ pc' \in {"exited", "dequeue"}
        /\ UNCHANGED <<data_queue, engine, current_spills, at_end, sourceVars>>
    BY <1>6 DEF EvictDone, Goto
  <2>2. out_hits' = <<>> /\ NoHit \notin Range(out_hits')
    BY <1>6, NoRange DEF EvictDone
  <2> QED
    BY <2>1, <2>2 DEF sourceVars
<1>7. CASE EngineFinal
  <2>1. engine' = "draining" /\ ~at_end /\ (\A s \in Sources : source[s] = "stopped")
        /\ UNCHANGED <<builderVars, sourceVars>>
    BY <1>7 DEF EngineFinal
  <2> QED
    BY <2>1 DEF sourceVars, builderVars
<1>8. CASE EngineStop
  <2>1. engine = "draining" /\ data_queue = <<>> /\ data_queue' = <<>>
        /\ UNCHANGED <<builderVars, sourceVars>>
    BY <1>8 DEF EngineStop
  <2> QED
    BY <1>8, <2>1 DEF sourceVars, builderVars, EngineStop
<1>9. ASSUME NEW s \in Sources, Run(s) PROVE ControlInv'
  BY <1>9, RunSends, SendsControl, TypeParts
<1>10. CASE UNCHANGED vars
  BY <1>10 DEF vars, builderVars, sourceVars
<1> QED
  BY <1>1, <1>2, <1>3, <1>4, <1>5, <1>6, <1>7, <1>8, <1>9, <1>10 DEF Next, worker_MCA

\* Enqueued hits come after all others of their source.
LEMMA OrderSends == ASSUME TypeOK, OrderInv, NEW s \in Sources, NEW new, Sends(s, new)
                    PROVE  OrderInv'
<1> DEFINE q == data_queue
           n == Len(q)
<1>1. /\ q' = Append(q, new) /\ NextOf(s, new) /\ Counters(s) /\ new \in Spills
      /\ UNCHANGED <<current_spills, out_hits, delivered>>
  BY DEF Sends, NextOf, builderVars
<1>2. /\ n \in Nat /\ Len(q') = n + 1 /\ q'[n + 1] = new
      /\ \A i \in 1..n : q'[i] = q[i]
  BY <1>1, Appended, TypeParts DEF QueueTypes
<1>3. InQueue' = InQueue \cup Range(new.hits) /\ Dequeued' = Dequeued
  BY <1>1, EnqueuePlaces DEF Same
<1>4. \A i \in 1..Len(q') : i \in 1..n \/ i = n + 1
  BY <1>2
<1>5. \A i \in 1..n : Range(q[i].hits) \subseteq InQueue
  BY <1>2, TypeParts, Elements, HitsUnion DEF InQueue, QueueTypes
<1>6. \A h \in InQueue \cup Dequeued : h \in Hits /\ h.n \in 1..hitCount[h.source]
                                       /\ h.time <= clock[h.source]
  BY DEF OrderInv
<1>7. /\ hitCount[s] \in Nat /\ hitCount'[s] \in Nat /\ clock[s] \in Nat /\ clock'[s] \in Nat
      /\ hitCount'[s] >= hitCount[s] /\ clock'[s] >= clock[s]
      /\ \A r \in Sources \ {s} : hitCount'[r] = hitCount[r] /\ clock'[r] = clock[r]
  BY <1>1, TypeParts DEF SourceTypes, Counters, Times
<1>8. \A h \in Range(new.hits) : /\ h \in Hits /\ h.source = s
                                 /\ h.n \in hitCount[s] + 1..hitCount'[s]
                                 /\ h.time >= clock[s] /\ h.time <= clock'[s]
  BY <1>1 DEF NextOf
<1>9. \A h \in InQueue \cup Dequeued, g \in Range(new.hits) : Before(h, g)
  <2> SUFFICES ASSUME NEW h \in InQueue \cup Dequeued, NEW g \in Range(new.hits), h.source = s
               PROVE  h.n < g.n /\ h.time <= g.time
    BY <1>8 DEF Before
  <2>1. h.n \in 1..hitCount[s] /\ h.time <= clock[s] /\ h.time \in Nat
    BY <1>6, HitFields DEF Times
  <2>2. g.n \in hitCount[s] + 1..hitCount'[s] /\ g.time >= clock[s] /\ g.time \in Nat
    BY <1>8, HitFields DEF Times
  <2> QED
    BY <1>7, <2>1, <2>2
<1>10. \A h \in InQueue' \cup Dequeued' :
         h \in Hits /\ h.n \in 1..hitCount'[h.source] /\ h.time <= clock'[h.source]
  <2> SUFFICES ASSUME NEW h \in InQueue' \cup Dequeued'
               PROVE  h \in Hits /\ h.n \in 1..hitCount'[h.source] /\ h.time <= clock'[h.source]
    OBVIOUS
  <2>1. CASE h \in Range(new.hits)
    BY <1>7, <1>8, <2>1
  <2>2. CASE h \in InQueue \cup Dequeued
    <3>1. h \in Hits /\ h.source \in Sources /\ h.time \in Nat
      BY <1>6, <2>2, HitFields DEF Times
    <3>2. CASE h.source = s
      <4>1. h.n \in 1..hitCount[s] /\ h.time <= clock[s]
        BY <1>6, <2>2, <3>2
      <4> QED
        BY <1>7, <3>1, <3>2, <4>1
    <3>3. CASE h.source # s
      BY <1>6, <1>7, <2>2, <3>1, <3>3
    <3> QED
      BY <3>2, <3>3
  <2> QED
    BY <1>3, <2>1, <2>2
<1>11. \A i \in 1..Len(q') : Ordered(q'[i])
  BY <1>1, <1>2, <1>4 DEF OrderInv, NextOf
<1>12. \A i, j \in 1..Len(q') : i < j =>
         \A h \in Range(q'[i].hits), g \in Range(q'[j].hits) : Before(h, g)
  <2> SUFFICES ASSUME NEW i \in 1..Len(q'), NEW j \in 1..Len(q'), i < j,
                      NEW h \in Range(q'[i].hits), NEW g \in Range(q'[j].hits)
               PROVE  Before(h, g)
    OBVIOUS
  <2>1. i \in 1..n
    BY <1>2
  <2>2. CASE j \in 1..n
    BY <1>2, <2>1, <2>2 DEF OrderInv
  <2>3. CASE j = n + 1
    BY <1>2, <1>5, <1>9, <2>1, <2>3
  <2> QED
    BY <1>4, <2>2, <2>3
<1>13. \A h \in Dequeued', g \in InQueue' : Before(h, g)
  BY <1>3, <1>9 DEF OrderInv
<1>14. \A sp \in current_spills' : Ordered(sp)
  BY <1>1 DEF OrderInv
<1> QED
  BY <1>10, <1>11, <1>12, <1>13, <1>14 DEF OrderInv

\* The steps that move no hit and no spill.
Still == /\ UNCHANGED <<data_queue, current_spills, delivered, sourceVars>>
         /\ InQueue' = InQueue /\ InBacklog' = InBacklog /\ InDelivered' = InDelivered
         /\ Merged' = Merged /\ Dequeued' = Dequeued

LEMMA StillSteps ==
  ASSUME TypeOK, ControlInv,
         DequeueNull \/ MergeDone \/ EvictDone \/ EngineStop \/ UNCHANGED vars
  PROVE  Still
<1>1. CASE DequeueNull \/ EngineStop \/ UNCHANGED vars
  <2>1. UNCHANGED <<data_queue, current_spills, out_hits, delivered, sourceVars>>
    BY <1>1 DEF DequeueNull, EngineStop, vars, builderVars
  <2> QED
    BY <2>1, PlacesKept DEF Still, Same
<1>2. CASE MergeDone
  BY <1>2, MergeDonePlaces DEF MergeDone, Still
<1>3. CASE EvictDone
  BY <1>3, EvictDonePlaces DEF EvictDone, Still
<1> QED
  BY <1>1, <1>2, <1>3

LEMMA OrderStep == TypeOK /\ ControlInv /\ OrderInv /\ OnceInv /\ [Next]_vars => OrderInv'
<1> SUFFICES ASSUME TypeOK, ControlInv, OrderInv, OnceInv, [Next]_vars PROVE OrderInv'
  OBVIOUS
<1>1. CASE DequeueSpill
  <2> DEFINE q == data_queue
             d == Head(data_queue)
  <2>1. /\ d \in Spills /\ InQueue = InQueue' \cup Range(d.hits)
        /\ Dequeued' = Dequeued \cup Range(d.hits)
    BY <1>1, DequeuePlaces
  <2>2. /\ q # <<>> /\ q' = Tail(q) /\ current_spills' = current_spills \cup {d}
        /\ UNCHANGED <<hitCount, clock>>
    BY <1>1 DEF DequeueSpill, sourceVars
  <2>3. /\ Tail(q) \in Seq(Spills) /\ d = q[1] /\ Len(q) \in Nat /\ Len(q) > 0
        /\ Len(Tail(q)) = Len(q) - 1 /\ \A i \in 1..Len(q) - 1 : Tail(q)[i] = q[i + 1]
    BY <2>2, TypeParts, Taken DEF QueueTypes
  <2>4. \A i \in 1..Len(q') : i + 1 \in 1..Len(q) /\ 1 < i + 1 /\ q'[i] = q[i + 1]
    BY <2>2, <2>3
  <2>5. 1 \in 1..Len(q) /\ \A i \in 1..Len(q') : i \in Nat
    BY <2>3
  <2>6. \A h \in Range(d.hits), g \in InQueue' : Before(h, g)
    <3> TAKE h \in Range(d.hits), g \in InQueue'
    <3>1. PICK sp \in Range(q') : g \in Range(sp.hits)
      BY HitsUnion DEF InQueue
    <3>2. PICK i \in 1..Len(q') : q'[i] = sp
      <4>1. q' \in Seq(Spills)
        BY <2>2, <2>3
      <4> HIDE DEF q
      <4> QED
        BY <3>1, <4>1, Elements
    <3> QED
      BY <2>3, <2>4, <2>5, <3>1, <3>2 DEF OrderInv
  <2>7. \A i \in 1..Len(q') : Ordered(q'[i])
    BY <2>4 DEF OrderInv
  <2>8. \A sp \in current_spills' : Ordered(sp)
    BY <2>2, <2>3, <2>5 DEF OrderInv
  <2>9. \A i, j \in 1..Len(q') : i < j =>
          \A h \in Range(q'[i].hits), g \in Range(q'[j].hits) : Before(h, g)
    <3> TAKE i, j \in 1..Len(q')
    <3> HAVE i < j
    <3>1. i + 1 < j + 1
      BY <2>5
    <3> QED
      BY <2>4, <3>1 DEF OrderInv
  <2>10. \A h \in Dequeued', g \in InQueue' : Before(h, g)
    BY <2>1, <2>6 DEF OrderInv
  <2>11. InQueue' \cup Dequeued' = InQueue \cup Dequeued
    BY <2>1
  <2> QED
    BY <2>2, <2>7, <2>8, <2>9, <2>10, <2>11 DEF OrderInv
<1>2. CASE MergeHit
  <2>1. PICK sp, x, rest : Merges(sp, x, rest)
    BY <1>2, MergeIs
  <2>2. InQueue' = InQueue /\ Dequeued' = Dequeued
    BY <2>1, MergePlaces
  <2>3. Ordered(rest)
    <3>1. /\ Ordered(sp) /\ rest.source = sp.source /\ rest.hits = Tail(sp.hits)
          /\ sp.hits \in Seq(Hits) /\ sp.hits # <<>>
      BY <2>1 DEF Merges, OrderInv
    <3>2. /\ DOMAIN rest.hits = 1..Len(sp.hits) - 1 /\ DOMAIN sp.hits = 1..Len(sp.hits)
          /\ Len(sp.hits) \in Nat /\ \A i \in 1..Len(sp.hits) - 1 : rest.hits[i] = sp.hits[i + 1]
      BY <3>1, Taken
    <3>3. \A i \in DOMAIN rest.hits : i \in Nat /\ i + 1 \in DOMAIN sp.hits
                                      /\ rest.hits[i] = sp.hits[i + 1]
      BY <3>2
    <3>4. \A i, j \in DOMAIN rest.hits : i < j => i + 1 < j + 1
      BY <3>3
    <3> QED
      BY <3>1, <3>3, <3>4 DEF Ordered
  <2>4. /\ UNCHANGED <<data_queue, hitCount, clock>>
        /\ \A other \in current_spills' : other \in current_spills \/ other = rest
    BY <2>1 DEF Merges, sourceVars
  <2> QED
    BY <2>2, <2>3, <2>4 DEF OrderInv
<1>3. CASE Evict
  <2>1. PICK sp, given : Evicts(sp, given)
    BY <1>3, EvictIs
  <2>2. InQueue' = InQueue /\ Dequeued' = Dequeued
    BY <2>1, EvictPlaces
  <2>3. UNCHANGED <<data_queue, hitCount, clock>> /\ current_spills' \subseteq current_spills
    BY <2>1 DEF Evicts, sourceVars
  <2> QED
    BY <2>2, <2>3 DEF OrderInv
<1>4. CASE EngineFinal
  <2> DEFINE q == data_queue
             e == EngineSpill(2)
  <2>1. /\ q' = Append(q, e) /\ e \in Spills /\ e.hits = <<>> /\ Range(e.hits) = {}
        /\ UNCHANGED <<current_spills, out_hits, delivered, hitCount, clock>>
    BY <1>4, EngineSpills, NoRange DEF EngineFinal, builderVars, sourceVars
  <2>2. InQueue' = InQueue /\ Dequeued' = Dequeued
    BY <2>1, EnqueuePlaces DEF Same
  <2>3. Len(q) \in Nat /\ Len(q') = Len(q) + 1 /\ q'[Len(q) + 1] = e
        /\ \A i \in 1..Len(q) : q'[i] = q[i]
    BY <2>1, Appended, TypeParts DEF QueueTypes
  <2>4. \A i \in 1..Len(q') : (i \in 1..Len(q) /\ q'[i] = q[i]) \/ q'[i] = e
    BY <2>3
  <2>5. Ordered(e)
    BY <2>1 DEF Ordered
  <2> HIDE DEF e, q
  <2>6. \A i \in 1..Len(q') : Ordered(q'[i])
    BY <2>4, <2>5 DEF OrderInv, q
  <2>7. \A i, j \in 1..Len(q') : i < j =>
          \A h \in Range(q'[i].hits), g \in Range(q'[j].hits) : Before(h, g)
    BY <2>1, <2>4 DEF OrderInv, q
  <2> QED
    BY <2>1, <2>2, <2>6, <2>7 DEF OrderInv, q
<1>5. CASE DequeueNull \/ MergeDone \/ EvictDone \/ EngineStop \/ UNCHANGED vars
  BY <1>5, StillSteps DEF Still, OrderInv, sourceVars
<1>6. ASSUME NEW s \in Sources, Run(s) PROVE OrderInv'
  BY <1>6, RunSends, OrderSends, TypeParts
<1> QED
  BY <1>1, <1>2, <1>3, <1>4, <1>5, <1>6 DEF Next, worker_MCA

LEMMA BeforeIsOther == ASSUME NEW h \in Hits, NEW g \in Hits, Before(h, g)
                       PROVE  h # g
BY HitFields DEF Before

\* Two delivered hits were delivered before, or are the older one of them and
\* one of out_hits, or are both of out_hits.
LEMMA DeliveredPairs ==
  ASSUME TypeOK, NEW sp, NEW given, Evicts(sp, given),
         NEW i \in DOMAIN delivered', NEW j \in DOMAIN delivered',
         NEW k \in DOMAIN delivered'[i].hits, NEW l \in DOMAIN delivered'[j].hits,
         i < j \/ (i = j /\ k < l)
  PROVE  \/ /\ i \in DOMAIN delivered /\ j \in DOMAIN delivered
            /\ delivered'[i] = delivered[i] /\ delivered'[j] = delivered[j]
         \/ delivered'[i].hits[k] \in InDelivered /\ delivered'[j].hits[l] \in Range(out_hits)
         \/ /\ k \in DOMAIN out_hits /\ l \in DOMAIN out_hits /\ k < l
            /\ delivered'[i].hits[k] = out_hits[k] /\ delivered'[j].hits[l] = out_hits[l]
<1> DEFINE n == Len(delivered)
<1>1. /\ n \in Nat /\ Len(delivered') = n + 1 /\ delivered'[n + 1] = given
      /\ DOMAIN delivered' = 1..n + 1 /\ DOMAIN delivered = 1..n
      /\ \A h \in 1..n : delivered'[h] = delivered[h]
  <2>1. delivered \in Seq(Spills) /\ given \in Spills /\ delivered' = Append(delivered, given)
    BY TypeParts DEF Evicts, BuilderTypes
  <2>2. delivered' \in Seq(Spills) /\ Len(delivered') = n + 1 /\ n \in Nat
    BY <2>1, Appended
  <2> QED
    BY <2>1, <2>2, Appended, Elements
<1>2. given.hits = out_hits
  BY DEF Evicts
<1> HIDE DEF n
<1>3. CASE j \in 1..n
  <2>1. i \in 1..n
    BY <1>1, <1>3
  <2> QED
    BY <1>1, <1>3, <2>1
<1>4. CASE j = n + 1 /\ i = n + 1
  <2>1. k < l
    BY <1>1, <1>4
  <2> QED
    BY <1>1, <1>2, <1>4, <2>1
<1>5. CASE j = n + 1 /\ i \in 1..n
  <2>1. delivered[i] \in Range(delivered) /\ delivered'[i] = delivered[i]
    BY <1>1, <1>5 DEF Range
  <2>2. delivered'[i].hits[k] \in Range(delivered[i].hits)
    BY <2>1 DEF Range
  <2>3. delivered'[i].hits[k] \in InDelivered
    BY <2>1, <2>2, HitsUnion DEF InDelivered
  <2>4. delivered'[j].hits = out_hits
    BY <1>1, <1>2, <1>5
  <2> QED
    BY <2>3, <2>4 DEF Range
<1>6. (i \in 1..n \/ i = n + 1) /\ (j \in 1..n \/ j = n + 1)
  BY <1>1
<1>7. ~(i = n + 1 /\ j \in 1..n)
  BY <1>1
<1> QED
  BY <1>3, <1>4, <1>5, <1>6, <1>7

\* A blank hit is never merged after others.
LEMMA MergeDoneHits ==
  ASSUME TypeOK, ControlInv, MergeDone
  PROVE  out_hits' = out_hits \/ (DOMAIN out_hits' = 1..1 /\ Range(out_hits') = {NoHit})
<1>1. CASE current_spills # {}
  BY <1>1 DEF MergeDone
<1>2. CASE current_spills = {}
  <2>1. out_hits = <<>> /\ out_hits' = Append(out_hits, NoHit)
    BY <1>2 DEF MergeDone, ControlInv, Goto
  <2>2. out_hits' = Append(out_hits, NoHit)
    BY <2>1
  <2>3. out_hits \in Seq(Hits \cup {NoHit}) /\ NoHit \in Hits \cup {NoHit}
    BY TypeParts DEF BuilderTypes
  <2>4. Len(out_hits) = 0 /\ Range(out_hits) = {}
    BY <2>1, <2>3, Elements, NoRange
  <2>5. /\ Range(out_hits') = Range(out_hits) \cup {NoHit} /\ Len(out_hits') = Len(out_hits) + 1
        /\ out_hits' \in Seq(Hits \cup {NoHit})
    BY <2>2, <2>3, Appended
  <2>6. Len(out_hits') = 1 /\ Range(out_hits') = {NoHit}
    BY <2>4, <2>5
  <2> QED
    BY <2>5, <2>6, Elements
<1> QED
  BY <1>1, <1>2

LEMMA OnceStep == TypeOK /\ ControlInv /\ OrderInv /\ OnceInv /\ [Next]_vars => OnceInv'
<1> SUFFICES ASSUME TypeOK, ControlInv, OrderInv, OnceInv, [Next]_vars PROVE OnceInv'
  OBVIOUS
<1>1. CASE DequeueSpill
  <2> DEFINE d == Head(data_queue)
  <2>1. /\ d \in Spills /\ InQueue = InQueue' \cup Range(d.hits)
        /\ InBacklog' = InBacklog \cup Range(d.hits)
        /\ Merged' = Merged
    BY <1>1, DequeuePlaces
  <2>2. current_spills' = current_spills \cup {d} /\ UNCHANGED <<out_hits, delivered>>
    BY <1>1 DEF DequeueSpill
  <2> HIDE DEF d
  <2>3. Dequeued \cap Range(d.hits) = {}
    BY <2>1, BeforeIsOther DEF OrderInv
  <2>4. \A sp \in current_spills : Range(sp.hits) \subseteq Dequeued
    BY HitsUnion DEF Dequeued, InBacklog
  <2>5. \A sp, other \in current_spills' :
          sp # other => Range(sp.hits) \cap Range(other.hits) = {}
    BY <2>2, <2>3, <2>4 DEF OnceInv
  <2>6. InBacklog' \cap Merged' = {}
    BY <2>1, <2>3 DEF OnceInv, Dequeued
  <2>7. InDelivered' = InDelivered
    BY <2>2, PlacesKept
  <2> QED
    BY <2>2, <2>5, <2>6, <2>7 DEF OnceInv
<1>2. CASE MergeHit
  <2>1. PICK sp, x, rest : Merges(sp, x, rest)
    BY <1>2, MergeIs
  <2>2. /\ InBacklog = InBacklog' \cup {x} /\ x \notin InBacklog' /\ x \in InBacklog
        /\ Merged' = Merged \cup {x} /\ InDelivered' = InDelivered
    BY <2>1, MergePlaces
  <2>3. x \notin Merged /\ x # NoHit
    BY <2>1, <2>2, HitFields DEF OnceInv, Merges
  <2>4. x \notin Range(out_hits) /\ x \notin InDelivered
    BY <2>3 DEF Merged
  <2>5. \A a, b \in current_spills' : a # b => Range(a.hits) \cap Range(b.hits) = {}
    <3>1. Range(rest.hits) \subseteq Range(sp.hits)
      BY <2>1 DEF Merges
    <3>2. \A a \in current_spills' : (a \in current_spills /\ a # sp) \/ a = rest
      BY <2>1 DEF Merges
    <3>3. sp \in current_spills
      BY <2>1 DEF Merges
    <3> QED
      BY <3>1, <3>2, <3>3 DEF OnceInv
  <2>6. InBacklog' \cap Merged' = {}
    BY <2>2 DEF OnceInv
  <2>7. InDelivered' \cap Range(out_hits') = {}
    BY <2>1, <2>2, <2>4 DEF OnceInv, Merges
  <2>8. \A k, l \in DOMAIN out_hits' : k < l => out_hits'[k] # out_hits'[l]
    <3> DEFINE n == Len(out_hits)
    <3>1. /\ out_hits' = Append(out_hits, x) /\ x \in Hits \cup {NoHit}
          /\ out_hits \in Seq(Hits \cup {NoHit})
      BY <2>1, TypeParts DEF Merges, BuilderTypes
    <3>2. /\ n \in Nat /\ Len(out_hits') = n + 1 /\ out_hits'[n + 1] = x
          /\ DOMAIN out_hits' = 1..n + 1 /\ DOMAIN out_hits = 1..n
          /\ \A i \in 1..n : out_hits'[i] = out_hits[i]
      BY <3>1, Appended, Elements
    <3>3. \A l \in DOMAIN out_hits' : l \in 1..n \/ l = n + 1
      BY <3>2
    <3>4. \A k, l \in DOMAIN out_hits' : k < l => k \in 1..n
      BY <3>2
    <3>5. \A k \in 1..n : out_hits[k] # x
      BY <2>4, <3>2 DEF Range
    <3> QED
      BY <3>2, <3>3, <3>4, <3>5 DEF OnceInv
  <2>9. delivered' = delivered
    BY <2>1 DEF Merges
  <2> QED
    BY <2>5, <2>6, <2>7, <2>8, <2>9 DEF OnceInv
<1>3. CASE MergeDone
  <2>1. Still /\ UNCHANGED <<current_spills, delivered>>
    BY <1>3, StillSteps DEF Still
  <2>2. /\ InDelivered' \cap Range(out_hits') = {}
        /\ \A k, l \in DOMAIN out_hits' : k < l => out_hits'[k] # out_hits'[l]
    <3>1. CASE out_hits' = out_hits
      BY <2>1, <3>1 DEF OnceInv, Still
    <3>2. CASE DOMAIN out_hits' = 1..1 /\ Range(out_hits') = {NoHit}
      <4>1. NoHit \notin InDelivered
        BY HitFields DEF OrderInv, Dequeued, Merged
      <4> QED
        BY <2>1, <3>2, <4>1 DEF Still
    <3> QED
      BY <1>3, <3>1, <3>2, MergeDoneHits
  <2> QED
    BY <2>1, <2>2 DEF OnceInv, Still
<1>4. CASE Evict
  <2>1. PICK sp, given : Evicts(sp, given)
    BY <1>4, EvictIs
  <2>2. /\ InBacklog' = InBacklog /\ Merged' = Merged /\ NoHit \notin Range(out_hits)
        /\ InDelivered' = InDelivered \cup Range(out_hits)
    BY <2>1, EvictPlaces
  <2>3. out_hits' = <<>> /\ Range(out_hits') = {} /\ DOMAIN out_hits' = {}
        /\ current_spills' \subseteq current_spills
    BY <2>1, NoRange DEF Evicts
  <2>7. \A i, j \in DOMAIN delivered' :
          \A k \in DOMAIN delivered'[i].hits, l \in DOMAIN delivered'[j].hits :
            i < j \/ (i = j /\ k < l) => delivered'[i].hits[k] # delivered'[j].hits[l]
    <3> SUFFICES ASSUME NEW i \in DOMAIN delivered', NEW j \in DOMAIN delivered',
                        NEW k \in DOMAIN delivered'[i].hits, NEW l \in DOMAIN delivered'[j].hits,
                        i < j \/ (i = j /\ k < l)
                 PROVE  delivered'[i].hits[k] # delivered'[j].hits[l]
      OBVIOUS
    <3>1. \/ /\ i \in DOMAIN delivered /\ j \in DOMAIN delivered
             /\ delivered'[i] = delivered[i] /\ delivered'[j] = delivered[j]
          \/ delivered'[i].hits[k] \in InDelivered /\ delivered'[j].hits[l] \in Range(out_hits)
          \/ /\ k \in DOMAIN out_hits /\ l \in DOMAIN out_hits /\ k < l
             /\ delivered'[i].hits[k] = out_hits[k] /\ delivered'[j].hits[l] = out_hits[l]
      BY <2>1, DeliveredPairs
    <3> QED
      BY <3>1 DEF OnceInv
  <2> QED
    BY <2>2, <2>3, <2>7 DEF OnceInv
<1>5. CASE EvictDone
  <2>1. Still /\ out_hits' = <<>> /\ Range(out_hits') = {} /\ DOMAIN out_hits' = {}
    BY <1>5, StillSteps, NoRange DEF EvictDone
  <2>2. UNCHANGED <<current_spills, delivered>> /\ InBacklog' = InBacklog /\ Merged' = Merged
    BY <2>1 DEF Still
  <2> QED
    BY <2>1, <2>2, SMTT(30) DEF OnceInv
<1>6. CASE DequeueNull \/ EngineStop \/ EngineFinal \/ UNCHANGED vars
           \/ \E s \in Sources : Run(s)
  <2>1. UNCHANGED <<current_spills, out_hits, delivered>>
    <3>1. CASE \E s \in Sources : Run(s)
      BY <3>1, RunSends, TypeParts DEF Sends, builderVars
    <3> QED
      BY <1>6, <3>1 DEF DequeueNull, EngineStop, EngineFinal, vars, builderVars
  <2> QED
    BY <2>1, PlacesKept DEF OnceInv
<1> QED
  BY <1>1, <1>2, <1>3, <1>4, <1>5, <1>6 DEF Next, worker_MCA

LEMMA CoverStep == TypeOK /\ ControlInv /\ OrderInv /\ OnceInv /\ CoverInv /\ [Next]_vars => CoverInv'
<1> SUFFICES ASSUME TypeOK, ControlInv, OrderInv, OnceInv, CoverInv, [Next]_vars PROVE CoverInv'
  OBVIOUS
<1> DEFINE all == InQueue \cup Dequeued
<1>1. ASSUME all' = all, hitCount' = hitCount PROVE CoverInv'
  BY <1>1 DEF CoverInv
<1>2. CASE DequeueSpill
  BY <1>1, <1>2, DequeuePlaces DEF DequeueSpill, sourceVars, Dequeued
<1>3. CASE MergeHit
  <2>1. PICK sp, x, rest : Merges(sp, x, rest)
    BY <1>3, MergeIs
  <2> QED
    BY <1>1, <2>1, MergePlaces DEF Merges, sourceVars
<1>4. CASE Evict
  <2>1. PICK sp, given : Evicts(sp, given)
    BY <1>4, EvictIs
  <2> QED
    BY <1>1, <2>1, EvictPlaces DEF Evicts, sourceVars
<1>5. CASE DequeueNull \/ MergeDone \/ EvictDone \/ EngineStop \/ UNCHANGED vars
  BY <1>1, <1>5, StillSteps DEF Still, sourceVars
<1>6. CASE EngineFinal
  <2>1. /\ EngineSpill(2) \in Spills /\ Range(EngineSpill(2).hits) = {}
        /\ data_queue' = Append(data_queue, EngineSpill(2)) /\ Same /\ hitCount' = hitCount
    BY <1>6, EngineSpills, NoRange DEF EngineFinal, builderVars, sourceVars, Same
  <2> QED
    BY <1>1, <2>1, EnqueuePlaces
<1>7. ASSUME NEW s \in Sources, Run(s) PROVE CoverInv'
  <2>1. PICK new : Sends(s, new)
    BY <1>7, RunSends, TypeParts
  <2>2. /\ new \in Spills /\ data_queue' = Append(data_queue, new) /\ Same
        /\ NextOf(s, new) /\ Counters(s)
    BY <2>1 DEF Sends, NextOf, Same, builderVars
  <2>3. all' = all \cup Range(new.hits)
    BY <2>2, EnqueuePlaces
  <2> HIDE DEF all
  <2>4. SUFFICES ASSUME NEW r \in Sources, NEW n \in 1..hitCount'[r]
                 PROVE  \E h \in all' : h.source = r /\ h.n = n
    BY DEF CoverInv, all
  <2>5. CASE n \in 1..hitCount[r]
    BY <2>3, <2>5 DEF CoverInv, all
  <2>6. CASE n \notin 1..hitCount[r]
    <3>1. r = s /\ n \in hitCount[s] + 1..hitCount'[s]
      BY <2>2, <2>6, TypeParts DEF Counters, SourceTypes
    <3> QED
      BY <2>2, <2>3, <3>1 DEF NextOf
  <2> QED
    BY <2>5, <2>6
<1> QED
  BY <1>2, <1>3, <1>4, <1>5, <1>6, <1>7 DEF Next, worker_MCA

\* The spills that were ever enqueued, and the one that now is.
AllSpills == Range(data_queue) \cup current_spills \cup Range(delivered)

Joins(new) ==
  /\ data_queue' = Append(data_queue, new) /\ new \in Spills /\ Same
  /\ new.k = Count(new.source) + 1
  /\ \A s \in Sources \cup {Engine} :
       Count(s)' = IF s = new.source THEN Count(s) + 1 ELSE Count(s)
  /\ \A s \in Sources : enqueued'[s] = Count(s)'

LEMMA Counts == ASSUME TypeOK
                PROVE  /\ \A s \in Sources \cup {Engine} : Count(s) \in Nat
                       /\ \A s \in Sources : Count(s) = enqueued[s]
                       /\ Count(Engine) = IF engine = "acquiring" THEN 1 ELSE 2
BY TypeParts, PresorterAssumption DEF Count, SourceTypes

LEMMA Joined == ASSUME TypeOK, SpillInv, NEW new, Joins(new)
                PROVE  SpillInv'
<1> DEFINE n == Len(data_queue)
<1>1. /\ n \in Nat /\ Len(data_queue') = n + 1 /\ data_queue'[n + 1] = new
      /\ \A i \in 1..n : data_queue'[i] = data_queue[i] /\ data_queue[i] \in Range(data_queue)
      /\ Range(data_queue') = Range(data_queue) \cup {new}
  <2>1. data_queue \in Seq(Spills) /\ new \in Spills
    BY TypeParts DEF QueueTypes, Joins
  <2>2. \A i \in 1..n : data_queue[i] \in Range(data_queue)
    BY <2>1, Elements
  <2> QED
    BY <2>1, <2>2, Appended DEF Joins
<1>2. AllSpills' = AllSpills \cup {new}
  BY <1>1 DEF AllSpills, Joins, Same
<1> HIDE DEF n
<1>3. AllSpills \subseteq Spills /\ new \in Spills
  BY TypeParts, Elements DEF AllSpills, QueueTypes, BuilderTypes, Joins
<1>4. \A sp \in AllSpills : Earlier(sp, new) /\ sp.source \in Sources \cup {Engine}
  <2> TAKE sp \in AllSpills
  <2>1. sp.k \in 1..Count(sp.source) /\ sp.source \in Sources \cup {Engine}
    BY <1>3, SpillFields DEF SpillInv, AllSpills
  <2>2. Count(sp.source) \in Nat
    BY <2>1, Counts
  <2> QED
    BY <2>1, <2>2 DEF Earlier, Joins
<1>5. \A i, j \in 1..Len(data_queue') : i < j => Earlier(data_queue'[i], data_queue'[j])
  <2> SUFFICES ASSUME NEW i \in 1..n + 1, NEW j \in 1..n + 1, i < j
               PROVE  Earlier(data_queue'[i], data_queue'[j])
    BY <1>1
  <2>1. i \in 1..n
    BY <1>1
  <2>2. CASE j \in 1..n
    BY <1>1, <2>1, <2>2 DEF SpillInv, n
  <2>3. CASE j = n + 1
    BY <1>1, <1>4, <2>1, <2>3 DEF AllSpills
  <2> QED
    BY <1>1, <2>2, <2>3
<1>6. \A sp \in current_spills, j \in 1..Len(data_queue') : Earlier(sp, data_queue'[j])
  <2> SUFFICES ASSUME NEW sp \in current_spills, NEW j \in 1..n + 1
               PROVE  Earlier(sp, data_queue'[j])
    BY <1>1
  <2>1. CASE j \in 1..n
    BY <1>1, <2>1 DEF SpillInv, n
  <2>2. CASE j = n + 1
    BY <1>1, <1>4, <2>2 DEF AllSpills
  <2> QED
    BY <1>1, <2>1, <2>2
<1>7. \A sp \in AllSpills' : sp.k \in 1..Count(sp.source)'
  <2> TAKE sp \in AllSpills'
  <2>1. CASE sp \in AllSpills
    <3>1. sp.k \in 1..Count(sp.source) /\ sp.source \in Sources \cup {Engine}
      BY <1>4, <2>1 DEF SpillInv, AllSpills
    <3>2. Count(sp.source) \in Nat /\ (Count(sp.source)' = Count(sp.source) \/ Count(sp.source)' = Count(sp.source) + 1)
      BY <3>1, Counts DEF Joins
    <3> QED
      BY <3>1, <3>2
  <2>2. CASE sp = new
    <3>1. new.source \in Sources \cup {Engine}
      BY <1>3, SpillFields
    <3>2. Count(new.source) \in Nat /\ Count(new.source)' = Count(new.source) + 1
      BY <3>1, Counts DEF Joins
    <3>3. new.k = Count(new.source) + 1
      BY DEF Joins
    <3> QED
      BY <2>2, <3>2, <3>3
  <2> QED
    BY <1>2, <2>1, <2>2
<1>8. \A s \in Sources : \A k \in 1..enqueued'[s] : \E sp \in AllSpills' : sp.source = s /\ sp.k = k
  <2> TAKE s \in Sources
  <2> TAKE k \in 1..enqueued'[s]
  <2>1. CASE k \in 1..enqueued[s]
    BY <1>2, <2>1 DEF SpillInv, AllSpills
  <2>2. CASE k \notin 1..enqueued[s]
    <3>1. Count(s) \in Nat /\ Count(s) = enqueued[s]
      BY Counts
    <3>2. enqueued'[s] = IF s = new.source THEN enqueued[s] + 1 ELSE enqueued[s]
      BY <3>1 DEF Joins
    <3>3. s = new.source /\ k = enqueued[s] + 1
      BY <2>2, <3>1, <3>2
    <3>4. new.k = Count(new.source) + 1
      BY DEF Joins
    <3> QED
      BY <1>2, <3>1, <3>3, <3>4
  <2> QED
    BY <2>1, <2>2
<1>9. current_spills' = current_spills
  BY DEF Joins, Same
<1> QED
  BY <1>5, <1>6, <1>7, <1>8, <1>9 DEF SpillInv, AllSpills

\* What a source or the engine enqueues joins the spills with the next number.
LEMMA SendsJoin == ASSUME TypeOK, NEW s \in Sources, NEW new, Sends(s, new)
                   PROVE  Joins(new)
<1>1. /\ data_queue' = Append(data_queue, new) /\ new \in Spills /\ Same /\ engine' = engine
      /\ new.source = s /\ new.k = enqueued[s] + 1
      /\ enqueued' = [enqueued EXCEPT ![s] = @ + 1]
  BY DEF Sends, NextOf, Counters, Same, builderVars
<1>2. \A r \in Sources : enqueued'[r] = IF r = s THEN enqueued[r] + 1 ELSE enqueued[r]
  BY <1>1, TypeParts DEF SourceTypes
<1>3. \A r \in Sources : Count(r) = enqueued[r] /\ Count(r)' = enqueued'[r]
  BY PresorterAssumption DEF Count
<1>4. Count(Engine)' = Count(Engine) /\ Engine # s
  BY <1>1, PresorterAssumption DEF Count
<1> QED
  BY <1>1, <1>2, <1>3, <1>4 DEF Joins

LEMMA FinalJoins == ASSUME TypeOK, EngineFinal
                    PROVE  Joins(EngineSpill(2))
<1> DEFINE e == EngineSpill(2)
<1>1. /\ data_queue' = Append(data_queue, e) /\ e \in Spills /\ Same
      /\ e.source = Engine /\ e.k = 2 /\ enqueued' = enqueued
      /\ engine = "acquiring" /\ engine' = "draining"
  BY EngineSpills DEF EngineFinal, Same, builderVars, sourceVars
<1> HIDE DEF e
<1>2. \A r \in Sources : Count(r) = enqueued[r] /\ Count(r)' = enqueued'[r] /\ r # Engine
  BY PresorterAssumption DEF Count
<1>3. Count(Engine)' = 2 /\ Count(Engine) = 1
  BY <1>1 DEF Count
<1>4. Joins(e)
  BY <1>1, <1>2, <1>3 DEF Joins
<1> QED
  BY <1>4 DEF e

LEMMA SpillStep == TypeOK /\ ControlInv /\ SpillInv /\ [Next]_vars => SpillInv'
<1> SUFFICES ASSUME TypeOK, ControlInv, SpillInv, [Next]_vars PROVE SpillInv'
  OBVIOUS
<1>1. CASE DequeueSpill
  <2> DEFINE q == data_queue
             d == Head(q)
             n == Len(q)
  <2>1. /\ n \in Nat /\ n > 0 /\ Len(q') = n - 1 /\ d = q[1]
        /\ \A i \in 1..n - 1 : q'[i] = q[i + 1]
        /\ Range(q) = Range(q') \cup {d}
    <3>1. q \in Seq(Spills) /\ q # <<>> /\ q' = Tail(q)
      BY <1>1, TypeParts DEF QueueTypes, DequeueSpill
    <3> QED
      BY <3>1, Taken
  <2>2. /\ current_spills' = current_spills \cup {d}
        /\ UNCHANGED <<engine, enqueued, delivered>>
    BY <1>1 DEF DequeueSpill, sourceVars
  <2>3. AllSpills' = AllSpills
    BY <2>1, <2>2 DEF AllSpills
  <2>4. \A s : Count(s)' = Count(s)
    BY <2>2 DEF Count
  <2>5. \A j \in 1..n - 1 : j + 1 \in 1..n /\ 1 < j + 1
    BY <2>1
  <2>6. \A i, j \in 1..n - 1 : i < j => i + 1 < j + 1
    BY <2>1
  <2> HIDE DEF n, d
  <2>7. \A i, j \in 1..n - 1 : i < j => Earlier(q'[i], q'[j])
    BY <2>1, <2>5, <2>6, SMTT(20) DEF SpillInv, n
  <2>8. \A j \in 1..n - 1 : Earlier(d, q'[j])
    <3>1. 1 \in 1..n
      BY <2>1
    <3> QED
      BY <2>1, <2>5, <3>1 DEF SpillInv, n
  <2>9. \A sp \in current_spills : Earlier(sp, d) /\ \A j \in 1..n - 1 : Earlier(sp, q'[j])
    <3>1. 1 \in 1..n
      BY <2>1
    <3> QED
      BY <2>1, <2>5, <3>1 DEF SpillInv, n
  <2>10. \A sp, other \in current_spills' :
           sp.source = other.source /\ sp.k = other.k => sp = other
    <3>1. \A sp \in current_spills : sp.source = d.source => sp.k # d.k
      <4>1. \A sp \in current_spills \cup {d} : sp \in Spills /\ sp.k \in Nat
        BY <1>1, DequeuePlaces, TypeParts, SpillFields DEF BuilderTypes, d
      <4> QED
        BY <2>9, <4>1 DEF Earlier
    <3> QED
      BY <2>2, <3>1 DEF SpillInv
  <2>11. /\ \A sp \in AllSpills' : sp.k \in 1..Count(sp.source)'
         /\ \A s \in Sources : \A k \in 1..enqueued'[s] :
              \E sp \in AllSpills' : sp.source = s /\ sp.k = k
    BY <2>2, <2>3, <2>4 DEF SpillInv, AllSpills
  <2>12. \A sp \in current_spills', j \in 1..n - 1 : Earlier(sp, q'[j])
    BY <2>2, <2>8, <2>9
  <2> QED
    BY <2>1, <2>7, <2>10, <2>11, <2>12 DEF SpillInv, AllSpills
<1>2. ASSUME NEW sp, NEW as, sp \in AllSpills,
             as.source = sp.source, as.k = sp.k,
             UNCHANGED <<data_queue, engine, enqueued>>,
             AllSpills' \subseteq AllSpills \cup {as}, AllSpills \cup {as} \subseteq AllSpills' \cup {sp},
             as \in AllSpills',
             \/ current_spills' = (current_spills \ {sp}) \cup {as} /\ sp \in current_spills
             \/ current_spills' \subseteq current_spills
      PROVE  SpillInv'
  <2>1. \A s : Count(s)' = Count(s)
    BY <1>2 DEF Count
  <2>2. \A a \in current_spills' : \E b \in current_spills : a.source = b.source /\ a.k = b.k
    BY <1>2
  <2>3. \A a \in current_spills', j \in 1..Len(data_queue') : Earlier(a, data_queue'[j])
    BY <1>2, <2>2 DEF SpillInv, Earlier
  <2>4. \A a, b \in current_spills' : a.source = b.source /\ a.k = b.k => a = b
    <3>1. \A a, b \in current_spills : a.source = b.source /\ a.k = b.k => a = b
      BY DEF SpillInv
    <3>2. CASE current_spills' \subseteq current_spills
      BY <3>1, <3>2
    <3>3. CASE current_spills' = (current_spills \ {sp}) \cup {as} /\ sp \in current_spills
      <4>1. \A a \in current_spills' : (a \in current_spills /\ a # sp) \/ a = as
        BY <3>3
      <4>2. as.source = sp.source /\ as.k = sp.k /\ sp \in current_spills
        BY <1>2, <3>3
      <4> QED
        BY <3>1, <4>1, <4>2, ZenonT(30)
    <3> QED
      BY <1>2, <3>2, <3>3
  <2>5. \A a \in AllSpills' : a.k \in 1..Count(a.source)'
    BY <1>2, <2>1 DEF SpillInv, AllSpills
  <2>6. \A s \in Sources : \A k \in 1..enqueued'[s] : \E a \in AllSpills' : a.source = s /\ a.k = k
    <3> TAKE s \in Sources
    <3> TAKE k \in 1..enqueued'[s]
    <3>1. PICK a \in AllSpills : a.source = s /\ a.k = k
      BY <1>2 DEF SpillInv, AllSpills
    <3> QED
      BY <1>2, <3>1
  <2>7. \A i, j \in 1..Len(data_queue') : i < j => Earlier(data_queue'[i], data_queue'[j])
    BY <1>2 DEF SpillInv
  <2> QED
    BY <2>3, <2>4, <2>5, <2>6, <2>7 DEF SpillInv, AllSpills
<1>3. CASE MergeHit
  <2>1. PICK sp, x, rest : Merges(sp, x, rest)
    BY <1>3, MergeIs
  <2>2. /\ sp \in current_spills /\ rest.source = sp.source /\ rest.k = sp.k
        /\ UNCHANGED <<data_queue, engine, enqueued, delivered>>
        /\ current_spills' = (current_spills \ {sp}) \cup {rest}
    BY <2>1 DEF Merges, sourceVars
  <2>3. /\ AllSpills' \subseteq AllSpills \cup {rest} /\ AllSpills \cup {rest} \subseteq AllSpills' \cup {sp}
        /\ rest \in AllSpills' /\ sp \in AllSpills
    BY <2>2 DEF AllSpills
  <2> QED
    BY <1>2, <2>2, <2>3
<1>4. CASE Evict
  <2>1. PICK sp, given : Evicts(sp, given)
    BY <1>4, EvictIs
  <2>2. /\ sp \in current_spills /\ given.source = sp.source /\ given.k = sp.k
        /\ UNCHANGED <<data_queue, engine, enqueued>>
        /\ current_spills' = current_spills \ {sp}
    BY <2>1 DEF Evicts, sourceVars
  <2>3. Range(delivered') = Range(delivered) \cup {given}
    BY <2>1, Appended, TypeParts DEF Evicts, BuilderTypes
  <2>4. /\ AllSpills' \subseteq AllSpills \cup {given} /\ AllSpills \cup {given} \subseteq AllSpills' \cup {sp}
        /\ given \in AllSpills' /\ sp \in AllSpills /\ current_spills' \subseteq current_spills
    BY <2>2, <2>3 DEF AllSpills
  <2> QED
    BY <1>2, <2>2, <2>4
<1>5. CASE DequeueNull \/ MergeDone \/ EvictDone \/ EngineStop \/ UNCHANGED vars
  <2>1. Still
    BY <1>5, StillSteps
  <2>2. engine' = engine \/ (engine = "draining" /\ engine' = "stopped")
    BY <1>5 DEF DequeueNull, MergeDone, EvictDone, EngineStop, vars
  <2>3. \A s : Count(s)' = Count(s)
    BY <2>1, <2>2 DEF Count, Still, sourceVars
  <2> QED
    BY <2>1, <2>3 DEF Still, SpillInv, sourceVars
<1>6. CASE EngineFinal
  BY <1>6, FinalJoins, Joined
<1>7. ASSUME NEW s \in Sources, Run(s) PROVE SpillInv'
  BY <1>7, RunSends, TypeParts, SendsJoin, Joined
<1> QED
  BY <1>1, <1>3, <1>4, <1>5, <1>6, <1>7 DEF Next, worker_MCA

\* A start update is in the queue that no spill with hits is ahead of.
Announced(s) == \E j \in 1..Len(data_queue) :
                  /\ data_queue[j].source = s
                  /\ \A i \in 1..j : data_queue[i].hits = <<>>

LEMMA AnnouncedStays ==
  ASSUME TypeOK, NEW new \in Spills, data_queue' = Append(data_queue, new), NEW s
  PROVE  /\ Announced(s) => Announced(s)'
         /\ new.source = s /\ new.hits = <<>> /\ InQueue = {} => Announced(s)'
<1> DEFINE q == data_queue
           n == Len(q)
<1>1. /\ n \in Nat /\ Len(q') = n + 1 /\ q'[n + 1] = new
      /\ \A i \in 1..n : q'[i] = q[i]
  BY Appended, TypeParts DEF QueueTypes
<1>2. \A i \in 1..n : q[i] \in Range(q) /\ q[i] \in Spills
  BY TypeParts, Elements, ElementOfSeq DEF QueueTypes
<1> HIDE DEF n
<1>3. ASSUME Announced(s) PROVE Announced(s)'
  <2>1. PICK j \in 1..n : q[j].source = s /\ \A i \in 1..j : q[i].hits = <<>>
    BY <1>3 DEF Announced, n
  <2>2. j \in 1..n + 1 /\ 1..j \subseteq 1..n
    BY <1>1
  <2>3. q'[j].source = s /\ \A i \in 1..j : q'[i].hits = <<>>
    BY <1>1, <2>1, <2>2
  <2> QED
    BY <1>1, <2>2, <2>3 DEF Announced
<1>4. ASSUME new.source = s, new.hits = <<>>, InQueue = {} PROVE Announced(s)'
  <2>1. \A i \in 1..n : q[i].hits = <<>>
    <3> TAKE i \in 1..n
    <3>1. Range(q[i].hits) = {} /\ q[i].hits \in Seq(Hits)
      BY <1>2, <1>4, HitsUnion, SpillFields DEF InQueue
    <3> QED
      BY <3>1, NoElements
  <2>2. n + 1 \in 1..Len(q') /\ \A i \in 1..n + 1 : i \in 1..n \/ i = n + 1
    BY <1>1
  <2>3. \A i \in 1..n + 1 : q'[i].hits = <<>>
    BY <1>1, <1>4, <2>1, <2>2
  <2> QED
    BY <1>1, <1>4, <2>2, <2>3 DEF Announced
<1> QED
  BY <1>3, <1>4

\* Before a source has gone on, there are no hits at all.
LEMMA NoHitsYet == ASSUME TypeOK, ControlInv, OrderInv, ~ \E r \in Sources : enqueued[r] > 1
                   PROVE  InQueue = {} /\ Dequeued = {}
<1>1. \A r \in Sources : hitCount[r] \in Nat /\ ~(hitCount[r] > 0)
  BY TypeParts DEF SourceTypes, ControlInv
<1>2. \A h \in InQueue \cup Dequeued : h.source \in Sources /\ h.n \in 1..hitCount[h.source]
  BY HitFields DEF OrderInv
<1>3. \A h \in InQueue \cup Dequeued : FALSE
  BY <1>1, <1>2
<1> QED
  BY <1>3

LEMMA StartStep == TypeOK /\ ControlInv /\ OrderInv /\ OnceInv /\ StartInv /\ [Next]_vars => StartInv'
<1> SUFFICES ASSUME TypeOK, ControlInv, OrderInv, OnceInv, StartInv, [Next]_vars PROVE StartInv'
  OBVIOUS
<1> DEFINE Waits(s) == source[s] # "off" /\ s \notin queue_status
<1>0. ~late => \A s \in Sources : Waits(s) => Dequeued = {} /\ Announced(s)
  BY DEF StartInv, Announced
<1>a. (~late' => \A s \in Sources : Waits(s)' => Dequeued' = {} /\ Announced(s)') => StartInv'
  BY DEF StartInv, Announced
<1>1. CASE DequeueSpill
  <2> DEFINE q == data_queue
             d == Head(q)
             n == Len(q)
  <2>1. /\ n \in Nat /\ n > 0 /\ Len(q') = n - 1 /\ d = q[1]
        /\ \A i \in 1..n - 1 : q'[i] = q[i + 1]
    <3>1. q \in Seq(Spills) /\ q # <<>> /\ q' = Tail(q)
      BY <1>1, TypeParts DEF QueueTypes, DequeueSpill
    <3> QED
      BY <3>1, Taken
  <2>2. /\ queue_status' = queue_status \cup ({d.source} \ {Engine})
        /\ UNCHANGED <<source, late>> /\ Dequeued' = Dequeued \cup Range(d.hits)
    BY <1>1, DequeuePlaces DEF DequeueSpill, sourceVars
  <2> HIDE DEF d, n
  <2>3. SUFFICES ASSUME ~late', NEW s \in Sources, Waits(s)'
                 PROVE  Dequeued' = {} /\ Announced(s)'
    BY <1>a
  <2>4. Waits(s) /\ d.source # s /\ ~late
    BY <2>2, <2>3, PresorterAssumption
  <2>5. PICK j \in 1..n : q[j].source = s /\ \A i \in 1..j : q[i].hits = <<>>
    BY <1>0, <2>4 DEF Announced, n
  <2>6. j # 1 /\ 1 \in 1..j
    BY <2>1, <2>4, <2>5
  <2>7. /\ j - 1 \in 1..n - 1 /\ (j - 1) + 1 = j
        /\ \A i \in 1..j - 1 : i \in 1..n - 1 /\ i + 1 \in 1..j
    BY <2>1, <2>6
  <2>8. q'[j - 1].source = s /\ \A i \in 1..j - 1 : q'[i].hits = <<>>
    BY <2>1, <2>5, <2>7
  <2>9. d.hits = <<>>
    BY <2>1, <2>5, <2>6
  <2>10. Range(d.hits) = {}
    BY <2>9, NoRange
  <2>11. Announced(s)'
    BY <2>1, <2>7, <2>8 DEF Announced
  <2> QED
    BY <1>0, <2>2, <2>4, <2>10, <2>11
<1>2. ASSUME UNCHANGED <<data_queue, queue_status, source, late>>, Dequeued' = Dequeued
      PROVE  StartInv'
  BY <1>2 DEF StartInv
<1>3. CASE MergeHit
  <2>1. PICK sp, x, rest : Merges(sp, x, rest)
    BY <1>3, MergeIs
  <2> QED
    BY <1>2, <2>1, MergePlaces DEF Merges, sourceVars
<1>4. CASE Evict
  <2>1. PICK sp, given : Evicts(sp, given)
    BY <1>4, EvictIs
  <2>2. Dequeued' = Dequeued
    BY <2>1, EvictPlaces
  <2> QED
    BY <1>2, <2>1, <2>2 DEF Evicts, sourceVars
<1>5. CASE DequeueNull \/ MergeDone \/ EvictDone \/ EngineStop \/ UNCHANGED vars
  <2>1. queue_status' = queue_status
    BY <1>5 DEF DequeueNull, MergeDone, EvictDone, EngineStop, vars, builderVars
  <2>2. UNCHANGED <<data_queue, source, late>> /\ Dequeued' = Dequeued
    BY <1>5, StillSteps DEF Still, sourceVars
  <2> QED
    BY <1>2, <2>1, <2>2
<1>6. CASE EngineFinal
  <2>1. /\ EngineSpill(2) \in Spills /\ data_queue' = Append(data_queue, EngineSpill(2))
        /\ Same /\ UNCHANGED <<queue_status, source, late>>
    BY <1>6, EngineSpills DEF EngineFinal, builderVars, sourceVars, Same
  <2>2. \A s : Announced(s) => Announced(s)'
    BY <2>1, AnnouncedStays
  <2>3. Dequeued' = Dequeued
    BY <2>1, PlacesKept
  <2>4. late' = late /\ \A s : Waits(s)' = Waits(s)
    BY <2>1
  <2> QED
    BY <1>0, <1>a, <2>2, <2>3, <2>4
<1>7. ASSUME NEW s \in Sources, Run(s) PROVE StartInv'
  <2>1. PICK new : Sends(s, new)
    BY <1>7, RunSends, TypeParts
  <2>2. /\ new \in Spills /\ data_queue' = Append(data_queue, new) /\ Same
        /\ queue_status' = queue_status /\ new.source = s
    BY <2>1 DEF Sends, NextOf, Same, builderVars
  <2>3. \A r : Announced(r) => Announced(r)'
    BY <2>2, AnnouncedStays
  <2>4. Dequeued' = Dequeued
    BY <2>2, PlacesKept
  <2>5. \A r \in Sources \ {s} : Waits(r)' = Waits(r)
    <3>1. \A r \in Sources \ {s} : source'[r] = source[r]
      BY <2>1, TypeParts DEF Sends, SourceTypes
    <3> QED
      BY <2>2, <3>1
  <2>6. CASE source[s] # "off"
    <3>1. late' = late /\ (Waits(s)' => Waits(s))
      BY <2>1, <2>2, <2>6 DEF Sends
    <3> QED
      BY <1>0, <1>a, <2>3, <2>4, <2>5, <3>1
  <2>7. CASE source[s] = "off"
    <3>1. late' = (late \/ \E r \in Sources : enqueued[r] > 1) /\ new.hits = <<>>
      BY <2>1, <2>7 DEF Sends
    <3>2. ~late' => InQueue = {} /\ Dequeued = {}
      BY <3>1, NoHitsYet
    <3>3. ~late' => ~late /\ Announced(s)'
      BY <2>2, <3>1, <3>2, AnnouncedStays
    <3> QED
      BY <1>0, <1>a, <2>3, <2>4, <2>5, <3>2, <3>3
  <2> QED
    BY <2>6, <2>7
<1> QED
  BY <1>1, <1>3, <1>4, <1>5, <1>6, <1>7 DEF Next, worker_MCA

-----------------------------------------------------------------------------
(* The order of time                                                       *)

Pending == InBacklog \cup InQueue

\* A hit that is still to come is of a source that has gone on.
LEMMA ComingHit ==
  ASSUME TypeOK, ControlInv, OrderInv, NEW r \in InQueue
  PROVE  r \in Hits /\ source[r.source] # "off"
<1>1. r \in Hits /\ r.n \in 1..hitCount[r.source]
  BY DEF OrderInv
<1> DEFINE s == r.source
<1>2. s \in Sources
  BY <1>1, HitFields
<1>3. hitCount[s] \in Nat /\ enqueued[s] \in Nat
  BY <1>2, TypeParts DEF SourceTypes
<1>4. hitCount[s] > 0
  BY <1>1, <1>3
<1>5. enqueued[s] > 1
  BY <1>2, <1>4 DEF ControlInv
<1>6. enqueued[s] # 0
  BY <1>3, <1>5
<1>7. source[s] = "off" <=> enqueued[s] = 0
  BY <1>2 DEF ControlInv
<1> QED
  BY <1>1, <1>6, <1>7

\* A hit that is merged is no younger than any that is pending or will come.
LEMMA MergedIsOldest ==
  ASSUME TypeOK, ControlInv, OrderInv, OnceInv, StartInv, TimeInv, ~late, pc = "merge",
         NEW sp, NEW x, NEW rest, Merges(sp, x, rest)
  PROVE  /\ \A r \in Pending : x.time <= r.time
         /\ \A s \in Sources : source[s] = "running" => x.time <= clock[s]
<1>1. /\ sp \in current_spills /\ x = sp.hits[1] /\ x \in Hits
      /\ \A other \in current_spills : other.hits # <<>>
      /\ \A other \in current_spills : x.time <= other.hits[1].time
  BY DEF Merges, HasOldest
<1>2. \A other \in current_spills :
        /\ other.hits \in Seq(Hits) /\ DOMAIN other.hits = 1..Len(other.hits)
        /\ Len(other.hits) \in Nat /\ 1 \in DOMAIN other.hits
        /\ other.hits[1] \in InBacklog /\ other.hits[1] \in Hits
        /\ other.hits[1].source = other.source
  <2> TAKE other \in current_spills
  <2>1. other.hits \in Seq(Hits) /\ other.hits # <<>>
    BY <1>1, TypeParts, SpillFields DEF BuilderTypes
  <2>2. /\ DOMAIN other.hits = 1..Len(other.hits) /\ Len(other.hits) \in Nat
        /\ 1 \in 1..Len(other.hits)
    BY <2>1, Taken
  <2>3. other.hits[1] \in Range(other.hits) /\ other.hits[1] \in Hits
    BY <2>1, <2>2, ElementOfSeq DEF Range
  <2>4. other.hits[1] \in InBacklog
    BY <2>3, HitsUnion DEF InBacklog
  <2>5. other.hits[1].source = other.source
    BY <2>2 DEF OrderInv, Ordered
  <2> QED
    BY <2>1, <2>2, <2>3, <2>4, <2>5
<1>3. x \in Dequeued /\ x.time \in Times
  BY <1>1, <1>2, HitFields DEF Dequeued
<1>4. \A s \in Sources : source[s] # "off" => s \in queue_status
  BY <1>3 DEF StartInv
<1>5. ASSUME NEW s \in queue_status, ~at_end
      PROVE  \E g \in Dequeued : g \in Hits /\ g.source = s /\ x.time <= g.time
  <2>1. HasData(s)
    BY <1>1, <1>5 DEF TimeInv
  <2>2. PICK other \in current_spills : other.source = s
    BY <2>1 DEF HasData
  <2> QED
    BY <1>1, <1>2, <2>2 DEF Dequeued
<1>6. \A r \in InBacklog : x.time <= r.time
  <2> TAKE r \in InBacklog
  <2>1. PICK other \in current_spills : r \in Range(other.hits)
    BY HitsUnion DEF InBacklog
  <2>2. PICK i \in 1..Len(other.hits) : r = other.hits[i]
    BY <1>2, <2>1, Elements
  <2>3. other.hits[1].time <= r.time
    <3>1. CASE i = 1
      <4>1. other.hits[1] \in Hits /\ r = other.hits[1]
        BY <1>2, <2>2, <3>1
      <4> QED
        BY <4>1, HitFields DEF Times
    <3>2. CASE i # 1
      <4>1. 1 \in DOMAIN other.hits /\ i \in DOMAIN other.hits /\ 1 < i
        BY <1>2, <2>2, <3>2
      <4>2. /\ Before(other.hits[1], other.hits[i])
            /\ other.hits[1].source = other.source /\ other.hits[i].source = other.source
        BY <4>1 DEF OrderInv, Ordered
      <4> QED
        BY <2>2, <4>2 DEF Before
    <3> QED
      BY <3>1, <3>2
  <2>4. r \in Hits /\ other.hits[1] \in Hits /\ x.time <= other.hits[1].time
    BY <1>1, <1>2 DEF OrderInv, Dequeued
  <2>5. r.time \in Nat /\ other.hits[1].time \in Nat /\ x.time \in Nat
    BY <1>3, <2>4, HitFields DEF Times
  <2> QED
    BY <2>3, <2>4, <2>5
<1>7. \A r \in InQueue : x.time <= r.time
  <2> TAKE r \in InQueue
  <2>1. r \in Hits /\ r.source \in queue_status
    BY <1>4, ComingHit, HitFields
  <2>2. ~at_end
    <3>1. at_end => data_queue = <<>>
      BY DEF ControlInv
    <3>2. data_queue = <<>> => InQueue = {}
      BY NoRange DEF InQueue, HitsIn
    <3> QED
      BY <3>1, <3>2
  <2>3. PICK g \in Dequeued : g \in Hits /\ g.source = r.source /\ x.time <= g.time
    BY <1>5, <2>1, <2>2
  <2>4. g.time <= r.time
    BY <2>3 DEF OrderInv, Before
  <2>5. r.time \in Nat /\ g.time \in Nat /\ x.time \in Nat
    BY <1>3, <2>1, <2>3, HitFields DEF Times
  <2> QED
    BY <2>3, <2>4, <2>5
<1>8. ASSUME NEW s \in Sources, source[s] = "running" PROVE x.time <= clock[s]
  <2>1. s \in queue_status /\ ~at_end
    BY <1>4, <1>8 DEF ControlInv, end_queue_
  <2>2. PICK g \in Dequeued : g \in Hits /\ g.source = s /\ x.time <= g.time
    BY <1>5, <2>1
  <2>3. g.time <= clock[s]
    BY <2>2 DEF OrderInv
  <2>4. clock[s] \in Nat /\ g.time \in Nat /\ x.time \in Nat
    BY <1>3, <2>2, HitFields, TypeParts DEF Times, SourceTypes
  <2> QED
    BY <2>2, <2>3, <2>4
<1> QED
  BY <1>6, <1>7, <1>8 DEF Pending

\* The backlog stays ready while it is merged.
LEMMA ReadyStep ==
  TypeOK /\ TimeInv /\ [Next]_vars =>
    (pc' = "merge" /\ (\A sp \in current_spills' : sp.hits # <<>>)
       => at_end' \/ \A s \in queue_status' : HasData(s)')
<1> SUFFICES ASSUME TypeOK, TimeInv, [Next]_vars, pc' = "merge",
                    \A sp \in current_spills' : sp.hits # <<>>, ~at_end'
             PROVE  \A s \in queue_status' : HasData(s)'
  OBVIOUS
<1>1. CASE DequeueSpill \/ DequeueNull
  <2>1. Ready'
    BY <1>1 DEF DequeueSpill, DequeueNull
  <2> QED
    BY <2>1 DEF Ready
<1>2. CASE MergeHit
  <2>1. PICK sp, x, rest : Merges(sp, x, rest)
    BY <1>2, MergeIs
  <2>2. /\ pc = "merge" /\ ~at_end /\ queue_status' = queue_status
        /\ \A other \in current_spills : other.hits # <<>>
    BY <1>2, <2>1, MergeIs DEF Merges
  <2>3. \A s \in queue_status : HasData(s)
    BY <2>2 DEF TimeInv
  <2>4. /\ current_spills' = (current_spills \ {sp}) \cup {rest} /\ rest.source = sp.source
        /\ rest.hits # <<>>
    BY <2>1 DEF Merges
  <2>5. \A s \in queue_status : \E other \in current_spills : other.source = s
    BY <2>3 DEF HasData
  <2>6. \A s \in queue_status : \E other \in current_spills' : other.source = s
    BY <2>4, <2>5
  <2> QED
    BY <2>2, <2>6 DEF HasData
<1>3. CASE MergeDone \/ Evict \/ EvictDone
  BY <1>3 DEF MergeDone, Evict, EvictDone, Goto
<1>4. CASE EngineFinal \/ EngineStop \/ UNCHANGED vars \/ \E s \in Sources : Run(s)
  <2>1. UNCHANGED <<current_spills, queue_status, at_end, pc>>
    <3>1. CASE \E s \in Sources : Run(s)
      BY <3>1, RunSends, TypeParts DEF Sends, builderVars
    <3> QED
      BY <1>4, <3>1 DEF EngineFinal, EngineStop, vars, builderVars
  <2> QED
    BY <2>1 DEF TimeInv, HasData
<1> QED
  BY <1>1, <1>2, <1>3, <1>4 DEF Next, worker_MCA

SortedHits == \A k, l \in DOMAIN out_hits : k < l => out_hits[k].time <= out_hits[l].time

SortedSpills ==
  \A i, j \in DOMAIN delivered :
    \A k \in DOMAIN delivered[i].hits, l \in DOMAIN delivered[j].hits :
      i < j \/ (i = j /\ k < l) => delivered[i].hits[k].time <= delivered[j].hits[l].time

\* TimeInv says this as long as no source is late.
InOrder ==
  /\ \A m \in Merged, r \in Pending : m.time <= r.time
  /\ \A s \in Sources : source[s] = "running" => \A m \in Merged : m.time <= clock[s]
  /\ SortedHits
  /\ \A m \in InDelivered, r \in Range(out_hits) \ {NoHit} : m.time <= r.time
  /\ SortedSpills

LEMMA SendsInOrder ==
  ASSUME TypeOK, ControlInv, OrderInv, InOrder, NEW s \in Sources, NEW new, Sends(s, new), ~late'
  PROVE  InOrder'
<1>1. /\ new \in Spills /\ data_queue' = Append(data_queue, new) /\ Same
      /\ UNCHANGED <<out_hits, delivered>>
  BY DEF Sends, NextOf, Same, builderVars
<1>2. Merged' = Merged /\ InBacklog' = InBacklog /\ InQueue' = InQueue \cup Range(new.hits)
      /\ InDelivered' = InDelivered
  BY <1>1, PlacesKept, EnqueuePlaces DEF Same
<1>3. \A m \in Merged : m.time \in Nat
  BY HitFields DEF OrderInv, Dequeued, Times
<1>4. \A h \in Range(new.hits) : h.time \in Nat /\ h.time >= clock[s]
  BY HitFields DEF Sends, NextOf, Times
<1>5. clock[s] \in Nat /\ clock'[s] \in Nat /\ clock'[s] >= clock[s]
  BY TypeParts DEF Sends, Counters, SourceTypes, Times
<1>6. \A h \in Range(new.hits) : source[s] = "running"
  <2>1. source[s] # "running" => new.hits = <<>>
    BY DEF Sends
  <2> QED
    BY <2>1, NoRange
<1>7. \A m \in Merged, h \in Range(new.hits) : m.time <= h.time
  <2> SUFFICES ASSUME NEW m \in Merged, NEW h \in Range(new.hits) PROVE m.time <= h.time
    OBVIOUS
  <2>1. m.time <= clock[s]
    BY <1>6 DEF InOrder
  <2> QED
    BY <1>3, <1>4, <1>5, <2>1
<1>8. \A m \in Merged', r \in Pending' : m.time <= r.time
  BY <1>2, <1>7 DEF InOrder, Pending
<1>9. ASSUME NEW r \in Sources, source'[r] = "running", NEW m \in Merged'
      PROVE  m.time <= clock'[r]
  <2>1. CASE r # s
    <3>1. source'[r] = source[r] /\ clock'[r] = clock[r]
      BY <2>1, TypeParts DEF Sends, Counters, SourceTypes
    <3> QED
      BY <1>2, <1>9, <3>1 DEF InOrder
  <2>2. CASE r = s /\ source[s] = "running"
    <3>1. m.time <= clock[s]
      BY <1>2, <2>2, <1>9 DEF InOrder
    <3> QED
      BY <1>2, <1>3, <1>5, <1>9, <2>2, <3>1
  <2>3. CASE r = s /\ source[s] = "off"
    <3>1. ~ \E p \in Sources : enqueued[p] > 1
      BY <2>3 DEF Sends
    <3>2. Merged = {}
      BY <3>1, NoHitsYet DEF Dequeued
    <3> QED
      BY <1>2, <1>9, <3>2
  <2>4. CASE r = s /\ source[s] \notin {"running", "off"}
    <3>1. source' = [source EXCEPT ![s] = "stopped"]
      BY <2>4 DEF Sends
    <3>2. source'[s] = "stopped"
      BY <3>1, TypeParts DEF SourceTypes
    <3> QED
      BY <1>9, <2>4, <3>2
  <2> QED
    BY <2>1, <2>2, <2>3, <2>4
<1> QED
  BY <1>1, <1>2, <1>8, <1>9 DEF InOrder, SortedHits, SortedSpills

LEMMA MergeInOrder ==
  ASSUME TypeOK, ControlInv, OrderInv, OnceInv, StartInv, TimeInv, InOrder, ~late, MergeHit
  PROVE  InOrder'
<1>1. PICK sp, x, rest : Merges(sp, x, rest)
  BY MergeIs
<1>2. /\ InBacklog = InBacklog' \cup {x} /\ InQueue' = InQueue /\ Merged' = Merged \cup {x}
      /\ x \in InBacklog /\ InDelivered' = InDelivered
  BY <1>1, MergePlaces
<1>3. /\ \A r \in Pending : x.time <= r.time
      /\ \A s \in Sources : source[s] = "running" => x.time <= clock[s]
  BY <1>1, MergeIs, MergedIsOldest
<1>4. \A m \in Merged', r \in Pending' : m.time <= r.time
  BY <1>2, <1>3 DEF InOrder, Pending
<1>5. UNCHANGED <<source, clock, delivered>>
  BY <1>1 DEF Merges, sourceVars
<1>6. \A s \in Sources : source'[s] = "running" => \A m \in Merged' : m.time <= clock'[s]
  BY <1>2, <1>3, <1>5 DEF InOrder
<1>7. Range(out_hits) \subseteq Merged
  <2>1. NoHit \notin Range(out_hits)
    BY MergeIs DEF ControlInv
  <2> QED
    BY <2>1 DEF Merged
<1>8. SortedHits'
  <2> DEFINE n == Len(out_hits)
  <2>1. /\ out_hits' = Append(out_hits, x) /\ x \in Hits \cup {NoHit}
        /\ out_hits \in Seq(Hits \cup {NoHit})
    BY <1>1, TypeParts DEF Merges, BuilderTypes
  <2>2. /\ n \in Nat /\ Len(out_hits') = n + 1 /\ out_hits'[n + 1] = x
        /\ DOMAIN out_hits' = 1..n + 1 /\ DOMAIN out_hits = 1..n
        /\ \A i \in 1..n : out_hits'[i] = out_hits[i]
    BY <2>1, Appended, Elements
  <2>3. \A i \in 1..n : out_hits[i].time <= x.time
    <3>1. \A i \in 1..n : out_hits[i] \in Merged
      BY <1>7, <2>2 DEF Range
    <3> QED
      BY <1>2, <3>1 DEF InOrder, Pending
  <2>4. \A l \in DOMAIN out_hits' : l \in 1..n \/ l = n + 1
    BY <2>2
  <2>5. \A k, l \in DOMAIN out_hits' : k < l => k \in 1..n
    BY <2>2
  <2> HIDE DEF n
  <2> QED
    BY <2>2, <2>3, <2>4, <2>5 DEF SortedHits, InOrder
<1>9. \A m \in InDelivered', r \in Range(out_hits') \ {NoHit} : m.time <= r.time
  <2>1. Range(out_hits') = Range(out_hits) \cup {x}
    BY <1>1 DEF Merges
  <2>2. InDelivered \subseteq Merged
    BY DEF Merged
  <2> QED
    BY <1>2, <2>1, <2>2 DEF InOrder, Pending
<1> QED
  BY <1>4, <1>5, <1>6, <1>8, <1>9 DEF InOrder, SortedSpills

LEMMA EvictInOrder ==
  ASSUME TypeOK, ControlInv, InOrder, Evict
  PROVE  InOrder'
<1>1. PICK sp, given : Evicts(sp, given)
  BY EvictIs
<1>2. /\ InQueue' = InQueue /\ InBacklog' = InBacklog /\ Merged' = Merged
      /\ NoHit \notin Range(out_hits)
  BY <1>1, EvictPlaces
<1>3. out_hits' = <<>> /\ UNCHANGED <<source, clock>>
  BY <1>1 DEF Evicts, sourceVars
<1>4. Range(out_hits') = {} /\ DOMAIN out_hits' = {}
  BY <1>3, NoRange
<1>5. SortedSpills'
  <2> SUFFICES ASSUME NEW i \in DOMAIN delivered', NEW j \in DOMAIN delivered',
                      NEW k \in DOMAIN delivered'[i].hits, NEW l \in DOMAIN delivered'[j].hits,
                      i < j \/ (i = j /\ k < l)
               PROVE  delivered'[i].hits[k].time <= delivered'[j].hits[l].time
    BY DEF SortedSpills
  <2>1. \/ /\ i \in DOMAIN delivered /\ j \in DOMAIN delivered
           /\ delivered'[i] = delivered[i] /\ delivered'[j] = delivered[j]
        \/ delivered'[i].hits[k] \in InDelivered /\ delivered'[j].hits[l] \in Range(out_hits)
        \/ /\ k \in DOMAIN out_hits /\ l \in DOMAIN out_hits /\ k < l
           /\ delivered'[i].hits[k] = out_hits[k] /\ delivered'[j].hits[l] = out_hits[l]
    BY <1>1, DeliveredPairs
  <2> QED
    BY <1>2, <2>1 DEF InOrder, SortedHits, SortedSpills
<1> QED
  BY <1>2, <1>3, <1>4, <1>5 DEF InOrder, SortedHits, Pending

LEMMA TimeStep ==
  TypeOK /\ ControlInv /\ OrderInv /\ OnceInv /\ StartInv /\ TimeInv /\ [Next]_vars => TimeInv'
<1> SUFFICES ASSUME TypeOK, ControlInv, OrderInv, OnceInv, StartInv, TimeInv, [Next]_vars
             PROVE  TimeInv'
  OBVIOUS
<1>0. ~late => InOrder
  BY DEF TimeInv, InOrder, Pending, SortedHits, SortedSpills
<1>a. ASSUME ~late' => InOrder' PROVE TimeInv'
  BY <1>a, ReadyStep DEF TimeInv, InOrder, Pending, SortedHits, SortedSpills
<1>b. ASSUME UNCHANGED <<source, clock, delivered, late>>, Pending' = Pending, Merged' = Merged,
             InDelivered' = InDelivered, Range(out_hits') \ {NoHit} \subseteq Range(out_hits) \ {NoHit},
             SortedHits => SortedHits'
      PROVE  TimeInv'
  <2>1. InOrder => InOrder'
    BY <1>b DEF InOrder, SortedSpills
  <2> QED
    BY <1>0, <1>a, <1>b, <2>1
<1>1. CASE DequeueSpill
  <2>1. UNCHANGED <<source, clock, delivered, late, out_hits>>
    BY <1>1 DEF DequeueSpill, sourceVars
  <2>2. Pending' = Pending /\ Merged' = Merged /\ InDelivered' = InDelivered
    BY <1>1, <2>1, DequeuePlaces, PlacesKept DEF Pending
  <2>3. SortedHits => SortedHits'
    BY <2>1 DEF SortedHits
  <2> QED
    BY <1>b, <2>1, <2>2, <2>3
<1>2. CASE MergeHit
  <2>1. late' = late
    BY <1>2 DEF MergeHit, sourceVars
  <2> QED
    BY <1>0, <1>a, <1>2, <2>1, MergeInOrder
<1>3. CASE Evict
  <2>1. late' = late
    BY <1>3 DEF Evict, sourceVars
  <2> QED
    BY <1>0, <1>a, <1>3, <2>1, EvictInOrder
<1>4. CASE DequeueNull \/ MergeDone \/ EvictDone \/ EngineStop \/ UNCHANGED vars
  <2>1. /\ UNCHANGED <<source, clock, delivered, late>> /\ Pending' = Pending
        /\ Merged' = Merged /\ InDelivered' = InDelivered
    BY <1>4, StillSteps DEF Still, Pending, sourceVars
  <2>2. \/ out_hits' = out_hits
        \/ DOMAIN out_hits' = {} /\ Range(out_hits') = {}
        \/ DOMAIN out_hits' = 1..1 /\ Range(out_hits') = {NoHit}
    <3>1. CASE MergeDone
      BY <3>1, MergeDoneHits
    <3>2. CASE EvictDone
      BY <3>2, NoRange DEF EvictDone
    <3> QED
      BY <1>4, <3>1, <3>2 DEF DequeueNull, EngineStop, vars, builderVars
  <2>3. SortedHits => SortedHits'
    <3>1. DOMAIN out_hits' = 1..1 => \A k, l \in DOMAIN out_hits' : ~(k < l)
      OBVIOUS
    <3> QED
      BY <2>2, <3>1 DEF SortedHits
  <2> QED
    BY <1>b, <2>1, <2>2, <2>3
<1>5. CASE EngineFinal
  <2>1. /\ EngineSpill(2) \in Spills /\ Range(EngineSpill(2).hits) = {}
        /\ data_queue' = Append(data_queue, EngineSpill(2)) /\ Same
        /\ UNCHANGED <<source, clock, delivered, late, out_hits>>
    BY <1>5, EngineSpills, NoRange DEF EngineFinal, builderVars, sourceVars, Same
  <2>2. Pending' = Pending /\ Merged' = Merged /\ InDelivered' = InDelivered
    BY <2>1, EnqueuePlaces, PlacesKept DEF Pending, Same
  <2>3. SortedHits => SortedHits'
    BY <2>1 DEF SortedHits
  <2> QED
    BY <1>b, <2>1, <2>2, <2>3
<1>6. ASSUME NEW s \in Sources, Run(s) PROVE TimeInv'
  <2>1. PICK new : Sends(s, new)
    BY <1>6, RunSends, TypeParts
  <2>2. late => late'
    BY <2>1 DEF Sends
  <2> QED
    BY <1>0, <1>a, <2>1, <2>2, SendsInOrder
<1> QED
  BY <1>1, <1>2, <1>3, <1>4, <1>5, <1>6 DEF Next, worker_MCA

-----------------------------------------------------------------------------
(* The theorems                                                            *)

Inv == /\ TypeOK /\ ControlInv /\ OrderInv /\ OnceInv
       /\ CoverInv /\ SpillInv /\ StartInv /\ TimeInv

LEMMA InitInv == Init => Inv
<1> SUFFICES ASSUME Init PROVE Inv
  OBVIOUS
<1> DEFINE e == EngineSpill(1)
<1>1. /\ data_queue = <<e>> /\ current_spills = {} /\ out_hits = <<>> /\ delivered = <<>>
      /\ e \in Spills /\ e.hits = <<>> /\ e.source = Engine /\ e.k = 1
  BY EngineSpills DEF Init
<1>2. /\ engine = "acquiring" /\ pc = "dequeue" /\ at_end = FALSE
      /\ \A s \in Sources : source[s] = "off" /\ enqueued[s] = 0 /\ hitCount[s] = 0
  BY DEF Init
<1> HIDE DEF e
<1>3. /\ Len(data_queue) = 1 /\ data_queue[1] = e /\ Range(data_queue) = {e}
      /\ \A i \in 1..Len(data_queue) : i = 1
  BY <1>1 DEF Range
<1>4. Range(out_hits) = {} /\ Range(delivered) = {} /\ Range(e.hits) = {}
      /\ DOMAIN out_hits = {} /\ DOMAIN delivered = {} /\ DOMAIN e.hits = {}
  BY <1>1, NoRange
<1>5. InQueue = {} /\ InBacklog = {} /\ InDelivered = {}
  BY <1>1, <1>3, <1>4 DEF InQueue, InBacklog, InDelivered, HitsIn
<1>6. Merged = {} /\ Dequeued = {}
  BY <1>4, <1>5 DEF Merged, Dequeued
<1>7. ControlInv
  BY <1>1, <1>2, <1>4 DEF ControlInv, end_queue_
<1>8. OrderInv
  <2>1. Ordered(e)
    BY <1>4 DEF Ordered
  <2>2. \A i, j \in 1..Len(data_queue) : ~(i < j)
    BY <1>3
  <2> QED
    BY <1>1, <1>3, <1>5, <1>6, <2>1, <2>2 DEF OrderInv
<1>9. OnceInv
  BY <1>1, <1>4, <1>5 DEF OnceInv
<1>10. CoverInv
  BY <1>2 DEF CoverInv
<1>11. SpillInv
  <2>1. Count(Engine) = 1
    BY <1>2 DEF Count
  <2>2. \A i, j \in 1..Len(data_queue) : ~(i < j)
    BY <1>3
  <2> QED
    BY <1>1, <1>2, <1>3, <1>4, <2>1, <2>2 DEF SpillInv
<1>12. StartInv
  BY <1>2 DEF StartInv
<1>13. TimeInv
  BY <1>2, <1>4, <1>5, <1>6 DEF TimeInv
<1> QED
  BY <1>7, <1>8, <1>9, <1>10, <1>11, <1>12, <1>13, InitTypes DEF Inv

\* The inductive invariant holds in every reachable state.
THEOREM Invariance == Spec => []Inv
<1>1. Inv /\ [Next]_vars => Inv'
  BY TypesStep, ControlStep, OrderStep, OnceStep, CoverStep, SpillStep, StartStep, TimeStep
     DEF Inv
<1> QED
  BY <1>1, InitInv, PTL DEF Spec

\* The variables of the presorter keep their types (Engine::worker_MCA).
THEOREM TypeCorrect == Spec => []TypeOK
BY Invariance, PTL DEF Inv

LEMMA InvConserved == Inv => HitsConserved
<1> SUFFICES ASSUME Inv PROVE HitsConserved
  OBVIOUS
<1> USE DEF Inv
<1> DEFINE out == Range(out_hits) \ {NoHit}
           places == <<InQueue, InBacklog, out, InDelivered>>
<1>1. /\ InQueue \cap Dequeued = {} /\ InBacklog \cap Merged = {}
      /\ InDelivered \cap out = {}
  <2>1. \A h \in Dequeued, g \in InQueue : h # g
    BY BeforeIsOther DEF OrderInv
  <2> QED
    BY <2>1 DEF OnceInv
<1>2. /\ InQueue \cap InBacklog = {} /\ InQueue \cap out = {} /\ InQueue \cap InDelivered = {}
      /\ InBacklog \cap out = {} /\ InBacklog \cap InDelivered = {}
      /\ out \cap InDelivered = {}
  BY <1>1 DEF Dequeued, Merged
<1>3. UNION Range(places) = InQueue \cup Dequeued
  <2>1. Range(places) = {InQueue, InBacklog, out, InDelivered}
    BY DEF Range
  <2> QED
    BY <2>1 DEF Dequeued, Merged
<1>4. DOMAIN places = 1..4
  OBVIOUS
<1>5. \A i, j \in DOMAIN places : i # j => places[i] \cap places[j] = {}
  <2>1. /\ places[1] = InQueue /\ places[2] = InBacklog /\ places[3] = out
        /\ places[4] = InDelivered
    OBVIOUS
  <2>2. \A i \in DOMAIN places : i = 1 \/ i = 2 \/ i = 3 \/ i = 4
    BY <1>4
  <2> HIDE DEF places, out
  <2> QED
    BY <1>2, <2>1, <2>2
<1>6. ASSUME NEW s \in Sources
      PROVE  {h.n : h \in {g \in InQueue \cup Dequeued : g.source = s}} = 1..hitCount[s]
  <2>1. \A h \in InQueue \cup Dequeued : h.source = s => h.n \in 1..hitCount[s]
    BY DEF OrderInv
  <2>2. \A n \in 1..hitCount[s] : \E h \in InQueue \cup Dequeued : h.source = s /\ h.n = n
    BY DEF CoverInv
  <2> QED
    BY <2>1, <2>2
<1> QED
  BY <1>3, <1>5, <1>6 DEF HitsConserved

\* Each hit a source enqueued is in exactly one of the queue, the backlog, the
\* spill being filled and the spills given out.
THEOREM HitsAreConserved == Spec => []HitsConserved
BY Invariance, InvConserved, PTL

\* Hits are given to the project once each and, unless a source started late,
\* in order of time: what the window of spectrum.cpp relies on.
THEOREM HitsAreSorted == Spec => []TimeSorted
<1>1. Inv => TimeSorted
  BY DEF Inv, OnceInv, TimeInv, TimeSorted
<1> QED
  BY <1>1, Invariance, PTL

\* The builder ends only when each spill was given to the project.
THEOREM NothingIsLeft == Spec => []NothingLeftBehind
<1>1. Inv => NothingLeftBehind
  <2> SUFFICES ASSUME Inv, pc = "exited" PROVE NothingLeftBehind
    BY DEF NothingLeftBehind
  <2>1. data_queue = <<>> /\ current_spills = {}
    BY DEF Inv, ControlInv
  <2>2. Range(data_queue) = {}
    BY <2>1, NoRange
  <2>3. AllSpills = Range(delivered)
    BY <2>1, <2>2 DEF AllSpills
  <2>4. ASSUME NEW s \in Sources
        PROVE  {sp.k : sp \in {d \in Range(delivered) : d.source = s}} = 1..enqueued[s]
    <3>1. Count(s) = enqueued[s]
      BY Counts DEF Inv
    <3>2. \A sp \in Range(delivered) : sp.source = s => sp.k \in 1..enqueued[s]
      BY <2>3, <3>1 DEF Inv, SpillInv
    <3>3. \A k \in 1..enqueued[s] : \E sp \in Range(delivered) : sp.source = s /\ sp.k = k
      BY <2>3 DEF Inv, SpillInv, AllSpills
    <3> QED
      BY <3>2, <3>3
  <2> QED
    BY <2>1, <2>4 DEF NothingLeftBehind
<1> QED
  BY <1>1, Invariance, PTL
=============================================================================
