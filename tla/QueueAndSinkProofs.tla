--------------------------- MODULE QueueAndSinkProofs -------------------------
(***************************************************************************)
(* Proofs about the spill queue and about the sink at its other end, for   *)
(* constants of any size.                                                  *)
(*                                                                         *)
(* SynchronizedQueue: type correctness, that front() is never called on an *)
(* empty queue, that no wakeup of enqueue() is lost, and that the class    *)
(* implements the abstract channel.                                        *)
(* Spectrum1D: that totals and the user's choice stay right, and that the  *)
(* file holds the counts.                                                  *)
(* SpectrumTimes: that real and live time are those of the sources.        *)
(***************************************************************************)
EXTENDS SynchronizedQueue, Spectrum1D, SpectrumTimes, FiniteSetTheorems,
        SequenceTheorems, WellFoundedInduction, TLAPS

-----------------------------------------------------------------------------
(* SynchronizedQueue: the inductive invariant                              *)

\* Which kind of thread runs which method, and who is inside its lock.
Roles ==
  /\ \A p \in Producers : pc[p] \in {"idle", "push"}
  /\ \A c \in Consumers : pc[c] \in {"idle", "check", "park", "waiting", "take", "ended"}
  /\ \A s \in Stoppers : pc[s] \in {"idle", "notify", "ended"}

LockInv == \A t \in Threads :
             pc[t] \in {"push", "check", "park", "take"} <=> mutex_ = t

PushInv == \A p \in Producers : pc[p] = "push" => produced[p] < MaxPerProducer

WaitInv == \A c \in cond_ : pc[c] = "waiting"

\* A consumer that decided to wait still sees what it decided on.
ParkInv == \A c \in Consumers : pc[c] = "park" => queue_ = <<>>

QueueInv == /\ TypeOK /\ Roles /\ LockInv /\ PushInv /\ WaitInv /\ ParkInv
            /\ FrontIsDefined /\ NoLostWakeup

-----------------------------------------------------------------------------
LEMMA ActiveIsFinite ==
  ASSUME QueueAssumption
  PROVE  /\ IsFiniteSet(Active)
         /\ Cardinality(Active) \in Nat
BY FS_Subset, FS_CardinalityType DEF QueueAssumption, Active

\* Cardinalities of sets of consumers that differ in one member.
LEMMA OneMore ==
  ASSUME QueueAssumption, NEW S \in SUBSET Consumers, NEW c \in Consumers, c \notin S
  PROVE  /\ Cardinality(S) \in Nat
         /\ Cardinality(S \cup {c}) = Cardinality(S) + 1
BY FS_Subset, FS_CardinalityType, FS_AddElement DEF QueueAssumption

LEMMA NoFewer ==
  ASSUME QueueAssumption, NEW S \in SUBSET Consumers, NEW T \in SUBSET S
  PROVE  /\ Cardinality(S) \in Nat
         /\ Cardinality(T) \in Nat
         /\ Cardinality(T) <= Cardinality(S)
BY FS_Subset, FS_CardinalityType DEF QueueAssumption

-----------------------------------------------------------------------------
\* Every step keeps the types.
LEMMA TypeStep ==
  ASSUME QueueAssumption, TypeOK, Roles, PushInv, FrontIsDefined, [Next]_vars
  PROVE  TypeOK'
<1> USE QueueAssumption DEF TypeOK, Threads
<1>1. ASSUME NEW p \in Producers, EnqueueLock(p) PROVE TypeOK'
  BY <1>1 DEF EnqueueLock, Goto, Acquire
<1>2. ASSUME NEW p \in Producers, EnqueuePush(p) PROVE TypeOK'
  <2>1. produced' \in [Producers -> 0..MaxPerProducer] /\ <<p, produced'[p]>> \in Items
    BY <1>2 DEF EnqueuePush, Goto, PushInv, QueueAssumption, Items
  <2>2. queue_' \in Seq(Items)
    BY <1>2, <2>1, AppendProperties DEF EnqueuePush
  <2> QED
    BY <1>2, <2>1, <2>2 DEF EnqueuePush, Goto, Release, NotifyOne
<1>3. ASSUME NEW c \in Consumers, DequeueLock(c) \/ Relock(c) PROVE TypeOK'
  BY <1>3 DEF DequeueLock, Relock, Goto, Acquire
<1>4. ASSUME NEW c \in Consumers, DequeueCheck(c) PROVE TypeOK'
  BY <1>4 DEF DequeueCheck, Goto
<1>5. ASSUME NEW c \in Consumers, DequeuePark(c) PROVE TypeOK'
  BY <1>5 DEF DequeuePark, Goto, Release
<1>6. ASSUME NEW c \in Consumers, SpuriousWake(c) PROVE TypeOK'
  BY <1>6 DEF SpuriousWake
<1>7. ASSUME NEW c \in Consumers, DequeueTake(c) PROVE TypeOK'
  <2>1. queue_ # <<>>
    BY <1>7 DEF DequeueTake, Goto, FrontIsDefined
  <2>2. Head(queue_) \in Items /\ Tail(queue_) \in Seq(Items)
    BY <2>1, HeadTailProperties
  <2> QED
    BY <1>7, <2>2, AppendProperties DEF DequeueTake, Goto, Release
<1>8. ASSUME NEW c \in Consumers, DequeueNull(c) PROVE TypeOK'
  BY <1>8 DEF DequeueNull, Goto, Release
<1>9. ASSUME NEW s \in Stoppers, StopSet(s) \/ StopNotify(s) PROVE TypeOK'
  BY <1>9 DEF StopSet, StopNotify, Goto
<1>10. CASE UNCHANGED vars
  BY <1>10 DEF vars
<1> QED
  BY <1>1, <1>2, <1>3, <1>4, <1>5, <1>6, <1>7, <1>8, <1>9, <1>10
     DEF Next, Enqueue, Dequeue, Stop

\* Every step keeps who runs what, the lock, and what is known inside it.
LEMMA ControlStep ==
  ASSUME QueueAssumption, QueueInv, [Next]_vars
  PROVE  (Roles /\ LockInv /\ PushInv /\ WaitInv /\ ParkInv /\ FrontIsDefined)'
<1> DEFINE Control == Roles /\ LockInv /\ PushInv /\ WaitInv /\ ParkInv /\ FrontIsDefined
<1> USE QueueAssumption
        DEF QueueInv, TypeOK, Threads, QueueAssumption, Roles, LockInv, PushInv,
            WaitInv, ParkInv, FrontIsDefined, Goto
<1>1. ASSUME NEW p \in Producers, EnqueueLock(p) PROVE Control'
  BY <1>1 DEF EnqueueLock, Acquire
<1>2. ASSUME NEW p \in Producers, EnqueuePush(p) PROVE Control'
  <2>1. <<p, produced'[p]>> \in Items
    BY <1>2 DEF EnqueuePush, Items
  <2>2. queue_' # <<>>
    BY <1>2, <2>1, AppendProperties DEF EnqueuePush
  <2>3. \A t \in Threads : t # p => pc[t] \notin {"push", "check", "park", "take"}
    BY <1>2 DEF EnqueuePush, Release
  <2> QED
    BY <1>2, <2>2, <2>3 DEF EnqueuePush, Release, NotifyOne
<1>3. ASSUME NEW c \in Consumers, DequeueLock(c) \/ Relock(c) PROVE Control'
  BY <1>3, SMTT(30) DEF DequeueLock, Relock, Acquire
<1>4. ASSUME NEW c \in Consumers, DequeueCheck(c) PROVE Control'
  BY <1>4 DEF DequeueCheck, MustWait
<1>5. ASSUME NEW c \in Consumers, DequeuePark(c) PROVE Control'
  BY <1>5 DEF DequeuePark, Release
<1>6. ASSUME NEW c \in Consumers, SpuriousWake(c) PROVE Control'
  BY <1>6 DEF SpuriousWake
<1>7. ASSUME NEW c \in Consumers, DequeueTake(c) PROVE Control'
  <2>1. \A t \in Threads : t # c => pc[t] \notin {"push", "check", "park", "take"}
    BY <1>7 DEF DequeueTake, Release
  <2> QED
    BY <1>7, <2>1 DEF DequeueTake, Release
<1>8. ASSUME NEW c \in Consumers, DequeueNull(c) PROVE Control'
  BY <1>8 DEF DequeueNull, Release
<1>9. ASSUME NEW s \in Stoppers, StopSet(s) \/ StopNotify(s) PROVE Control'
  BY <1>9, ZenonT(30) DEF StopSet, StopNotify
<1>10. CASE UNCHANGED vars
  BY <1>10 DEF vars
<1> QED
  BY <1>1, <1>2, <1>3, <1>4, <1>5, <1>6, <1>7, <1>8, <1>9, <1>10
     DEF Next, Enqueue, Dequeue, Stop

-----------------------------------------------------------------------------
(***************************************************************************)
(* Every step keeps NoLostWakeup.  A push adds one item and moves one      *)
(* sleeper to Active; a pop takes one of each away; a consumer goes to     *)
(* sleep only beside an empty queue.                                       *)
(***************************************************************************)
LEMMA WakeupStep ==
  ASSUME QueueAssumption, QueueInv, [Next]_vars
  PROVE  NoLostWakeup'
<1> SUFFICES ASSUME (~end_queue_ /\ cond_ # {})'
             PROVE  (Len(queue_) <= Cardinality(Active))'
  BY DEF NoLostWakeup
<1> USE QueueAssumption DEF QueueInv, TypeOK, Goto
<1>1. Active \in SUBSET Consumers /\ Active' \in SUBSET Consumers
  BY DEF Active
<1>2. Len(queue_) \in Nat
  BY LenProperties
<1>3. \* Steps that add to Active, at most, and leave the queue and the sleepers.
      ASSUME ~end_queue_, cond_ # {}, queue_' = queue_, Active \subseteq Active'
      PROVE  (Len(queue_) <= Cardinality(Active))'
  BY <1>1, <1>2, <1>3, NoFewer DEF NoLostWakeup
<1>4. ASSUME NEW p \in Producers, EnqueueLock(p) PROVE (Len(queue_) <= Cardinality(Active))'
  <2>1. Active' = Active
    BY <1>4 DEF EnqueueLock, Active, QueueAssumption, Threads
  <2> QED
    BY <1>3, <1>4, <2>1 DEF EnqueueLock
<1>5. ASSUME NEW p \in Producers, EnqueuePush(p) PROVE (Len(queue_) <= Cardinality(Active))'
  <2>1. PICK c \in cond_ : cond_' = cond_ \ {c}
    BY <1>5 DEF EnqueuePush, NotifyOne
  <2>2. Active' = Active \cup {c} /\ c \notin Active /\ c \in Consumers
    BY <1>5, <2>1 DEF EnqueuePush, Active, WaitInv, QueueAssumption, Threads
  <2>3. Cardinality(Active') = Cardinality(Active) + 1 /\ Cardinality(Active) \in Nat
    BY <1>1, <2>2, OneMore
  <2>4. <<p, produced'[p]>> \in Items
    BY <1>5 DEF EnqueuePush, PushInv, Items, QueueAssumption
  <2>5. Len(queue_') = Len(queue_) + 1
    BY <1>5, <2>4, AppendProperties DEF EnqueuePush
  <2>6. Len(queue_) <= Cardinality(Active)
    BY <1>5, <2>1 DEF EnqueuePush, NoLostWakeup
  <2> QED
    BY <1>2, <2>3, <2>5, <2>6
<1>6. ASSUME NEW c \in Consumers, DequeueLock(c) \/ Relock(c) \/ DequeueCheck(c)
      PROVE  (Len(queue_) <= Cardinality(Active))'
  <2>1. Active \subseteq Active'
    BY <1>6 DEF DequeueLock, Relock, DequeueCheck, Active, Threads
  <2> QED
    BY <1>3, <1>6, <2>1 DEF DequeueLock, Relock, DequeueCheck
<1>7. ASSUME NEW c \in Consumers, DequeuePark(c) PROVE (Len(queue_) <= Cardinality(Active))'
  <2>1. queue_' = <<>>
    BY <1>7 DEF DequeuePark, ParkInv
  <2> QED
    BY <1>1, <2>1, NoFewer, EmptySeq
<1>8. ASSUME NEW c \in Consumers, SpuriousWake(c) PROVE (Len(queue_) <= Cardinality(Active))'
  <2>1. Active \subseteq Active'
    BY <1>8 DEF SpuriousWake, Active
  <2> QED
    BY <1>3, <1>8, <2>1 DEF SpuriousWake
<1>9. ASSUME NEW c \in Consumers, DequeueTake(c) PROVE (Len(queue_) <= Cardinality(Active))'
  <2>1. Active = Active' \cup {c} /\ c \notin Active'
    BY <1>9 DEF DequeueTake, Active, Threads
  <2>2. Cardinality(Active) = Cardinality(Active') + 1 /\ Cardinality(Active') \in Nat
    BY <1>1, <2>1, OneMore
  <2>3. queue_ # <<>>
    BY <1>9 DEF DequeueTake, FrontIsDefined
  <2>4. Len(queue_') = Len(queue_) - 1
    BY <1>9, <2>3, HeadTailProperties DEF DequeueTake
  <2>5. Len(queue_) <= Cardinality(Active)
    BY <1>9 DEF DequeueTake, NoLostWakeup
  <2> QED
    BY <1>2, <2>2, <2>4, <2>5
<1>10. ASSUME NEW c \in Consumers, DequeueNull(c) PROVE FALSE
  BY <1>10 DEF DequeueNull
<1>11. ASSUME NEW s \in Stoppers, StopSet(s) \/ StopNotify(s) PROVE FALSE
  BY <1>11 DEF StopSet, StopNotify
<1>12. CASE UNCHANGED vars
  BY <1>3, <1>12 DEF vars, Active
<1> QED
  BY <1>4, <1>5, <1>6, <1>7, <1>8, <1>9, <1>10, <1>11, <1>12
     DEF Next, Enqueue, Dequeue, Stop

-----------------------------------------------------------------------------
LEMMA InitQueueInv ==
  ASSUME QueueAssumption, Init
  PROVE  QueueInv
<1> USE DEF QueueAssumption, Init, Threads
<1>1. TypeOK
  <2>1. queue_ \in Seq(Items) /\ received \in Seq(Items)
    BY EmptySeq
  <2>2. pc \in [Threads -> {"idle", "push", "check", "park", "waiting", "take",
                           "notify", "ended"}]
    OBVIOUS
  <2>3. produced \in [Producers -> 0..MaxPerProducer]
    OBVIOUS
  <2> QED
    BY <2>1, <2>2, <2>3 DEF TypeOK
<1>2. Roles /\ LockInv /\ PushInv
  BY DEF Roles, LockInv, PushInv
<1>3. WaitInv /\ ParkInv /\ FrontIsDefined /\ NoLostWakeup
  BY DEF WaitInv, ParkInv, FrontIsDefined, NoLostWakeup
<1> QED
  BY <1>1, <1>2, <1>3 DEF QueueInv

\* The invariant behind the theorems below holds in every behaviour.
THEOREM Invariance == Spec => []QueueInv
<1>1. Init => QueueInv
  BY QueueAssumption, InitQueueInv
<1>2. QueueInv /\ [Next]_vars => QueueInv'
  BY QueueAssumption, TypeStep, ControlStep, WakeupStep DEF QueueInv
<1> QED
  BY <1>1, <1>2, PTL DEF Spec

\* Type correctness of the queue.
THEOREM TypeCorrect == Spec => []TypeOK
BY Invariance, PTL DEF QueueInv

(***************************************************************************)
(* dequeue() calls front() and pop() on a non-empty queue only, whenever   *)
(* stop() sets the flag it reads twice.                                    *)
(***************************************************************************)
THEOREM FrontIsSafe == Spec => []FrontIsDefined
BY Invariance, PTL DEF QueueInv

(***************************************************************************)
(* One notify_one for each enqueue() is enough for any number of producers *)
(* and consumers.                                                          *)
(***************************************************************************)
THEOREM WakeupsSuffice == Spec => []NoLostWakeup
BY Invariance, PTL DEF QueueInv

-----------------------------------------------------------------------------
\* A step of the queue is a step of the channel, or leaves it alone.
LEMMA ChannelStep ==
  ASSUME QueueAssumption, QueueInv, [Next]_vars
  PROVE  [Channel!Next]_(Channel!chanVars)
<1> USE QueueAssumption DEF QueueInv, TypeOK, Threads, QueueAssumption, Goto
<1> DEFINE ended == {c \in Consumers : pc[c] = "ended"}
<1>1. ASSUME NEW p \in Producers, EnqueueLock(p) PROVE UNCHANGED Channel!chanVars
  BY <1>1 DEF EnqueueLock, Channel!chanVars
<1>2. ASSUME NEW p \in Producers, EnqueuePush(p) PROVE \E d \in Items : Channel!Put(d)
  <2>1. <<p, produced'[p]>> \in Items
    BY <1>2 DEF EnqueuePush, PushInv, Items
  <2>2. ended' = ended
    BY <1>2 DEF EnqueuePush
  <2> QED
    BY <1>2, <2>1, <2>2 DEF EnqueuePush, Channel!Put
<1>3. ASSUME NEW c \in Consumers,
             DequeueLock(c) \/ Relock(c) \/ DequeueCheck(c) \/ DequeuePark(c) \/ SpuriousWake(c)
      PROVE  UNCHANGED Channel!chanVars
  <2>1. ended' = ended
    BY <1>3 DEF DequeueLock, Relock, DequeueCheck, DequeuePark, SpuriousWake
  <2> QED
    BY <1>3, <2>1 DEF DequeueLock, Relock, DequeueCheck, DequeuePark, SpuriousWake,
                      Channel!chanVars
<1>4. ASSUME NEW c \in Consumers, DequeueTake(c) PROVE Channel!Get
  <2>1. queue_ # <<>>
    BY <1>4 DEF DequeueTake, FrontIsDefined
  <2>2. ended' = ended
    BY <1>4 DEF DequeueTake
  <2> QED
    BY <1>4, <2>1, <2>2 DEF DequeueTake, Channel!Get
<1>5. ASSUME NEW c \in Consumers, DequeueNull(c) PROVE Channel!End(c)
  <2>1. ended' = ended \cup {c}
    BY <1>5 DEF DequeueNull
  <2> QED
    BY <1>5, <2>1 DEF DequeueNull, Channel!End
<1>6. ASSUME NEW s \in Stoppers, StopSet(s) PROVE Channel!Close
  <2>1. ended' = ended
    BY <1>6 DEF StopSet
  <2> QED
    BY <1>6, <2>1 DEF StopSet, Channel!Close
<1>7. ASSUME NEW s \in Stoppers, StopNotify(s) PROVE UNCHANGED Channel!chanVars
  <2>1. ended' = ended
    BY <1>7 DEF StopNotify
  <2> QED
    BY <1>7, <2>1 DEF StopNotify, Channel!chanVars
<1>8. CASE UNCHANGED vars
  BY <1>8 DEF vars, Channel!chanVars
<1> QED
  BY <1>1, <1>2, <1>3, <1>4, <1>5, <1>6, <1>7, <1>8
     DEF Next, Enqueue, Dequeue, Stop, Channel!Next

(***************************************************************************)
(* SynchronizedQueue implements the closeable FIFO channel: the modules    *)
(* that use queues may use the channel in its place.                       *)
(***************************************************************************)
THEOREM ImplementsChannel == Spec => ChannelSpec
<1>1. Init => Channel!Init
  BY QueueAssumption DEF Init, Channel!Init, Threads
<1>2. QueueInv /\ [Next]_vars => [Channel!Next]_(Channel!chanVars)
  BY QueueAssumption, ChannelStep
<1> QED
  BY <1>1, <1>2, Invariance, PTL DEF Spec, ChannelSpec, Channel!Spec

-----------------------------------------------------------------------------
(* Induction and recursion up to a number                                  *)

\* what holds at 0, and at k + 1 with k, holds up to N
LEMMA UpTo ==
  ASSUME NEW N \in Nat, NEW P, 0 \in P, \A k \in 0..N : k < N /\ k \in P => k + 1 \in P
  PROVE  \A k \in 0..N : k \in P
<1> DEFINE Out == {k \in 0..N : k \notin P}
<1> SUFFICES ASSUME Out # {} PROVE FALSE
  OBVIOUS
<1>1. Out \in SUBSET Nat
  OBVIOUS
<1>2. PICK m \in Out : \A j \in Out : ~(<<j, m>> \in OpToRel(<, Nat))
  <2> HIDE DEF Out
  <2> QED
    BY <1>1, WFMin, NatLessThanWellFounded
<1>3. \A j \in Out : ~(j < m)
  BY <1>1, <1>2 DEF OpToRel
<1>4. m # 0 /\ m \in 0..N
  OBVIOUS
<1>5. m - 1 \in 0..N /\ m - 1 < N /\ m - 1 < m
  BY <1>4
<1>6. m - 1 \in P
  BY <1>3, <1>5
<1> QED
  BY <1>4, <1>5, <1>6

\* a function that is defined step by step exists
Steps(f, N, base, step) ==
  f[0] = base /\ \A n \in 1..N : f[n] = step[<<n, f[n - 1]>>]

LEMMA StepsExist ==
  ASSUME NEW N \in Nat, NEW S, NEW base \in S, NEW step \in [(1..N) \X S -> S]
  PROVE  \E f \in [0..N -> S] : Steps(f, N, base, step)
<1> DEFINE P == {k \in 0..N : \E f \in [0..k -> S] : Steps(f, k, base, step)}
<1>1. 0 \in P
  <2> DEFINE f == [n \in 0..0 |-> base]
  <2>1. f \in [0..0 -> S] /\ Steps(f, 0, base, step)
    BY DEF Steps
  <2> QED
    BY <2>1
<1>2. ASSUME NEW k \in 0..N, k < N, k \in P PROVE k + 1 \in P
  <2>1. PICK f \in [0..k -> S] : Steps(f, k, base, step)
    BY <1>2
  <2> DEFINE x == step[<<k + 1, f[k]>>]
             g == [n \in 0..k + 1 |-> IF n = k + 1 THEN x ELSE f[n]]
  <2>2. x \in S
    <3>1. k + 1 \in 1..N /\ f[k] \in S
      BY <1>2
    <3>2. <<k + 1, f[k]>> \in (1..N) \X S
      BY <3>1
    <3> QED
      BY <3>2
  <2>3. g \in [0..k + 1 -> S]
    BY <2>2
  <2>4. ASSUME NEW n \in 1..k + 1 PROVE g[n] = step[<<n, g[n - 1]>>]
    <3>1. CASE n = k + 1
      <4>1. g[k + 1] = x /\ g[k] = f[k]
        OBVIOUS
      <4>2. n - 1 = k
        BY <3>1
      <4> HIDE DEF g
      <4> QED
        BY <3>1, <4>1, <4>2
    <3>2. CASE n # k + 1
      BY <2>1, <3>2 DEF Steps
    <3> QED
      BY <3>1, <3>2
  <2>5. g[0] = base
    BY <2>1 DEF Steps
  <2> HIDE DEF g
  <2>6. Steps(g, k + 1, base, step)
    BY <2>4, <2>5 DEF Steps
  <2> QED
    BY <1>2, <2>3, <2>6
<1> HIDE DEF P
<1>3. N \in P
  BY <1>1, <1>2, UpTo
<1> QED
  BY <1>3 DEF P

-----------------------------------------------------------------------------
(* Spectrum1D: the data in a file                                          *)

Tokens == [zeros : Nat, count : Nat]

\* p is where the tokens t go
Laid(t, p) ==
  /\ p \in [0..Len(t) -> Nat] /\ p[0] = 0
  /\ \A n \in 1..Len(t) : p[n] = p[n - 1] + Width(t[n])

LEMMA WidthIs == ASSUME NEW x \in Tokens PROVE Width(x) \in Nat /\ Width(x) > 0
BY DEF Tokens, Width

LEMMA PositionIs ==
  ASSUME NEW t \in Seq(Tokens)
  PROVE  \E p : Laid(t, p) /\ \A i \in 1..Len(t) + 1 : Position(t, i) = p[i - 1]
<1> DEFINE N == Len(t)
           step == [x \in (1..N) \X Nat |-> x[2] + Width(t[x[1]])]
           Right(q) == q = [n \in 0..N |-> IF n = 0 THEN 0 ELSE q[n - 1] + Width(t[n])]
           p == CHOOSE q : Right(q)
<1>1. N \in Nat /\ \A n \in 1..N : Width(t[n]) \in Nat
  BY WidthIs
<1>2. step \in [(1..N) \X Nat -> Nat]
  BY <1>1
<1>3. PICK f \in [0..N -> Nat] : Steps(f, N, 0, step)
  <2> HIDE DEF step, N
  <2> QED
    BY <1>1, <1>2, StepsExist
<1>4. Right(f)
  <2>1. ASSUME NEW n \in 1..N PROVE f[n] = f[n - 1] + Width(t[n])
    <3>1. f[n] = step[<<n, f[n - 1]>>]
      BY <1>3 DEF Steps
    <3>2. n - 1 \in 0..N /\ f[n - 1] \in Nat
      <4>1. N \in Nat
        OBVIOUS
      <4> HIDE DEF N
      <4>2. n - 1 \in 0..N
        BY <4>1
      <4> QED
        BY <4>2
    <3>3. <<n, f[n - 1]>> \in (1..N) \X Nat
      BY <3>2
    <3>4. step[<<n, f[n - 1]>>] = f[n - 1] + Width(t[n])
      BY <3>3
    <3> QED
      BY <3>1, <3>4
  <2>2. f[0] = 0
    BY <1>3 DEF Steps
  <2>3. \A n \in 0..N : f[n] = IF n = 0 THEN 0 ELSE f[n - 1] + Width(t[n])
    BY <1>1, <2>1, <2>2
  <2> QED
    BY <2>3
<1>5. Right(p)
  BY <1>4
<1>6. \A i : Position(t, i) = p[i - 1]
  BY DEF Position
<1>7. p[0] = 0 /\ DOMAIN p = 0..N /\ \A n \in 1..N : p[n] = p[n - 1] + Width(t[n])
  <2> HIDE DEF p
  <2>1. p = [n \in 0..N |-> IF n = 0 THEN 0 ELSE p[n - 1] + Width(t[n])]
    BY <1>5
  <2> QED
    BY <1>1, <2>1
<1> HIDE DEF p
<1> DEFINE P == {k \in 0..N : p[k] \in Nat}
<1>8. \A k \in 0..N : k \in P
  <2>1. 0 \in P
    BY <1>1, <1>7
  <2>2. \A k \in 0..N : k < N /\ k \in P => k + 1 \in P
    BY <1>1, <1>7
  <2> HIDE DEF P
  <2> QED
    BY <1>1, <2>1, <2>2, UpTo
<1>9. p \in [0..N -> Nat]
  <2>1. p = [n \in 0..N |-> p[n]]
    BY <1>5
  <2> QED
    BY <1>8, <2>1
<1> QED
  BY <1>6, <1>7, <1>9 DEF Laid

LEMMA LaidOnce ==
  ASSUME NEW t \in Seq(Tokens), NEW p, NEW q, Laid(t, p), Laid(t, q)
  PROVE  p = q
<1> DEFINE P == {k \in 0..Len(t) : p[k] = q[k]}
<1>1. 0 \in P
  BY DEF Laid
<1>2. \A k \in 0..Len(t) : k < Len(t) /\ k \in P => k + 1 \in P
  BY DEF Laid
<1>3. \A k \in 0..Len(t) : k \in P
  <2> HIDE DEF P
  <2> QED
    BY <1>1, <1>2, UpTo
<1> QED
  BY <1>3 DEF Laid

LEMMA Appended ==
  ASSUME NEW S, NEW s \in Seq(S), NEW x \in S, NEW t, t = Append(s, x)
  PROVE  /\ t \in Seq(S) /\ Len(t) = Len(s) + 1 /\ t[Len(s) + 1] = x
         /\ \A i \in 1..Len(s) : t[i] = s[i]
OBVIOUS

LEMMA AppendedNone ==
  ASSUME NEW S, NEW s \in Seq(S)
  PROVE  s \o << >> = s
OBVIOUS

LEMMA AppendedOne ==
  ASSUME NEW S, NEW s \in Seq(S), NEW x \in S
  PROVE  s \o <<x>> = Append(s, x)
OBVIOUS

LEMMA TokensAre ==
  ASSUME NEW n \in Nat
  PROVE  /\ Zeros(n) \in Tokens /\ Zeros(n).zeros = n
         /\ Count(n) \in Tokens /\ Count(n).zeros = 0 /\ Count(n).count = n
BY DEF Zeros, Count, Tokens

\* the record that _data_to_xml() goes on from
Outs == [tokens : Seq(Tokens), z : Nat]

\* what becomes of it with a count
Taken(o, c, r) ==
  /\ r \in Outs
  /\ c = 0 => r.tokens = o.tokens /\ r.z = o.z + 1
  /\ c # 0 /\ o.z = 0 => r.tokens = Append(o.tokens, Count(c)) /\ r.z = 0
  /\ c # 0 /\ o.z # 0 =>
       r.tokens = Append(Append(o.tokens, Zeros(o.z)), Count(c)) /\ r.z = 0

LEMMA TokenIs == ASSUME NEW o \in Outs, NEW c \in Nat PROVE Taken(o, c, Token(o, c))
<1> DEFINE r == Token(o, c)
           t == o.tokens
           x == Zeros(o.z)
           y == Count(c)
<1>1. t \in Seq(Tokens) /\ o.z \in Nat
  BY DEF Outs
<1>2. x \in Tokens /\ y \in Tokens
  BY <1>1, TokensAre
<1>3. CASE c = 0
  BY <1>1, <1>3 DEF Token, Outs, Taken
<1>4. CASE c # 0
  <2> DEFINE u == t \o (IF o.z = 0 THEN << >> ELSE <<x>>)
  <2>1. r = [tokens |-> u \o <<y>>, z |-> 0]
    BY <1>4 DEF Token
  <2> HIDE DEF x, y, t
  <2>2. u = IF o.z = 0 THEN t ELSE Append(t, x)
    BY <1>1, <1>2, AppendedNone, AppendedOne
  <2>3. Append(t, x) \in Seq(Tokens)
    BY <1>1, <1>2
  <2>4. u \in Seq(Tokens)
    BY <1>1, <2>2, <2>3
  <2> HIDE DEF u
  <2>5. u \o <<y>> = Append(u, y) /\ Append(u, y) \in Seq(Tokens)
    BY <1>2, <2>4, AppendedOne
  <2>6. r.tokens = Append(u, y) /\ r.z = 0 /\ r \in Outs
    BY <2>1, <2>5 DEF Outs
  <2> QED
    BY <1>4, <2>2, <2>6 DEF t, x, y, Taken
<1> QED
  BY <1>3, <1>4

\* Tokens t, and z zeros after them, are the first n bins of s.
Lays(s, n, t, z, p) ==
  /\ Laid(t, p) /\ p[Len(t)] + z = n
  /\ \A i \in 1..Len(t) : p[i - 1] < p[Len(t)]
  /\ \A i \in 1..Len(t) : t[i].zeros = 0 => t[i].count = s[p[i - 1]]
  /\ \A b \in 0..n - 1 :
       s[b] # 0 => \E i \in 1..Len(t) : t[i].zeros = 0 /\ p[i - 1] = b

Coded(s, n, t, z) ==
  t \in Seq(Tokens) /\ z \in Nat /\ \E p : Lays(s, n, t, z, p)

\* one more token
Extended(t, p, u, q) ==
  /\ Laid(u, q) /\ \A i \in 1..Len(u) : q[i - 1] < q[Len(u)]
  /\ \A i \in 0..Len(t) : q[i] = p[i]

LEMMA LaidLonger ==
  ASSUME NEW t \in Seq(Tokens), NEW p, Laid(t, p), \A i \in 1..Len(t) : p[i - 1] < p[Len(t)],
         NEW x \in Tokens, NEW u, u = Append(t, x)
  PROVE  \E q : Extended(t, p, u, q)
<1> DEFINE N == Len(t)
           q == [i \in 0..N + 1 |-> IF i = N + 1 THEN p[N] + Width(x) ELSE p[i]]
<1>1. /\ u \in Seq(Tokens) /\ Len(u) = N + 1 /\ u[N + 1] = x /\ N \in Nat
      /\ \A i \in 1..N : u[i] = t[i]
  BY Appended
<1>2. /\ p \in [0..N -> Nat] /\ p[0] = 0
      /\ \A n \in 1..N : p[n] = p[n - 1] + Width(t[n])
      /\ Width(x) \in Nat /\ Width(x) > 0
  BY WidthIs DEF Laid
<1>3. q \in [0..N + 1 -> Nat] /\ q[N + 1] = p[N] + Width(x) /\ \A i \in 0..N : q[i] = p[i]
  <2>1. N \in Nat /\ \A i \in 0..N : p[i] \in Nat
    BY <1>1, <1>2
  <2>2. Width(x) \in Nat
    BY <1>2
  <2> HIDE DEF N
  <2>3. p[N] + Width(x) \in Nat
    BY <2>1, <2>2
  <2>4. \A i \in 0..N + 1 : i # N + 1 => i \in 0..N
    BY <2>1
  <2>5. N + 1 \in 0..N + 1 /\ \A i \in 0..N : i \in 0..N + 1 /\ i # N + 1
    BY <2>1
  <2>6. \A i \in 0..N + 1 : q[i] \in Nat
    BY <2>1, <2>3, <2>4
  <2> QED
    BY <2>5, <2>6
<1> HIDE DEF q
<1>4. ASSUME NEW n \in 1..N + 1 PROVE q[n] = q[n - 1] + Width(u[n])
  <2>1. CASE n = N + 1
    <3>1. n - 1 = N /\ N \in 0..N
      BY <1>1, <2>1
    <3> QED
      BY <1>1, <1>3, <2>1, <3>1
  <2>2. CASE n # N + 1
    <3>1. n \in 1..N /\ n - 1 \in 0..N /\ n \in 0..N
      BY <1>1, <2>2
    <3> QED
      BY <1>1, <1>2, <1>3, <3>1
  <2> QED
    BY <2>1, <2>2
<1>5. ASSUME NEW i \in 1..N + 1 PROVE q[i - 1] < q[N + 1]
  <2>0. i - 1 \in 0..N /\ N \in 0..N
    BY <1>1
  <2>1. q[i - 1] = p[i - 1] /\ p[N] \in Nat /\ p[i - 1] \in Nat
    BY <1>2, <1>3, <2>0
  <2>2. p[i - 1] <= p[N]
    <3>1. CASE i = N + 1
      BY <1>1, <2>1, <3>1
    <3>2. CASE i \in 1..N
      BY <1>2, <2>1, <3>2
    <3> QED
      BY <1>1, <3>1, <3>2
  <2> QED
    BY <1>2, <1>3, <2>1, <2>2
<1>6. 0 \in 0..N
  BY <1>1
<1> QED
  BY <1>1, <1>2, <1>3, <1>4, <1>5, <1>6 DEF Laid, Extended

LEMMA CodedNothing ==
  ASSUME NEW s, NEW n \in Nat, NEW t, NEW z, Coded(s, n, t, z), s[n] = 0
  PROVE  Coded(s, n + 1, t, z + 1)
<1>1. PICK p : Lays(s, n, t, z, p)
  BY DEF Coded
<1>2. t \in Seq(Tokens) /\ z \in Nat /\ p[Len(t)] + z = n /\ Len(t) \in 0..Len(t)
  BY <1>1 DEF Coded, Lays
<1>3. p[Len(t)] \in Nat
  BY <1>1, <1>2 DEF Lays, Laid
<1>4. p[Len(t)] + (z + 1) = n + 1
  BY <1>2, <1>3
<1>5. ASSUME NEW b \in 0..n + 1 - 1, s[b] # 0
      PROVE  \E i \in 1..Len(t) : t[i].zeros = 0 /\ p[i - 1] = b
  <2>1. b \in 0..n - 1
    BY <1>5
  <2> QED
    BY <1>1, <1>5, <2>1 DEF Lays
<1>6. Lays(s, n + 1, t, z + 1, p)
  <2>1. z + 1 \in Nat
    BY <1>2
  <2> DEFINE m == n + 1
             y == z + 1
  <2>2. p[Len(t)] + y = m /\ y \in Nat
    BY <1>4, <2>1
  <2>3. \A b \in 0..m - 1 : s[b] # 0 => \E i \in 1..Len(t) : t[i].zeros = 0 /\ p[i - 1] = b
    BY <1>5
  <2> HIDE DEF m, y
  <2>4. Lays(s, m, t, y, p)
    BY <1>1, <2>2, <2>3 DEF Lays
  <2> QED
    BY <2>4 DEF m, y
<1> QED
  BY <1>2, <1>6 DEF Coded

LEMMA CodedZeros ==
  ASSUME NEW s, NEW n \in Nat, NEW t, NEW z, Coded(s, n, t, z), z # 0,
         NEW u, u = Append(t, Zeros(z))
  PROVE  Coded(s, n, u, 0)
<1> DEFINE x == Zeros(z)
           N == Len(t)
<1>1. PICK p : Lays(s, n, t, z, p)
  BY DEF Coded
<1>2. /\ t \in Seq(Tokens) /\ z \in Nat /\ p[N] + z = n /\ N \in Nat /\ Laid(t, p)
      /\ x \in Tokens /\ x.zeros = z
  BY <1>1, TokensAre DEF Coded, Lays
<1>3. /\ u \in Seq(Tokens) /\ Len(u) = N + 1 /\ u[N + 1] = x
      /\ \A i \in 1..N : u[i] = t[i]
  BY <1>2, Appended
<1> HIDE DEF x
<1>4. PICK q : /\ Laid(u, q) /\ \A i \in 1..Len(u) : q[i - 1] < q[Len(u)]
               /\ \A i \in 0..N : q[i] = p[i]
  <2>1. u = Append(t, x) /\ \A i \in 1..Len(t) : p[i - 1] < p[Len(t)]
    BY <1>1 DEF Lays, x
  <2>2. \E q : Extended(t, p, u, q)
    BY <1>2, <2>1, LaidLonger
  <2> QED
    BY <2>2 DEF Extended
<1>5. q[N + 1] = n
  <2>1. q[N + 1] = q[N] + Width(x) /\ q[N] = p[N] /\ p[N] \in Nat
    <3>1. N + 1 \in 1..Len(u) /\ N \in 0..N /\ N + 1 - 1 = N
      BY <1>2, <1>3
    <3>2. \A i \in 1..Len(u) : q[i] = q[i - 1] + Width(u[i])
      BY <1>4 DEF Laid
    <3>3. q[N + 1] = q[N] + Width(x)
      BY <1>3, <3>1, <3>2
    <3>4. p[N] \in Nat
      BY <1>2, <3>1 DEF Laid
    <3> QED
      BY <1>4, <3>1, <3>3, <3>4
  <2>2. Width(x) = z
    BY <1>2 DEF Width
  <2> QED
    BY <1>2, <2>1, <2>2
<1>6. ASSUME NEW i \in 1..N
      PROVE  i \in 1..Len(u) /\ u[i] = t[i] /\ q[i - 1] = p[i - 1]
  <2>1. i - 1 \in 0..N /\ i \in 1..N + 1
    BY <1>2
  <2> QED
    BY <1>3, <1>4, <2>1
<1>7. ASSUME NEW i \in 1..Len(u), u[i].zeros = 0 PROVE u[i].count = s[q[i - 1]]
  <2>1. i # N + 1
    BY <1>2, <1>3, <1>7
  <2>2. i \in 1..N
    BY <1>2, <1>3, <2>1
  <2> QED
    BY <1>1, <1>6, <1>7, <2>2 DEF Lays
<1>8. ASSUME NEW b \in 0..n - 1, s[b] # 0
      PROVE  \E i \in 1..Len(u) : u[i].zeros = 0 /\ q[i - 1] = b
  <2>1. PICK i \in 1..N : t[i].zeros = 0 /\ p[i - 1] = b
    BY <1>1, <1>8 DEF Lays
  <2> QED
    BY <1>6, <2>1
<1>9. Lays(s, n, u, 0, q)
  <2>1. q[Len(u)] + 0 = n
    BY <1>3, <1>5
  <2> QED
    BY <1>4, <1>7, <1>8, <2>1 DEF Lays
<1> QED
  BY <1>3, <1>9 DEF Coded

LEMMA CodedCount ==
  ASSUME NEW s, NEW n \in Nat, NEW t, Coded(s, n, t, 0), s[n] \in Nat \ {0},
         NEW u, u = Append(t, Count(s[n]))
  PROVE  Coded(s, n + 1, u, 0)
<1> DEFINE x == Count(s[n])
           N == Len(t)
<1>1. PICK p : Lays(s, n, t, 0, p)
  BY DEF Coded
<1>2. /\ t \in Seq(Tokens) /\ p[N] + 0 = n /\ N \in Nat /\ Laid(t, p)
      /\ x \in Tokens /\ x.zeros = 0 /\ x.count = s[n]
  BY <1>1, TokensAre DEF Coded, Lays
<1>3. /\ u \in Seq(Tokens) /\ Len(u) = N + 1 /\ u[N + 1] = x
      /\ \A i \in 1..N : u[i] = t[i]
  BY <1>2, Appended
<1> HIDE DEF x
<1>4. PICK q : /\ Laid(u, q) /\ \A i \in 1..Len(u) : q[i - 1] < q[Len(u)]
               /\ \A i \in 0..N : q[i] = p[i]
  <2>1. u = Append(t, x) /\ \A i \in 1..Len(t) : p[i - 1] < p[Len(t)]
    BY <1>1 DEF Lays, x
  <2>2. \E q : Extended(t, p, u, q)
    BY <1>2, <2>1, LaidLonger
  <2> QED
    BY <2>2 DEF Extended
<1>5. q[N + 1] = n + 1 /\ q[N] = n
  <2>1. q[N + 1] = q[N] + Width(x) /\ q[N] = p[N] /\ p[N] \in Nat
    <3>1. N + 1 \in 1..Len(u) /\ N \in 0..N /\ N + 1 - 1 = N
      BY <1>2, <1>3
    <3>2. \A i \in 1..Len(u) : q[i] = q[i - 1] + Width(u[i])
      BY <1>4 DEF Laid
    <3>3. q[N + 1] = q[N] + Width(x)
      BY <1>3, <3>1, <3>2
    <3>4. p[N] \in Nat
      BY <1>2, <3>1 DEF Laid
    <3> QED
      BY <1>4, <3>1, <3>3, <3>4
  <2>2. Width(x) = 1
    BY <1>2 DEF Width
  <2> QED
    BY <1>2, <2>1, <2>2
<1>6. ASSUME NEW i \in 1..N
      PROVE  i \in 1..Len(u) /\ u[i] = t[i] /\ q[i - 1] = p[i - 1]
  <2>1. i - 1 \in 0..N /\ i \in 1..N + 1
    BY <1>2
  <2> QED
    BY <1>3, <1>4, <2>1
<1>7. ASSUME NEW i \in 1..Len(u), u[i].zeros = 0 PROVE u[i].count = s[q[i - 1]]
  <2>1. CASE i = N + 1
    <3>1. i - 1 = N
      BY <1>2, <2>1
    <3> QED
      BY <1>2, <1>3, <1>5, <2>1, <3>1
  <2>2. CASE i # N + 1
    <3>1. i \in 1..N
      BY <1>2, <1>3, <2>2
    <3> QED
      BY <1>1, <1>6, <1>7, <3>1 DEF Lays
  <2> QED
    BY <2>1, <2>2
<1>8. ASSUME NEW b \in 0..n + 1 - 1, s[b] # 0
      PROVE  \E i \in 1..Len(u) : u[i].zeros = 0 /\ q[i - 1] = b
  <2>1. CASE b = n
    <3>1. N + 1 \in 1..Len(u) /\ N + 1 - 1 = N
      BY <1>2, <1>3
    <3> QED
      BY <1>2, <1>3, <1>5, <2>1, <3>1
  <2>2. CASE b # n
    <3>1. b \in 0..n - 1
      BY <2>2
    <3>2. PICK i \in 1..N : t[i].zeros = 0 /\ p[i - 1] = b
      BY <1>1, <1>8, <3>1 DEF Lays
    <3> QED
      BY <1>6, <3>2
  <2> QED
    BY <2>1, <2>2
<1>9. Lays(s, n + 1, u, 0, q)
  <2>1. q[Len(u)] + 0 = n + 1
    BY <1>3, <1>5
  <2> QED
    BY <1>4, <1>7, <1>8, <2>1 DEF Lays
<1> QED
  BY <1>3, <1>9 DEF Coded

\* what a sink that was loaded may hold: hits up to this number
Spectra(n) == [Bins -> 0..n]

LEMMA CodedIs ==
  ASSUME NEW s \in [Bins -> Nat], NEW m \in 0..MaxBin + 1
  PROVE  \E z : Coded(s, m, _data_to_xml(s, m), z)
<1> DEFINE none == [tokens |-> << >>, z |-> 0]
           step == [x \in (1..m) \X Outs |-> Token(x[2], s[x[1] - 1])]
           Right(q) == q = [n \in 0..m |-> IF n = 0 THEN none ELSE Token(q[n - 1], s[n - 1])]
           out == CHOOSE q : Right(q)
<1>1. m \in Nat /\ \A n \in 1..m : s[n - 1] \in Nat
  BY SpectrumAssumption DEF Bins
<1>2. step \in [(1..m) \X Outs -> Outs]
  <2>1. ASSUME NEW x \in (1..m) \X Outs PROVE Token(x[2], s[x[1] - 1]) \in Outs
    <3>1. x[2] \in Outs /\ s[x[1] - 1] \in Nat
      BY <1>1
    <3>2. Taken(x[2], s[x[1] - 1], Token(x[2], s[x[1] - 1]))
      BY <3>1, TokenIs
    <3> QED
      BY ONLY <3>2 DEF Taken
  <2> QED
    BY <2>1
<1>3. none \in Outs /\ none.tokens = << >> /\ none.z = 0
  <2>1. << >> \in Seq(Tokens)
    OBVIOUS
  <2> QED
    BY <2>1 DEF Outs
<1> HIDE DEF none
<1>4. PICK f \in [0..m -> Outs] : Steps(f, m, none, step)
  <2> HIDE DEF step
  <2> QED
    BY <1>1, <1>2, <1>3, StepsExist
<1>5. Right(f)
  <2>1. ASSUME NEW n \in 1..m PROVE f[n] = Token(f[n - 1], s[n - 1])
    <3>1. f[n] = step[<<n, f[n - 1]>>]
      BY <1>4 DEF Steps
    <3>2. n - 1 \in 0..m /\ f[n - 1] \in Outs
      BY <1>1
    <3>3. <<n, f[n - 1]>> \in (1..m) \X Outs
      BY <3>2
    <3>4. step[<<n, f[n - 1]>>] = Token(f[n - 1], s[n - 1])
      BY <3>3
    <3> QED
      BY <3>1, <3>4
  <2>2. f[0] = none
    BY <1>4 DEF Steps
  <2>3. \A n \in 0..m : f[n] = IF n = 0 THEN none ELSE Token(f[n - 1], s[n - 1])
    BY <1>1, <2>1, <2>2
  <2> QED
    BY <2>3
<1>6. Right(out)
  BY <1>5
<1>7. _data_to_xml(s, m) = out[m].tokens
  BY DEF _data_to_xml, none
<1>8. out[0] = none /\ \A n \in 1..m : out[n] = Token(out[n - 1], s[n - 1])
  <2> HIDE DEF out
  <2>1. out = [n \in 0..m |-> IF n = 0 THEN none ELSE Token(out[n - 1], s[n - 1])]
    BY <1>6
  <2> QED
    BY <1>1, <2>1
<1> HIDE DEF out
<1> DEFINE P == {k \in 0..m : out[k] \in Outs /\ Coded(s, k, out[k].tokens, out[k].z)}
<1>9. 0 \in P
  <2> DEFINE p == [i \in 0..0 |-> 0]
  <2>1. p \in [0..0 -> Nat] /\ p[0] = 0
    OBVIOUS
  <2> HIDE DEF p
  <2>2. << >> \in Seq(Tokens) /\ Len(<< >>) = 0
    OBVIOUS
  <2>3. Laid(<< >>, p)
    BY <2>1, <2>2 DEF Laid
  <2>4. Lays(s, 0, << >>, 0, p)
    BY <2>1, <2>2, <2>3 DEF Lays
  <2>5. Coded(s, 0, << >>, 0)
    BY <2>2, <2>4 DEF Coded
  <2> QED
    BY <1>1, <1>3, <1>8, <2>5
<1>10. ASSUME NEW k \in 0..m, k < m, k \in P PROVE k + 1 \in P
  <2> DEFINE o == out[k]
             r == out[k + 1]
             c == s[k]
  <2>1. o \in Outs /\ Coded(s, k, o.tokens, o.z) /\ k \in Nat /\ k + 1 \in 0..m
    BY <1>1, <1>10
  <2>2. r = Token(o, c) /\ c \in Nat
    <3>1. k + 1 \in 1..m /\ k + 1 - 1 = k
      BY <1>1, <1>10
    <3>2. out[k + 1] = Token(out[k + 1 - 1], s[k + 1 - 1])
      BY <1>8, <3>1
    <3>3. s[k] \in Nat
      BY <1>10, SpectrumAssumption DEF Bins
    <3> QED
      BY <3>1, <3>2, <3>3
  <2> HIDE DEF o, r, c
  <2>3. Taken(o, c, r)
    BY <2>1, <2>2, TokenIs
  <2> USE DEF Taken
  <2>4. ASSUME c = 0 PROVE Coded(s, k + 1, r.tokens, r.z)
    BY <2>1, <2>3, <2>4, CodedNothing DEF c
  <2>5. ASSUME c # 0, o.z = 0 PROVE Coded(s, k + 1, r.tokens, r.z)
    <3>1. Coded(s, k + 1, r.tokens, 0)
      BY <2>1, <2>2, <2>3, <2>5, CodedCount DEF c
    <3> QED
      BY <2>3, <2>5, <3>1
  <2>6. ASSUME c # 0, o.z # 0 PROVE Coded(s, k + 1, r.tokens, r.z)
    <3>1. Coded(s, k, Append(o.tokens, Zeros(o.z)), 0)
      BY <2>1, <2>6, CodedZeros
    <3>2. Coded(s, k + 1, r.tokens, 0)
      BY <2>1, <2>2, <2>3, <2>6, <3>1, CodedCount DEF c
    <3> QED
      BY <2>3, <2>6, <3>2
  <2>7. r \in Outs /\ Coded(s, k + 1, r.tokens, r.z)
    BY <2>3, <2>4, <2>5, <2>6
  <2> QED
    BY <2>1, <2>7 DEF r
<1> HIDE DEF P
<1>11. m \in P
  <2>1. m \in Nat /\ m \in 0..m
    BY <1>1
  <2> QED
    BY <1>9, <1>10, <2>1, UpTo
<1> QED
  BY <1>7, <1>11 DEF P

\* What the file of s, with m for maxchan_, gives when it is read.
LEMMA FileIs ==
  ASSUME NEW s \in [Bins -> Nat], NEW m \in 0..MaxBin + 1,
         NEW t, t = _data_to_xml(s, m), NEW w, w = _data_from_xml(t),
         NEW e, e = Position(t, Len(t) + 1)
  PROVE  /\ DOMAIN w = Bins
         /\ \A b \in Bins : w[b] = IF b < m THEN s[b] ELSE 0
         /\ e \in 0..m /\ \A b \in Bins : b >= e => w[b] = 0
<1>1. PICK z : Coded(s, m, t, z)
  BY CodedIs
<1>2. t \in Seq(Tokens) /\ z \in Nat
  BY <1>1 DEF Coded
<1>3. PICK p : Lays(s, m, t, z, p)
  BY <1>1 DEF Coded
<1>4. Laid(t, p) /\ p[Len(t)] + z = m /\ \A i \in 1..Len(t) : p[i - 1] < p[Len(t)]
  BY <1>3 DEF Lays
<1>5. Len(t) \in Nat /\ Len(t) \in 0..Len(t) /\ p \in [0..Len(t) -> Nat] /\ m \in Nat
  BY <1>2, <1>4, SpectrumAssumption DEF Laid
<1>6. \A i \in 1..Len(t) + 1 : Position(t, i) = p[i - 1]
  <2>1. PICK q : Laid(t, q) /\ \A i \in 1..Len(t) + 1 : Position(t, i) = q[i - 1]
    BY <1>2, PositionIs
  <2>2. p = q
    BY <1>2, <1>4, <2>1, LaidOnce
  <2> QED
    BY <2>1, <2>2
<1>7. e = p[Len(t)] /\ e \in Nat /\ e <= m
  <2>1. Len(t) + 1 \in 1..Len(t) + 1 /\ Len(t) + 1 - 1 = Len(t)
    BY <1>5
  <2>2. e = p[Len(t)]
    BY <1>6, <2>1
  <2>3. p[Len(t)] \in Nat
    BY <1>5
  <2> QED
    BY <1>2, <1>4, <1>5, <2>2, <2>3
<1> DEFINE Here(b) == {i \in DOMAIN t : Position(t, i) = b /\ t[i].zeros = 0}
<1>8. w = [b \in Bins |-> IF Here(b) = {} THEN 0 ELSE t[CHOOSE i \in Here(b) : TRUE].count]
  BY DEF _data_from_xml
<1>9. ASSUME NEW b \in Bins, NEW i \in Here(b)
      PROVE  /\ i \in 1..Len(t) /\ t[i].zeros = 0 /\ p[i - 1] = b /\ b < e
             /\ t[i].count = s[b]
  <2>1. i \in 1..Len(t) /\ t[i].zeros = 0 /\ Position(t, i) = b
    BY <1>2
  <2>2. i \in 1..Len(t) + 1
    BY <1>5, <2>1
  <2>3. p[i - 1] = b
    BY <1>6, <2>1, <2>2
  <2> QED
    BY <1>3, <1>4, <1>7, <2>1, <2>3 DEF Lays
<1>10. ASSUME NEW b \in Bins, Here(b) # {} PROVE w[b] = s[b] /\ b < e
  <2>1. PICK i : i \in Here(b) /\ w[b] = t[i].count
    <3>1. (CHOOSE i \in Here(b) : TRUE) \in Here(b)
      BY <1>10
    <3>2. w[b] = t[CHOOSE i \in Here(b) : TRUE].count
      BY <1>8, <1>10
    <3> QED
      BY <3>1, <3>2
  <2> QED
    BY <1>9, <2>1
<1>11. ASSUME NEW b \in Bins, Here(b) = {} PROVE w[b] = 0 /\ (b < m => s[b] = 0)
  <2>1. w[b] = 0
    BY <1>8, <1>11
  <2>2. ASSUME b < m, s[b] # 0 PROVE FALSE
    <3>1. b \in 0..m - 1
      BY <2>2, <1>5 DEF Bins
    <3>2. PICK i \in 1..Len(t) : t[i].zeros = 0 /\ p[i - 1] = b
      BY <1>3, <2>2, <3>1 DEF Lays
    <3>3. i \in 1..Len(t) + 1 /\ i \in DOMAIN t
      BY <1>2, <1>5
    <3>4. Position(t, i) = b
      BY <1>6, <3>2, <3>3
    <3>5. i \in Here(b)
      BY <3>2, <3>3, <3>4
    <3> QED
      BY <1>11, <3>5
  <2> QED
    BY <2>1, <2>2
<1> HIDE DEF Here
<1>12. ASSUME NEW b \in Bins
       PROVE  w[b] = (IF b < m THEN s[b] ELSE 0) /\ (b >= e => w[b] = 0)
  <2>0. b \in Nat
    BY SpectrumAssumption DEF Bins
  <2>1. CASE Here(b) = {}
    BY <1>11, <2>1
  <2>2. CASE Here(b) # {}
    BY <1>5, <1>7, <1>10, <2>0, <2>2
  <2> QED
    BY <2>1, <2>2
<1>13. e \in 0..m
  BY <1>5, <1>7
<1> QED
  BY <1>8, <1>12, <1>13

-----------------------------------------------------------------------------
(* Spectrum1D: the inductive invariant                                     *)

Pushing == builder \in {"hits", "real", "total"}

MutexInv == unique_mutex_ = IF Pushing THEN "builder" ELSE "free"

\* What has come, and what of it is in this sink.
CountInv ==
  /\ total_hits_ <= hits /\ times_ <= spills
  /\ builder = "hits" => times_ < spills

\* Counts are of hits, and none is above maxchan_; the file was written from
\* counts like that.
DataInv ==
  /\ spectrum_ \in Spectra(hits) /\ maxchan_ \in 0..MaxBin
  /\ \A b \in Bins : b > maxchan_ => spectrum_[b] = 0
  /\ \E s \in Spectra(hits), m \in 0..MaxBin : file.data = _data_to_xml(s, m)

\* The totals are set one by one in a push and stay as they are after it.
TotalsInv ==
  /\ builder \in {"real", "total"} => attributes.live_time = times_
  /\ builder = "total" => attributes.real_time = times_
  /\ ~Pushing /\ ~edited /\ ~loaded =>
       /\ attributes.live_time = times_ /\ attributes.real_time = times_
       /\ attributes.total_hits = total_hits_

\* What the user chose is in the attributes, or on its way there.
ChoiceInv ==
  /\ gui \notin {"looks", "accepted"} => attributes.visible = wanted
  /\ gui = "accepted" => copy.visible = wanted

SinkInv == SinkTypes /\ MutexInv /\ CountInv /\ DataInv /\ TotalsInv /\ ChoiceInv

LEMMA Constants ==
  /\ MaxBin \in Nat /\ MaxSpills \in Nat /\ MaxHits \in Nat
  /\ Bins = 0..MaxBin /\ 0 \in 0..MaxBin
BY SpectrumAssumption DEF Bins

\* The hits there have been are as many as before, or more.
LEMMA SpectraGrow ==
  ASSUME NEW n \in Nat, NEW k \in Nat, n <= k, NEW s \in Spectra(n)
  PROVE  s \in Spectra(k)
<1>1. \A b \in Bins : s[b] \in 0..k
  BY DEF Spectra
<1>2. s = [b \in Bins |-> s[b]]
  BY DEF Spectra
<1> QED
  BY <1>1, <1>2 DEF Spectra

LEMMA AttributesAre ==
  ASSUME NEW a \in Attributes
  PROVE  /\ a.visible \in BOOLEAN /\ a.total_hits \in Nat
         /\ a.live_time \in Nat /\ a.real_time \in Nat
BY DEF Attributes

LEMMA AttributesSet ==
  ASSUME NEW a \in Attributes, NEW n \in Nat, NEW v \in BOOLEAN
  PROVE  /\ LET x == [a EXCEPT !.visible = v]
            IN /\ x \in Attributes /\ x.visible = v /\ x.total_hits = a.total_hits
               /\ x.live_time = a.live_time /\ x.real_time = a.real_time
         /\ LET x == [a EXCEPT !.total_hits = n]
            IN /\ x \in Attributes /\ x.visible = a.visible /\ x.total_hits = n
               /\ x.live_time = a.live_time /\ x.real_time = a.real_time
         /\ LET x == [a EXCEPT !.live_time = n]
            IN /\ x \in Attributes /\ x.visible = a.visible /\ x.total_hits = a.total_hits
               /\ x.live_time = n /\ x.real_time = a.real_time
         /\ LET x == [a EXCEPT !.real_time = n]
            IN /\ x \in Attributes /\ x.visible = a.visible /\ x.total_hits = a.total_hits
               /\ x.live_time = a.live_time /\ x.real_time = n
BY DEF Attributes

LEMMA Starts == SinkInit => SinkInv
<1> SUFFICES ASSUME SinkInit PROVE SinkInv
  OBVIOUS
<1> USE DEF SinkInit
<1>1. NewAttributes \in Attributes
  BY DEF NewAttributes, Attributes
<1>2. Empty \in [Bins -> 0..MaxHits] /\ Empty \in Spectra(0) /\ \A b \in Bins : Empty[b] = 0
  BY Constants DEF Empty, Spectra
<1>3. SinkTypes
  <2>1. file.attributes = NewAttributes
    OBVIOUS
  <2>2. maxchan_ \in 0..MaxBin + 1
    BY Constants
  <2>3. spectrum_ \in [Bins -> 0..MaxHits]
    BY <1>2
  <2>4. 0 \in 0..MaxHits /\ 0 \in 0..MaxSpills
    BY Constants
  <2> QED
    BY <1>1, <2>1, <2>2, <2>3, <2>4 DEF SinkTypes
<1>4. MutexInv /\ CountInv /\ TotalsInv /\ ChoiceInv
  BY DEF MutexInv, CountInv, TotalsInv, ChoiceInv, Pushing, NewAttributes
<1>5. file.data = _data_to_xml(Empty, 0)
  <2> DEFINE t == _data_to_xml(Empty, 0)
  <2>1. 0 \in 0..MaxBin + 1 /\ Empty \in [Bins -> Nat]
    BY Constants DEF Empty
  <2>2. PICK z : Coded(Empty, 0, t, z)
    <3> HIDE DEF t
    <3> QED
      BY <2>1, CodedIs DEF t
  <2>3. PICK p : Lays(Empty, 0, t, z, p)
    BY <2>2 DEF Coded
  <2>4. t \in Seq(Tokens) /\ z \in Nat
    BY <2>2 DEF Coded
  <2> HIDE DEF t
  <2>5. Len(t) \in Nat /\ p[Len(t)] \in Nat /\ p[Len(t)] + z = 0
    BY <2>3, <2>4 DEF Lays, Laid
  <2>6. ASSUME Len(t) # 0 PROVE FALSE
    <3>1. 1 \in 1..Len(t) /\ 1 - 1 = 0 /\ p[0] = 0
      BY <2>3, <2>5, <2>6 DEF Lays, Laid
    <3>2. p[1 - 1] < p[Len(t)]
      BY <2>3, <3>1 DEF Lays
    <3> QED
      BY <2>4, <2>5, <3>1, <3>2
  <2>7. t = << >>
    BY <2>4, <2>5, <2>6
  <2>8. file.data = << >>
    OBVIOUS
  <2> QED
    BY <2>7, <2>8 DEF t
<1>6. DataInv
  <2>1. \E s \in Spectra(hits), m \in 0..MaxBin : file.data = _data_to_xml(s, m)
    BY <1>2, <1>5, Constants
  <2> QED
    BY <1>2, <2>1, Constants DEF DataInv
<1> QED
  BY <1>3, <1>4, <1>6 DEF SinkInv

\* Steps that leave counts and file alone.
LEMMA DataKept ==
  ASSUME DataInv, UNCHANGED <<spectrum_, maxchan_, file>>, hits' = hits
  PROVE  DataInv'
BY DEF DataInv, Spectra

LEMMA PushSpillInv == ASSUME SinkInv, push_spill PROVE SinkInv'
<1> USE DEF SinkInv, push_spill, Lock, data, stale
<1>1. SinkTypes'
  BY Constants DEF SinkTypes
<1>2. MutexInv'
  BY DEF MutexInv, Pushing
<1>3. CountInv'
  BY DEF CountInv, SinkTypes
<1>4. DataInv'
  BY DataKept DEF SinkTypes
<1>5. TotalsInv'
  BY DEF TotalsInv, Pushing
<1>6. ChoiceInv'
  BY DEF ChoiceInv
<1> QED
  BY <1>1, <1>2, <1>3, <1>4, <1>5, <1>6

LEMMA AddHitInv == ASSUME SinkInv, NEW en \in Bins, addHit(en) PROVE SinkInv'
<1> USE DEF SinkInv, addHit, stale
<1>1. /\ hits \in Nat /\ hits < MaxHits /\ hits' = hits + 1 /\ en \in 0..MaxBin
      /\ spectrum_ \in Spectra(hits) /\ spectrum_' = [spectrum_ EXCEPT ![en] = @ + 1]
      /\ maxchan_ \in 0..MaxBin /\ maxchan_' = IF en > maxchan_ THEN en ELSE maxchan_
  BY Constants DEF SinkTypes, DataInv
<1>2. \A b \in Bins : spectrum_[b] \in 0..hits
  BY <1>1 DEF Spectra
<1>3. spectrum_' \in Spectra(hits')
  <2>1. \A b \in Bins : spectrum_'[b] \in 0..hits + 1
    BY <1>1, <1>2 DEF Spectra
  <2>2. spectrum_' = [b \in Bins |-> spectrum_'[b]]
    BY <1>1 DEF Spectra
  <2> QED
    BY <1>1, <2>1, <2>2 DEF Spectra
<1>4. maxchan_' \in 0..MaxBin /\ maxchan_' >= maxchan_ /\ maxchan_' >= en
  BY <1>1
<1>5. \A b \in Bins : b > maxchan_' => spectrum_'[b] = 0
  <2> SUFFICES ASSUME NEW b \in Bins, b > maxchan_' PROVE spectrum_'[b] = 0
    OBVIOUS
  <2>1. b # en /\ b > maxchan_ /\ b \in Nat
    BY <1>1, <1>4, Constants
  <2>2. spectrum_[b] = 0
    BY <2>1 DEF DataInv
  <2> QED
    BY <1>1, <2>1, <2>2 DEF Spectra
<1>6. \E s \in Spectra(hits'), m \in 0..MaxBin : file'.data = _data_to_xml(s, m)
  <2>1. PICK s \in Spectra(hits), m \in 0..MaxBin : file.data = _data_to_xml(s, m)
    BY DEF DataInv
  <2>2. s \in Spectra(hits') /\ file' = file
    BY <1>1, SpectraGrow
  <2> QED
    BY <2>1, <2>2
<1>7. DataInv'
  BY <1>3, <1>4, <1>5, <1>6 DEF DataInv
<1>8. SinkTypes'
  <2>1. spectrum_' \in [Bins -> 0..MaxHits]
    <3>1. hits' \in Nat /\ MaxHits \in Nat /\ hits' <= MaxHits
      BY <1>1, Constants
    <3>2. spectrum_' \in Spectra(MaxHits)
      BY <1>3, <3>1, SpectraGrow
    <3> QED
      BY <3>2 DEF Spectra
  <2>2. total_hits_' \in 0..MaxHits /\ hits' \in 0..MaxHits
    BY <1>1, Constants DEF SinkTypes, CountInv
  <2>3. maxchan_' \in 0..MaxBin + 1
    <3>1. \A n \in 0..MaxBin : n \in 0..MaxBin + 1
      BY Constants
    <3> QED
      BY <1>4, <3>1
  <2> QED
    BY <2>1, <2>2, <2>3 DEF SinkTypes
<1>9. CountInv'
  BY <1>1 DEF CountInv, SinkTypes
<1>10. MutexInv' /\ TotalsInv' /\ ChoiceInv'
  BY DEF MutexInv, TotalsInv, ChoiceInv, Pushing
<1> QED
  BY <1>7, <1>8, <1>9, <1>10

LEMMA SetLiveInv == ASSUME SinkInv, SetLive PROVE SinkInv'
<1> USE DEF SinkInv, SetLive, stale, counts
<1>1. /\ times_ \in Nat /\ times_ < spills /\ spills \in 0..MaxSpills
      /\ times_' = times_ + 1 /\ times_' \in Nat
  BY Constants DEF SinkTypes, CountInv
<1>2. /\ attributes' \in Attributes /\ attributes'.live_time = times_'
      /\ attributes'.visible = attributes.visible
  <2>1. attributes' = [attributes EXCEPT !.live_time = times_'] /\ attributes \in Attributes
    BY DEF SinkTypes
  <2> QED
    BY <1>1, <2>1 DEF Attributes
<1>3. SinkTypes'
  <2>1. times_' \in 0..MaxSpills
    BY <1>1, Constants
  <2> QED
    BY <1>2, <2>1 DEF SinkTypes
<1>4. MutexInv'
  BY DEF MutexInv, Pushing
<1>5. CountInv'
  BY <1>1 DEF CountInv
<1>6. DataInv'
  BY DataKept
<1>7. TotalsInv'
  BY <1>2 DEF TotalsInv, Pushing
<1>8. ChoiceInv'
  BY <1>2 DEF ChoiceInv
<1> QED
  BY <1>3, <1>4, <1>5, <1>6, <1>7, <1>8

LEMMA SetRealInv == ASSUME SinkInv, SetReal PROVE SinkInv'
<1> USE DEF SinkInv, SetReal, stale, counts, data
<1>1. /\ attributes' \in Attributes /\ attributes'.real_time = times_
      /\ attributes'.live_time = attributes.live_time
      /\ attributes'.visible = attributes.visible
  <2>1. attributes' = [attributes EXCEPT !.real_time = times_] /\ attributes \in Attributes
        /\ times_ \in Nat
    BY Constants DEF SinkTypes
  <2> QED
    BY <2>1 DEF Attributes
<1>2. SinkTypes'
  BY <1>1 DEF SinkTypes
<1>3. MutexInv' /\ CountInv'
  BY DEF MutexInv, CountInv, Pushing
<1>4. DataInv'
  BY DataKept
<1>5. TotalsInv'
  BY <1>1 DEF TotalsInv, Pushing
<1>6. ChoiceInv'
  BY <1>1 DEF ChoiceInv
<1> QED
  BY <1>2, <1>3, <1>4, <1>5, <1>6

\* the end of a push, and flush()
LEMMA TotalIs ==
  ASSUME SinkTypes, attributes' = [attributes EXCEPT !.total_hits = total_hits_]
  PROVE  /\ attributes' \in Attributes /\ attributes'.total_hits = total_hits_
         /\ attributes'.live_time = attributes.live_time
         /\ attributes'.real_time = attributes.real_time
         /\ attributes'.visible = attributes.visible
<1>1. attributes \in Attributes /\ total_hits_ \in Nat
  BY Constants DEF SinkTypes
<1> QED
  BY <1>1 DEF Attributes

LEMMA SetTotalInv == ASSUME SinkInv, SetTotal PROVE SinkInv'
<1> USE DEF SinkInv, SetTotal, counts, data, Unlock
<1>1. /\ attributes' \in Attributes /\ attributes'.total_hits = total_hits_
      /\ attributes'.live_time = attributes.live_time
      /\ attributes'.real_time = attributes.real_time
      /\ attributes'.visible = attributes.visible
  BY TotalIs
<1>2. SinkTypes'
  BY <1>1 DEF SinkTypes
<1>3. MutexInv' /\ CountInv'
  BY DEF MutexInv, CountInv, Pushing
<1>4. DataInv'
  BY DataKept
<1>5. TotalsInv'
  BY <1>1 DEF TotalsInv, Pushing
<1>6. ChoiceInv'
  BY <1>1 DEF ChoiceInv
<1> QED
  BY <1>2, <1>3, <1>4, <1>5, <1>6

LEMMA FlushInv == ASSUME SinkInv, flush PROVE SinkInv'
<1> USE DEF SinkInv, flush, counts, data, stale
<1>1. /\ attributes' \in Attributes /\ attributes'.total_hits = total_hits_
      /\ attributes'.live_time = attributes.live_time
      /\ attributes'.real_time = attributes.real_time
      /\ attributes'.visible = attributes.visible
  BY TotalIs
<1>2. SinkTypes'
  BY <1>1 DEF SinkTypes
<1>3. MutexInv' /\ CountInv'
  BY DEF MutexInv, CountInv, Pushing
<1>4. DataInv'
  BY DataKept
<1>5. TotalsInv'
  BY <1>1 DEF TotalsInv, Pushing
<1>6. ChoiceInv'
  BY <1>1 DEF ChoiceInv
<1> QED
  BY <1>2, <1>3, <1>4, <1>5, <1>6

LEMMA LoadInv == ASSUME SinkInv, load PROVE SinkInv'
<1> USE DEF SinkInv, load, counts
<1> DEFINE t == file.data
<1>1. PICK s \in Spectra(hits), m \in 0..MaxBin : t = _data_to_xml(s, m)
  BY DEF DataInv
<1>2. /\ hits \in Nat /\ hits <= MaxHits /\ s \in [Bins -> Nat] /\ m \in 0..MaxBin + 1
      /\ m \in Nat /\ \A b \in Bins : s[b] \in 0..hits
  <2>1. hits \in Nat /\ hits <= MaxHits
    BY Constants DEF SinkTypes
  <2>2. \A b \in Bins : s[b] \in 0..hits /\ s[b] \in Nat
    BY <2>1 DEF Spectra
  <2>3. s = [b \in Bins |-> s[b]]
    BY DEF Spectra
  <2> QED
    BY <2>1, <2>2, <2>3, Constants
<1> HIDE DEF t
<1>3. /\ DOMAIN spectrum_' = Bins
      /\ \A b \in Bins : spectrum_'[b] = IF b < m THEN s[b] ELSE 0
      /\ maxchan_' \in 0..m /\ \A b \in Bins : b >= maxchan_' => spectrum_'[b] = 0
  <2>1. spectrum_' = _data_from_xml(t) /\ maxchan_' = Position(t, Len(t) + 1)
    BY DEF t
  <2> QED
    BY <1>1, <1>2, <2>1, FileIs
<1>4. spectrum_' \in Spectra(hits)
  <2>1. spectrum_' = [b \in Bins |-> spectrum_'[b]]
    <3>1. spectrum_' = _data_from_xml(t)
      BY DEF t
    <3> QED
      BY <3>1 DEF _data_from_xml
  <2>2. \A b \in Bins : spectrum_'[b] \in 0..hits
    BY <1>2, <1>3
  <2> QED
    BY <2>1, <2>2 DEF Spectra
<1>5. maxchan_' \in 0..MaxBin /\ maxchan_' \in 0..MaxBin + 1
  BY <1>2, <1>3, Constants
<1>6. \A b \in Bins : b > maxchan_' => spectrum_'[b] = 0
  BY <1>3, <1>5, Constants
<1>7. DataInv'
  <2>1. \E r \in Spectra(hits'), n \in 0..MaxBin : file'.data = _data_to_xml(r, n)
    BY <1>1 DEF t
  <2>2. spectrum_' \in Spectra(hits')
    BY <1>4
  <2> QED
    BY <1>5, <1>6, <2>1, <2>2 DEF DataInv
<1>8. file.attributes \in Attributes /\ attributes' = file.attributes
      /\ file.attributes.visible \in BOOLEAN
  BY AttributesAre DEF SinkTypes
<1>9. SinkTypes'
  <2>1. spectrum_' \in [Bins -> 0..MaxHits]
    <3>1. spectrum_' \in Spectra(MaxHits)
      BY <1>2, <1>4, Constants, SpectraGrow
    <3> QED
      BY <3>1 DEF Spectra
  <2>2. 0 \in 0..MaxHits /\ 0 \in 0..MaxSpills
    BY Constants
  <2> QED
    BY <1>5, <1>8, <2>1, <2>2 DEF SinkTypes
<1>10. MutexInv' /\ TotalsInv'
  BY DEF MutexInv, TotalsInv, Pushing
<1>11. CountInv'
  BY Constants DEF CountInv, SinkTypes
<1>12. ChoiceInv'
  BY DEF ChoiceInv
<1> QED
  BY <1>7, <1>9, <1>10, <1>11, <1>12

LEMMA SaveInv == ASSUME SinkInv, save PROVE SinkInv'
<1> USE DEF SinkInv, save, counts, data, stale
<1>1. /\ file'.attributes = attributes /\ file'.data = _data_to_xml(spectrum_, maxchan_)
  OBVIOUS
<1>2. SinkTypes'
  BY <1>1 DEF SinkTypes
<1>3. MutexInv' /\ CountInv' /\ TotalsInv' /\ ChoiceInv'
  BY DEF MutexInv, CountInv, TotalsInv, ChoiceInv, Pushing
<1>4. DataInv'
  <2>1. \E s \in Spectra(hits'), m \in 0..MaxBin : file'.data = _data_to_xml(s, m)
    BY <1>1 DEF DataInv
  <2> QED
    BY <2>1 DEF DataInv, Spectra
<1> QED
  BY <1>2, <1>3, <1>4

LEMMA MetadataInv == ASSUME SinkInv, metadata PROVE SinkInv'
<1> USE DEF SinkInv, metadata, counts, data, stale
<1>1. copy' \in Attributes /\ copy'.visible = attributes.visible
  <2>1. copy' = [attributes EXCEPT !.real_time = copy.real_time]
        /\ attributes \in Attributes /\ copy.real_time \in Nat
    BY AttributesAre DEF SinkTypes
  <2> QED
    BY <2>1 DEF Attributes
<1>2. SinkTypes'
  BY <1>1 DEF SinkTypes
<1>3. MutexInv' /\ CountInv' /\ TotalsInv' /\ ChoiceInv'
  BY <1>1 DEF MutexInv, CountInv, TotalsInv, ChoiceInv, Pushing
<1>4. DataInv'
  BY DataKept
<1> QED
  BY <1>2, <1>3, <1>4

LEMMA CopyEndsInv == ASSUME SinkInv, CopyEnds PROVE SinkInv'
<1> USE DEF SinkInv, CopyEnds, counts, data, stale
<1>1. copy' \in Attributes /\ copy'.visible = copy.visible
  <2>1. copy' = [copy EXCEPT !.real_time = attributes.real_time]
        /\ copy \in Attributes /\ attributes.real_time \in Nat
    BY AttributesAre DEF SinkTypes
  <2> QED
    BY <2>1 DEF Attributes
<1>2. SinkTypes'
  BY <1>1 DEF SinkTypes
<1>3. MutexInv' /\ CountInv' /\ TotalsInv' /\ ChoiceInv'
  BY <1>1 DEF MutexInv, CountInv, TotalsInv, ChoiceInv, Pushing
<1>4. DataInv'
  BY DataKept
<1> QED
  BY <1>2, <1>3, <1>4

LEMMA SetAttributeInv == ASSUME SinkInv, set_attribute PROVE SinkInv'
<1> USE DEF SinkInv, set_attribute, counts, data, stale
<1>1. /\ attributes' \in Attributes /\ attributes'.visible = wanted
      /\ attributes'.live_time = attributes.live_time
      /\ attributes'.real_time = attributes.real_time
      /\ attributes'.total_hits = attributes.total_hits
  <2>1. attributes' = [attributes EXCEPT !.visible = wanted]
        /\ attributes \in Attributes /\ wanted \in BOOLEAN
    BY DEF SinkTypes
  <2> QED
    BY <2>1 DEF Attributes
<1>2. SinkTypes'
  BY <1>1 DEF SinkTypes
<1>3. MutexInv' /\ CountInv' /\ TotalsInv' /\ ChoiceInv'
  BY <1>1 DEF MutexInv, CountInv, TotalsInv, ChoiceInv, Pushing
<1>4. DataInv'
  BY DataKept
<1> QED
  BY <1>2, <1>3, <1>4

LEMMA AcceptInv == ASSUME SinkInv, Accept PROVE SinkInv'
<1> USE DEF SinkInv, Accept, counts, data, stale
<1>1. PICK v \in BOOLEAN : copy' = [copy EXCEPT !.visible = v] /\ wanted' = v
  OBVIOUS
<1>2. copy' \in Attributes /\ copy'.visible = wanted' /\ wanted' \in BOOLEAN
  <2>1. copy \in Attributes
    BY DEF SinkTypes
  <2> QED
    BY <1>1, <2>1 DEF Attributes
<1>3. SinkTypes'
  BY <1>2 DEF SinkTypes
<1>4. MutexInv' /\ CountInv' /\ TotalsInv' /\ ChoiceInv'
  BY <1>2 DEF MutexInv, CountInv, TotalsInv, ChoiceInv, Pushing
<1>5. DataInv'
  BY DataKept
<1> QED
  BY <1>3, <1>4, <1>5

LEMMA SetAttributesInv == ASSUME SinkInv, set_attributes PROVE SinkInv'
<1> USE DEF SinkInv, set_attributes, counts, data
<1>1. SinkTypes'
  BY DEF SinkTypes
<1>2. MutexInv' /\ CountInv' /\ TotalsInv' /\ ChoiceInv'
  BY DEF MutexInv, CountInv, TotalsInv, ChoiceInv, Pushing
<1>3. DataInv'
  BY DataKept
<1> QED
  BY <1>1, <1>2, <1>3

\* a run starts, looks are changed, or a dialog is cancelled
LEMMA OtherInv ==
  ASSUME SinkInv, StartRun \/ LooksChanged \/ Cancel \/ UNCHANGED sinkVars
  PROVE  SinkInv'
<1> USE DEF SinkInv, counts, data, stale
<1>1. SinkTypes'
  <2>1. CASE StartRun
    BY <2>1 DEF SinkTypes, StartRun
  <2>2. CASE LooksChanged
    BY <2>2 DEF SinkTypes, LooksChanged
  <2>3. CASE Cancel
    BY <2>3 DEF SinkTypes, Cancel
  <2>4. CASE UNCHANGED sinkVars
    BY <2>4 DEF SinkTypes, sinkVars
  <2> QED
    BY <2>1, <2>2, <2>3, <2>4
<1> USE DEF StartRun, LooksChanged, Cancel, sinkVars
<1>2. MutexInv' /\ CountInv' /\ TotalsInv' /\ ChoiceInv'
  BY DEF MutexInv, CountInv, TotalsInv, ChoiceInv, Pushing
<1>3. DataInv'
  BY DataKept
<1> QED
  BY <1>1, <1>2, <1>3

(* In every reachable state: the mutex is held by a push, the totals are     *)
(* those of the hits and the stats as far as a push has come, counts are of  *)
(* hits and up to maxchan_, here and in the file, and the user's choice is   *)
(* in the attributes or on its way there.                                    *)
THEOREM SinkInvariance == SinkSpec => []SinkInv
<1>1. SinkInv /\ [SinkNext]_sinkVars => SinkInv'
  BY PushSpillInv, AddHitInv, SetLiveInv, SetRealInv, SetTotalInv, FlushInv, LoadInv,
     SaveInv, MetadataInv, CopyEndsInv, SetAttributeInv, AcceptInv, SetAttributesInv,
     OtherInv DEF SinkNext, Builder, Gui
<1> QED
  BY Starts, <1>1, PTL DEF SinkSpec

(* After a run the totals shown are those of the data, whatever the GUI did  *)
(* meanwhile, but for a dialog that was closed with OK.                      *)
THEOREM TotalsStay == SinkSpec => []UneditedTotalsAreShown
<1>1. SinkInv => UneditedTotalsAreShown
  BY DEF SinkInv, TotalsInv, Pushing, UneditedTotalsAreShown, TotalsAreShown
<1> QED
  BY SinkInvariance, <1>1, PTL

(* What the user set is not overwritten by a spill.                          *)
THEOREM ChoiceStays == SinkSpec => []ChoiceIsKept
<1>1. SinkInv => ChoiceIsKept
  BY DEF SinkInv, ChoiceInv, ChoiceIsKept
<1> QED
  BY SinkInvariance, <1>1, PTL

(* A file gives back every count but that of the highest bin.                *)
THEOREM CountsAreInFile == SinkSpec => FileHoldsCounts
<1> DEFINE Holds == save => \A b \in Bins \ {maxchan_} : _data_from_xml(file'.data)[b] = spectrum_[b]
<1>1. SinkInv => Holds
  <2> SUFFICES ASSUME SinkInv, save, NEW b \in Bins \ {maxchan_}
               PROVE  _data_from_xml(file'.data)[b] = spectrum_[b]
    OBVIOUS
  <2> DEFINE t == _data_to_xml(spectrum_, maxchan_)
             w == _data_from_xml(t)
  <2>1. file'.data = t
    BY DEF save
  <2>2. /\ spectrum_ \in [Bins -> Nat] /\ maxchan_ \in 0..MaxBin + 1 /\ maxchan_ \in Nat
        /\ b \in Nat
    <3>1. maxchan_ \in 0..MaxBin /\ spectrum_ \in [Bins -> 0..MaxHits]
      BY DEF SinkInv, DataInv, SinkTypes
    <3>2. \A c \in Bins : spectrum_[c] \in Nat
      BY <3>1, Constants
    <3>3. spectrum_ = [c \in Bins |-> spectrum_[c]]
      BY <3>1
    <3> QED
      BY <3>1, <3>2, <3>3, Constants
  <2>3. w[b] = IF b < maxchan_ THEN spectrum_[b] ELSE 0
    <3> HIDE DEF t, w
    <3>1. t = _data_to_xml(spectrum_, maxchan_) /\ w = _data_from_xml(t)
      BY DEF t, w
    <3> QED
      BY <2>2, <3>1, FileIs
  <2>4. b > maxchan_ => spectrum_[b] = 0
    BY DEF SinkInv, DataInv
  <2>5. b < maxchan_ \/ b > maxchan_
    BY <2>2
  <2> HIDE DEF w, t
  <2>6. w[b] = spectrum_[b]
    BY <2>2, <2>3, <2>4, <2>5
  <2> QED
    BY <2>1, <2>6 DEF w
<1>2. SinkInv /\ [SinkNext]_sinkVars => [Holds]_sinkVars
  BY <1>1
<1>3. SinkSpec => [][Holds]_sinkVars
  <2> HIDE DEF Holds
  <2> QED
    BY SinkInvariance, <1>2, PTL DEF SinkSpec
<1> QED
  BY <1>3 DEF FileHoldsCounts

-----------------------------------------------------------------------------
(* SpectrumTimes: the inductive invariant                                  *)

\* how often Rate is in x, and that it is so without rest
Units(x) == x \div Rate
Whole(x) == x = Rate * Units(x)

IsStart(q) == q.stats_type = "start"
Blank(q) == q.native_time = 0 /\ q.live_time = 0

\* the counters of q are those of a source that was started at s
Fits(s, q) ==
  /\ s.lab_time <= q.lab_time
  /\ q.native_time = Rate * (q.lab_time - s.lab_time)
  /\ q.live_time <= q.native_time /\ Whole(q.live_time)

TotalsSet == [start : Updates, rt : Nat, lt : Nat, real : Nat, live : Nat]

\* what is known of the totals of a list that ends with q
SumIs(t, q) ==
  /\ t \in TotalsSet /\ IsStart(t.start) /\ Blank(t.start)
  /\ t.lt <= t.rt /\ t.live <= t.real
  /\ IsStart(q) => t.start = q
  /\ ~IsStart(q) => /\ Fits(t.start, q)
                    /\ t.rt = q.lab_time - t.start.lab_time
                    /\ t.lt = Units(q.live_time)

\* A running update is replaced by the next one: then the list before it counts.
Kept(L) ==
  L # <<>> =>
    /\ IsStart(L[1]) /\ SumIs(Totals(L), L[Len(L)])
    /\ L[Len(L)].stats_type = "running" =>
         Len(L) > 1 /\ SumIs(Totals(Front(L)), L[Len(L) - 1])

Starts1(p) == p # <<>> /\ IsStart(p[1])

\* the start of the run that the last updates are of
Current(L, p) == IF Starts1(p) THEN p[1] ELSE Totals(L).start

Coming(L, p) ==
  /\ L = <<>> /\ p # <<>> => Starts1(p)
  /\ Starts1(p) => Blank(p[1])
  /\ \A i \in 1..Len(p) : IF IsStart(p[i]) THEN i = 1 ELSE Fits(Current(L, p), p[i])

Counting(L, p, s, t) ==
  s.on => /\ L # <<>> \/ p # <<>>
          /\ Current(L, p).lab_time <= t
          /\ s.native = Rate * (t - Current(L, p).lab_time)
          /\ s.live <= s.native /\ Whole(s.live)
          /\ s.at <= t /\ s.liveAt <= s.live /\ Whole(s.liveAt)
          /\ s.at = t => s.liveAt = s.live

\* what the runs before that one add up to
BaseReal(L, p) == IF ~Starts1(p) THEN Totals(L).real
                  ELSE IF L = <<>> THEN 0 ELSE Totals(L).real + Totals(L).rt
BaseLive(L, p) == IF ~Starts1(p) THEN Totals(L).live
                  ELSE IF L = <<>> THEN 0 ELSE Totals(L).live + Totals(L).lt

\* the last update that came in, or is on its way
Latest(L, p) == IF p # <<>> THEN p[Len(p)] ELSE L[Len(L)]

\* u is no later than the last update that s sent, which it may be
NotAfter(u, s) == u.lab_time <= s.at /\ (u.lab_time = s.at => u.live_time = s.liveAt)

\* The true times are those of the runs before, and of this one up to the last
\* update that was sent, wherever it is by now.
Agrees(L, p, s, tr, tl) ==
  IF L = <<>> /\ p = <<>> THEN tr = 0 /\ tl = 0 /\ ~s.on
  ELSE /\ tr = BaseReal(L, p) + (s.at - Current(L, p).lab_time)
       /\ tl = BaseLive(L, p) + Units(s.liveAt)
       /\ Current(L, p).lab_time <= s.at
       /\ \A i \in 1..Len(p) : NotAfter(p[i], s)
       /\ ~Starts1(p) => NotAfter(L[Len(L)], s)
       /\ ~s.on \/ s.told => ~IsStart(Latest(L, p))
       /\ Starts1(p) /\ L # <<>> => ~IsStart(L[Len(L)])

Sources == [on : BOOLEAN, told : BOOLEAN, native : Nat, live : Nat, at : Nat, liveAt : Nat]

TimesData ==
  /\ stats_list_ \in [Channels -> Seq(Updates)] /\ pending \in [Channels -> Seq(Updates)]
  /\ source \in [Channels -> Sources]
  /\ trueReal \in [Channels -> Nat] /\ trueLive \in [Channels -> Nat]
  /\ TimesTypes

ChannelInv(c) ==
  /\ Kept(stats_list_[c])
  /\ Coming(stats_list_[c], pending[c])
  /\ Counting(stats_list_[c], pending[c], source[c], now)
  /\ c \notin disturbed =>
       Agrees(stats_list_[c], pending[c], source[c], trueReal[c], trueLive[c])

ShownInv ==
  /\ DOMAIN real_times_ = {c \in Channels : Len(stats_list_[c]) > 1}
  /\ \A c \in DOMAIN real_times_ : /\ real_times_[c] = Sums(stats_list_[c])[1]
                                   /\ live_times_[c] = Sums(stats_list_[c])[2]
  /\ live_time <= real_time

TimesInv == TimesData /\ (\A c \in Channels : ChannelInv(c)) /\ ShownInv

-----------------------------------------------------------------------------
(* SpectrumTimes: numbers                                                  *)

LEMMA UnitsOf ==
  ASSUME NEW k \in Nat
  PROVE  Rate * k \in Nat /\ Units(Rate * k) = k /\ Whole(Rate * k)
<1>1. Rate \in Nat /\ Rate > 0
  BY TimesAssumption
<1>2. (Rate * k) \div Rate = k /\ Rate * k \in Nat
  BY <1>1
<1> QED
  BY <1>2 DEF Units, Whole

LEMMA UnitsAre ==
  ASSUME NEW x \in Nat, Whole(x)
  PROVE  Units(x) \in Nat /\ x = Rate * Units(x)
<1>1. Rate \in Nat /\ Rate > 0
  BY TimesAssumption
<1>2. x \div Rate \in Nat
  BY <1>1
<1> QED
  BY <1>2 DEF Units, Whole

LEMMA NoUnits == Whole(0) /\ Units(0) = 0
<1>1. Rate * 0 = 0
  BY TimesAssumption
<1> QED
  BY <1>1, UnitsOf

LEMMA MoreUnits ==
  ASSUME NEW x \in Nat, Whole(x)
  PROVE  Whole(x + Rate) /\ x + Rate \in Nat
<1> DEFINE k == Units(x)
<1>1. k \in Nat /\ x = Rate * k /\ Rate \in Nat
  BY UnitsAre, TimesAssumption
<1> HIDE DEF k
<1> DEFINE n == k + 1
<1>2. x + Rate = Rate * n /\ n \in Nat
  BY <1>1
<1> HIDE DEF n
<1>3. Whole(Rate * n) /\ Rate * n \in Nat
  BY <1>2, UnitsOf
<1> QED
  BY <1>2, <1>3

LEMMA UnitsBetween ==
  ASSUME NEW x \in Nat, NEW y \in Nat, Whole(x), Whole(y), y <= x
  PROVE  (x - y) \div Rate = Units(x) - Units(y) /\ Units(x) - Units(y) \in Nat
<1> DEFINE k == Units(x)
           n == Units(y)
<1>1. k \in Nat /\ x = Rate * k /\ n \in Nat /\ y = Rate * n /\ Rate \in Nat /\ Rate > 0
  BY UnitsAre, TimesAssumption
<1> HIDE DEF k, n
<1>2. n <= k
  BY <1>1
<1>3. k - n \in Nat /\ x - y = Rate * (k - n)
  BY <1>1, <1>2
<1>4. Units(x - y) = k - n
  BY <1>3, UnitsOf
<1> QED
  BY <1>3, <1>4 DEF Units, k, n

LEMMA ScaledIs ==
  ASSUME NEW s \in Updates, NEW q \in Updates, Blank(s), Fits(s, q)
  PROVE  /\ Scaled(s, q) = Units(q.live_time) /\ Units(q.live_time) \in Nat
         /\ q.lab_time - s.lab_time \in Nat
         /\ Units(q.live_time) <= q.lab_time - s.lab_time
<1> DEFINE rt == q.lab_time - s.lab_time
           k == Units(q.live_time)
<1>1. /\ s.lab_time \in Nat /\ q.lab_time \in Nat /\ q.native_time \in Nat
      /\ q.live_time \in Nat /\ s.native_time = 0 /\ s.live_time = 0
  BY DEF Updates, Blank
<1>2. rt \in Nat /\ q.native_time = Rate * rt /\ q.live_time <= Rate * rt
  BY <1>1 DEF Fits
<1>3. k \in Nat /\ q.live_time = Rate * k /\ Rate \in Nat /\ Rate > 0
  BY <1>1, UnitsAre, TimesAssumption DEF Fits
<1>4. Scaled(s, q) = IF q.native_time > 0 THEN (q.live_time * rt) \div q.native_time
                     ELSE q.live_time
  BY <1>1 DEF Scaled
<1> HIDE DEF rt, k
<1>5. k <= rt
  BY <1>2, <1>3
<1>6. Scaled(s, q) = k
  <2>1. CASE rt = 0
    BY <1>2, <1>3, <1>4, <1>5, <2>1
  <2>2. CASE rt > 0
    <3> DEFINE d == Rate * rt
    <3>1. d \in Nat /\ d > 0
      BY <1>2, <1>3, <2>2
    <3>2. q.live_time * rt = d * k
      BY <1>2, <1>3
    <3> HIDE DEF d
    <3>3. (d * k) \div d = k
      BY <1>3, <3>1
    <3> QED
      BY <1>2, <1>4, <3>1, <3>2, <3>3 DEF d
  <2> QED
    BY <1>2, <2>1, <2>2
<1> QED
  BY <1>2, <1>3, <1>5, <1>6 DEF rt, k

-----------------------------------------------------------------------------
(* SpectrumTimes: totals of a list                                         *)

NoTotals(q) == [start |-> q, rt |-> 0, lt |-> 0, real |-> 0, live |-> 0]

\* totals in the middle of a list that may be anything
AnyTotals == [start : Updates, rt : Int, lt : Int, real : Int, live : Int]

\* f are the totals after each update of L
AddedUp(L, f) ==
  /\ f \in [0..Len(L) -> AnyTotals] /\ f[0] = NoTotals(Head(L))
  /\ \A n \in 1..Len(L) : f[n] = AddUp(f[n - 1], L[n])

LEMMA AddUpIs ==
  ASSUME NEW t \in AnyTotals, NEW q \in Updates
  PROVE  AddUp(t, q) \in AnyTotals
<1>1. t.rt \in Int /\ t.lt \in Int /\ t.real \in Int /\ t.live \in Int /\ t.start \in Updates
  BY DEF AnyTotals
<1>2. q.lab_time - t.start.lab_time \in Int /\ Scaled(t.start, q) \in Int
  <2> DEFINE s == t.start
             live == q.live_time - s.live_time
             native == q.native_time - s.native_time
             rt == q.lab_time - s.lab_time
  <2>1. live \in Int /\ native \in Int /\ rt \in Int
    BY <1>1 DEF Updates
  <2>2. Scaled(s, q) = IF native > 0 THEN (live * rt) \div native ELSE live
    BY DEF Scaled
  <2> HIDE DEF live, native, rt
  <2>3. live * rt \in Int
    BY <2>1
  <2>4. native > 0 => (live * rt) \div native \in Int
    BY <2>1, <2>3
  <2>5. Scaled(s, q) \in Int
    BY <2>1, <2>2, <2>4
  <2> QED
    BY <2>1, <2>5 DEF rt
<1>3. t.real + t.rt \in Int /\ t.live + t.lt \in Int
  BY <1>1
<1>4. CASE IsStart(q)
  BY <1>1, <1>3, <1>4 DEF AddUp, IsStart, AnyTotals
<1>5. CASE ~IsStart(q)
  BY <1>1, <1>2, <1>5 DEF AddUp, IsStart, AnyTotals
<1> QED
  BY <1>4, <1>5

LEMMA TotalsAre ==
  ASSUME NEW L \in Seq(Updates), L # << >>
  PROVE  \E f : AddedUp(L, f) /\ Totals(L) = f[Len(L)]
<1> DEFINE N == Len(L)
           none == NoTotals(Head(L))
           step == [x \in (1..N) \X AnyTotals |-> AddUp(x[2], L[x[1]])]
           Right(g) == g = [n \in 0..N |-> IF n = 0 THEN none ELSE AddUp(g[n - 1], L[n])]
           sum == CHOOSE g : Right(g)
<1>1. N \in Nat /\ N > 0 /\ \A n \in 1..N : L[n] \in Updates
  OBVIOUS
<1>2. none \in AnyTotals
  BY HeadTailProperties DEF NoTotals, AnyTotals
<1>3. step \in [(1..N) \X AnyTotals -> AnyTotals]
  <2>1. ASSUME NEW x \in (1..N) \X AnyTotals PROVE AddUp(x[2], L[x[1]]) \in AnyTotals
    <3>1. x[2] \in AnyTotals /\ L[x[1]] \in Updates
      BY <1>1
    <3> QED
      BY <3>1, AddUpIs
  <2> QED
    BY <2>1
<1> HIDE DEF none
<1>4. PICK f \in [0..N -> AnyTotals] : Steps(f, N, none, step)
  <2> HIDE DEF step, N
  <2> QED
    BY <1>1, <1>2, <1>3, StepsExist
<1>5. Right(f)
  <2>1. ASSUME NEW n \in 1..N PROVE f[n] = AddUp(f[n - 1], L[n])
    <3>1. f[n] = step[<<n, f[n - 1]>>]
      BY <1>4 DEF Steps
    <3>2. n - 1 \in 0..N
      <4> HIDE DEF N
      <4> QED
        BY <1>1
    <3>3. <<n, f[n - 1]>> \in (1..N) \X AnyTotals
      BY <3>2
    <3> HIDE DEF N
    <3>4. step[<<n, f[n - 1]>>] = AddUp(f[n - 1], L[n])
      BY <3>3
    <3> QED
      BY <3>1, <3>4
  <2>2. f[0] = none
    BY <1>4 DEF Steps
  <2> HIDE DEF N
  <2>3. \A n \in 0..N : f[n] = IF n = 0 THEN none ELSE AddUp(f[n - 1], L[n])
    BY <1>1, <2>1, <2>2
  <2> QED
    BY <2>3
<1>6. Right(sum)
  BY <1>5
<1>7. Totals(L) = sum[N]
  BY DEF Totals, none, NoTotals
<1> HIDE DEF sum, step
<1>8. /\ sum[0] = none /\ DOMAIN sum = 0..N
      /\ \A n \in 1..N : sum[n] = AddUp(sum[n - 1], L[n])
  <2>1. sum = [n \in 0..N |-> IF n = 0 THEN none ELSE AddUp(sum[n - 1], L[n])]
    BY <1>6
  <2> HIDE DEF N
  <2> QED
    BY <1>1, <2>1
<1> DEFINE P == {k \in 0..N : sum[k] \in AnyTotals}
<1>9. \A k \in 0..N : k \in P
  <2>1. 0 \in P
    BY <1>1, <1>2, <1>8
  <2>2. ASSUME NEW k \in 0..N, k < N, k \in P PROVE k + 1 \in P
    <3>1. k + 1 \in 1..N /\ k + 1 - 1 = k
      BY <1>1, <2>2
    <3>2. sum[k + 1] = AddUp(sum[k + 1 - 1], L[k + 1])
      BY <1>8, <3>1
    <3>3. sum[k] \in AnyTotals /\ L[k + 1] \in Updates
      BY <1>1, <2>2, <3>1
    <3>4. AddUp(sum[k], L[k + 1]) \in AnyTotals
      BY <3>3, AddUpIs
    <3> QED
      BY <3>1, <3>2, <3>4
  <2> HIDE DEF P, N
  <2> QED
    BY <1>1, <2>1, <2>2, UpTo
<1>10. sum \in [0..N -> AnyTotals]
  <2>1. sum = [n \in 0..N |-> IF n = 0 THEN none ELSE AddUp(sum[n - 1], L[n])]
    BY <1>6
  <2>2. sum = [n \in 0..N |-> sum[n]]
    BY <1>8, <2>1
  <2> QED
    BY <1>9, <2>2
<1>11. AddedUp(L, sum)
  BY <1>8, <1>10 DEF AddedUp, none
<1> QED
  BY <1>7, <1>11

LEMMA TotalsNext ==
  ASSUME NEW L \in Seq(Updates), L # << >>, NEW q \in Updates, NEW M, M = Append(L, q)
  PROVE  Totals(M) = AddUp(Totals(L), q)
<1> DEFINE N == Len(L)
<1>1. /\ N \in Nat /\ N > 0 /\ M \in Seq(Updates) /\ M # << >> /\ Len(M) = N + 1
      /\ M[N + 1] = q /\ \A n \in 1..N : M[n] = L[n]
  BY Appended
<1>2. Head(M) = Head(L)
  BY <1>1
<1>3. PICK f : AddedUp(L, f) /\ Totals(L) = f[N]
  <2>1. \E f : AddedUp(L, f) /\ Totals(L) = f[Len(L)]
    BY TotalsAre
  <2> QED
    BY <2>1
<1>4. PICK g : AddedUp(M, g) /\ Totals(M) = g[N + 1]
  <2>1. \E g : AddedUp(M, g) /\ Totals(M) = g[Len(M)]
    BY <1>1, TotalsAre
  <2> QED
    BY <1>1, <2>1
<1> DEFINE P == {k \in 0..N : g[k] = f[k]}
<1>5. \A k \in 0..N : k \in P
  <2>1. 0 \in P
    BY <1>1, <1>2, <1>3, <1>4 DEF AddedUp
  <2>2. ASSUME NEW k \in 0..N, k < N, k \in P PROVE k + 1 \in P
    <3>1. k + 1 \in 1..N /\ k + 1 \in 1..N + 1 /\ k + 1 - 1 = k /\ k + 1 \in 0..N
      BY <1>1, <2>2
    <3>2. f[k + 1] = AddUp(f[k + 1 - 1], L[k + 1])
      BY <1>3, <3>1 DEF AddedUp
    <3>3. g[k + 1] = AddUp(g[k + 1 - 1], M[k + 1])
      BY <1>1, <1>4, <3>1 DEF AddedUp
    <3>4. M[k + 1] = L[k + 1] /\ g[k] = f[k]
      BY <1>1, <2>2, <3>1
    <3> QED
      BY <3>1, <3>2, <3>3, <3>4
  <2> HIDE DEF P, N
  <2> QED
    BY <1>1, <2>1, <2>2, UpTo
<1>6. g[N + 1] = AddUp(g[N + 1 - 1], M[N + 1]) /\ N + 1 - 1 = N /\ N \in 0..N
  <2>1. N + 1 \in 1..N + 1 /\ N + 1 - 1 = N /\ N \in 0..N
    BY <1>1
  <2> QED
    BY <1>1, <1>4, <2>1 DEF AddedUp
<1>7. g[N] = f[N]
  BY <1>5, <1>6
<1> QED
  BY <1>1, <1>3, <1>4, <1>6, <1>7

LEMMA SumFirst ==
  ASSUME NEW q \in Updates, IsStart(q), Blank(q)
  PROVE  SumIs(NoTotals(q), q)
BY DEF SumIs, NoTotals, TotalsSet, Updates

LEMMA SumStart ==
  ASSUME NEW t, NEW x, SumIs(t, x), NEW q \in Updates, IsStart(q), Blank(q),
         NEW u, u = AddUp(t, q)
  PROVE  /\ SumIs(u, q) /\ u.start = q /\ u.real = t.real + t.rt /\ u.live = t.live + t.lt
<1>1. /\ t.rt \in Nat /\ t.lt \in Nat /\ t.real \in Nat /\ t.live \in Nat /\ t \in TotalsSet
      /\ t.lt <= t.rt /\ t.live <= t.real
  BY DEF SumIs, TotalsSet
<1>2. /\ t.real + t.rt \in Nat /\ t.live + t.lt \in Nat
      /\ t.live + t.lt <= t.real + t.rt
  BY <1>1
<1>3. u = [t EXCEPT !.real = t.real + t.rt, !.live = t.live + t.lt, !.start = q]
  BY DEF AddUp, IsStart
<1>4. /\ u.start = q /\ u.real = t.real + t.rt /\ u.live = t.live + t.lt
      /\ u.rt = t.rt /\ u.lt = t.lt
  BY <1>1, <1>3 DEF TotalsSet
<1>5. u \in TotalsSet
  BY <1>1, <1>2, <1>3 DEF TotalsSet
<1> QED
  BY <1>1, <1>2, <1>4, <1>5 DEF SumIs

LEMMA TotalsOne ==
  ASSUME NEW q \in Updates, IsStart(q), Blank(q), NEW L, L = <<q>>
  PROVE  /\ SumIs(Totals(L), q) /\ Totals(L).start = q
         /\ Totals(L).real = 0 /\ Totals(L).live = 0
<1>1. L \in Seq(Updates) /\ L # << >> /\ Len(L) = 1 /\ L[1] = q /\ Head(L) = q
  OBVIOUS
<1>2. PICK f : AddedUp(L, f) /\ Totals(L) = f[Len(L)]
  <2>1. \E f : AddedUp(L, f) /\ Totals(L) = f[Len(L)]
    BY <1>1, TotalsAre
  <2> QED
    BY <2>1
<1>3. f[0] = NoTotals(q) /\ Totals(L) = AddUp(f[0], q)
  <2>1. 1 \in 1..Len(L) /\ 1 - 1 = 0
    BY <1>1
  <2>2. f[1] = AddUp(f[1 - 1], L[1])
    BY <1>2, <2>1 DEF AddedUp
  <2> QED
    BY <1>1, <1>2, <2>1, <2>2 DEF AddedUp
<1>4. SumIs(NoTotals(q), q) /\ NoTotals(q).rt = 0 /\ NoTotals(q).lt = 0
      /\ NoTotals(q).real = 0 /\ NoTotals(q).live = 0
  BY SumFirst DEF NoTotals
<1>5. /\ SumIs(Totals(L), q) /\ Totals(L).start = q
      /\ Totals(L).real = 0 + 0 /\ Totals(L).live = 0 + 0
  BY <1>3, <1>4, SumStart
<1> QED
  BY <1>5

LEMMA SumOther ==
  ASSUME NEW t, NEW x, SumIs(t, x), NEW q \in Updates, ~IsStart(q), Fits(t.start, q),
         NEW u, u = AddUp(t, q)
  PROVE  SumIs(u, q) /\ u.start = t.start /\ u.real = t.real /\ u.live = t.live
<1> DEFINE s == t.start
           r == q.lab_time - s.lab_time
           k == Units(q.live_time)
<1>1. /\ t.real \in Nat /\ t.live \in Nat /\ t \in TotalsSet /\ t.live <= t.real
      /\ s \in Updates /\ IsStart(s) /\ Blank(s)
  BY DEF SumIs, TotalsSet
<1>2. Scaled(s, q) = k /\ k \in Nat /\ r \in Nat /\ k <= r
  BY <1>1, ScaledIs
<1>3. u = [t EXCEPT !.rt = r, !.lt = k]
  BY <1>2 DEF AddUp, IsStart
<1>4. u.start = s /\ u.real = t.real /\ u.live = t.live /\ u.rt = r /\ u.lt = k
  <2> HIDE DEF s, r, k
  <2> QED
    BY <1>1, <1>3 DEF TotalsSet, s
<1>5. u \in TotalsSet
  <2> HIDE DEF s, r, k
  <2> QED
    BY <1>1, <1>2, <1>3 DEF TotalsSet
<1> QED
  BY <1>1, <1>2, <1>4, <1>5 DEF SumIs
-----------------------------------------------------------------------------
(* SpectrumTimes: the list that _push_stats() keeps                        *)

\* what comes of a list L with the update q
Grown(L, q, M) ==
  /\ M \in Seq(Updates) /\ M # << >> /\ M[Len(M)] = q /\ Kept(M)
  /\ Len(M) > 1 <=> L # << >>
  /\ ~IsStart(q) => /\ Totals(M).start = Totals(L).start
                    /\ Totals(M).real = Totals(L).real /\ Totals(M).live = Totals(L).live
  /\ IsStart(q) =>
       /\ Totals(M).start = q
       /\ Totals(M).real = IF L = << >> THEN 0 ELSE Totals(L).real + Totals(L).rt
       /\ Totals(M).live = IF L = << >> THEN 0 ELSE Totals(L).live + Totals(L).lt

\* all but the last of a list
LEMMA FrontIs ==
  ASSUME NEW L \in Seq(Updates), Len(L) > 1
  PROVE  /\ Front(L) \in Seq(Updates) /\ Front(L) # << >> /\ Len(Front(L)) = Len(L) - 1
         /\ \A i \in 1..Len(L) - 1 : Front(L)[i] = L[i]
         /\ L = Append(Front(L), L[Len(L)])
<1> DEFINE N == Len(L)
           F == SubSeq(L, 1, N - 1)
<1>1. N \in Nat /\ N > 1 /\ 1 \in Int /\ N - 1 \in Int /\ \A i \in 1..N : L[i] \in Updates
  OBVIOUS
<1>2. F \in Seq(Updates) /\ Len(F) = N - 1 /\ \A i \in 1..N - 1 : F[i] = L[i]
  <2>1. \A i \in 1..N - 1 : L[i] \in Updates
    BY <1>1
  <2>2. /\ F \in Seq(Updates) /\ Len(F) = IF 1 <= N - 1 THEN N - 1 - 1 + 1 ELSE 0
        /\ \A i \in 1..N - 1 - 1 + 1 : F[i] = L[1 + i - 1]
    BY <1>1, <2>1, SubSeqProperties
  <2>3. N - 1 - 1 + 1 = N - 1 /\ 1 <= N - 1 /\ \A i \in 1..N - 1 : 1 + i - 1 = i
    BY <1>1
  <2> QED
    BY <2>2, <2>3
<1>3. F = Front(L)
  BY DEF Front
<1> HIDE DEF F
<1>4. F # << >>
  BY <1>1, <1>2
<1>5. L = Append(F, L[N])
  <2> DEFINE A == Append(F, L[N])
  <2>1. A \in Seq(Updates) /\ Len(A) = N - 1 + 1 /\ A[N - 1 + 1] = L[N]
        /\ \A i \in 1..N - 1 : A[i] = F[i]
    BY <1>1, <1>2, Appended
  <2>2. N - 1 + 1 = N
    BY <1>1
  <2>3. ASSUME NEW i \in 1..N PROVE L[i] = A[i]
    <3>1. CASE i = N
      BY <2>1, <2>2, <3>1
    <3>2. CASE i \in 1..N - 1
      BY <1>2, <2>1, <3>2
    <3>3. i = N \/ i \in 1..N - 1
      <4> HIDE DEF N
      <4> QED
        BY <1>1
    <3> QED
      BY <3>1, <3>2, <3>3
  <2> HIDE DEF A
  <2>4. L = A
    BY <2>1, <2>2, <2>3, SeqEqual
  <2> QED
    BY <2>4 DEF A
<1> QED
  BY <1>2, <1>3, <1>4, <1>5

\* what comes of a list P that q is appended to
Adds(P, q, M) ==
  /\ M \in Seq(Updates) /\ M # << >> /\ M[Len(M)] = q /\ Kept(M) /\ Len(M) > 1
  /\ ~IsStart(q) => /\ Totals(M).start = Totals(P).start
                    /\ Totals(M).real = Totals(P).real /\ Totals(M).live = Totals(P).live
  /\ IsStart(q) => /\ Totals(M).start = q
                   /\ Totals(M).real = Totals(P).real + Totals(P).rt
                   /\ Totals(M).live = Totals(P).live + Totals(P).lt

LEMMA AppendKept ==
  ASSUME NEW P \in Seq(Updates), P # << >>, IsStart(P[1]), SumIs(Totals(P), P[Len(P)]),
         NEW q \in Updates, IF IsStart(q) THEN Blank(q) ELSE Fits(Totals(P).start, q),
         NEW M, M = Append(P, q)
  PROVE  Adds(P, q, M)
<1> DEFINE N == Len(P)
<1>1. /\ M \in Seq(Updates) /\ Len(M) = N + 1 /\ M[N + 1] = q /\ \A i \in 1..N : M[i] = P[i]
      /\ N \in Nat /\ N > 0
  BY Appended
<1>2. M # << >> /\ Len(M) > 1 /\ M[1] = P[1]
  BY <1>1
<1>3. Totals(M) = AddUp(Totals(P), q)
  BY TotalsNext
<1>4. /\ SumIs(Totals(M), q)
      /\ ~IsStart(q) => /\ Totals(M).start = Totals(P).start
                        /\ Totals(M).real = Totals(P).real
                        /\ Totals(M).live = Totals(P).live
      /\ IsStart(q) => /\ Totals(M).start = q
                       /\ Totals(M).real = Totals(P).real + Totals(P).rt
                       /\ Totals(M).live = Totals(P).live + Totals(P).lt
  <2>1. CASE IsStart(q)
    BY <1>3, <2>1, SumStart
  <2>2. CASE ~IsStart(q)
    BY <1>3, <2>2, SumOther
  <2> QED
    BY <2>1, <2>2
<1>5. Front(M) = P
  <2>1. /\ Front(M) \in Seq(Updates) /\ Len(Front(M)) = Len(M) - 1
        /\ \A i \in 1..Len(M) - 1 : Front(M)[i] = M[i]
    BY <1>1, <1>2, FrontIs
  <2>2. Len(M) - 1 = N
    BY <1>1
  <2>3. \A i \in 1..Len(P) : Front(M)[i] = P[i]
    BY <1>1, <2>1, <2>2
  <2> QED
    BY <2>1, <2>2, <2>3, SeqEqual
<1>6. M[Len(M)] = q /\ M[Len(M) - 1] = P[Len(P)]
  <2>1. N + 1 - 1 = N /\ N \in 1..N
    BY <1>1
  <2> QED
    BY <1>1, <2>1
<1>7. Kept(M)
  BY <1>2, <1>4, <1>5, <1>6 DEF Kept
<1> QED
  BY <1>1, <1>2, <1>4, <1>6, <1>7 DEF Adds

\* a run that broke off is closed
LEMMA ClosedIs ==
  ASSUME NEW L \in Seq(Updates), L # << >>, Kept(L), L[Len(L)].stats_type = "running",
         NEW P, P = [L EXCEPT ![Len(L)].stats_type = "stop"]
  PROVE  /\ P \in Seq(Updates) /\ P # << >> /\ Len(P) = Len(L) /\ IsStart(P[1])
         /\ Totals(P) = Totals(L) /\ SumIs(Totals(P), P[Len(P)])
         /\ P[Len(P)].stats_type = "stop"
<1> DEFINE N == Len(L)
           x == L[N]
           y == [x EXCEPT !.stats_type = "stop"]
           F == Front(L)
<1>1. N \in Nat /\ N > 1 /\ N \in 1..N /\ 1 \in 1..N /\ SumIs(Totals(L), x) /\ IsStart(L[1])
  BY DEF Kept
<1>2. x \in Updates /\ y \in Updates
  <2>1. x \in Updates
    BY <1>1
  <2> QED
    BY <2>1 DEF Updates, StatsTypes
<1>3. /\ y.stats_type = "stop" /\ y.lab_time = x.lab_time /\ y.native_time = x.native_time
      /\ y.live_time = x.live_time
  BY <1>2 DEF Updates
<1>4. P = [L EXCEPT ![N] = y]
  OBVIOUS
<1> HIDE DEF y
<1>5. /\ P \in Seq(Updates) /\ Len(P) = N
      /\ \A j \in 1..N : P[j] = IF j = N THEN y ELSE L[j]
  BY <1>1, <1>2, <1>4, ExceptSeq
<1>6. /\ F \in Seq(Updates) /\ F # << >> /\ Len(F) = N - 1
      /\ \A i \in 1..N - 1 : F[i] = L[i]
      /\ L = Append(F, x)
  BY <1>1, FrontIs
<1>7. P = Append(F, y)
  <2> DEFINE A == Append(F, y)
  <2>1. A \in Seq(Updates) /\ Len(A) = N - 1 + 1 /\ A[N - 1 + 1] = y
        /\ \A i \in 1..N - 1 : A[i] = F[i]
    BY <1>2, <1>6, Appended
  <2>2. N - 1 + 1 = N
    BY <1>1
  <2>3. ASSUME NEW i \in 1..N PROVE P[i] = A[i]
    <3>1. CASE i = N
      BY <1>5, <2>1, <2>2, <3>1
    <3>2. CASE i \in 1..N - 1
      <4>1. i # N
        BY <1>1, <3>2
      <4> QED
        BY <1>5, <1>6, <2>1, <3>2, <4>1
    <3>3. i = N \/ i \in 1..N - 1
      <4> HIDE DEF N
      <4> QED
        BY <1>1
    <3> QED
      BY <3>1, <3>2, <3>3
  <2> HIDE DEF A
  <2>4. P = A
    BY <1>5, <2>1, <2>2, <2>3, SeqEqual
  <2> QED
    BY <2>4 DEF A
<1> HIDE DEF F, x
<1>8. Totals(L) = AddUp(Totals(F), x) /\ Totals(P) = AddUp(Totals(F), y)
  BY <1>2, <1>6, <1>7, TotalsNext
<1>9. x.stats_type = "running"
  BY DEF x
<1>10. AddUp(Totals(F), x) = AddUp(Totals(F), y)
  BY <1>3, <1>9 DEF AddUp, Scaled
<1>11. SumIs(Totals(L), y)
  <2>1. SumIs(Totals(L), x)
    BY <1>1
  <2> HIDE DEF N
  <2> QED
    BY <1>3, <1>9, <2>1 DEF SumIs, IsStart, Fits
<1>12. P[N] = y /\ P[1] = L[1] /\ P # << >>
  BY <1>1, <1>5
<1> QED
  BY <1>1, <1>3, <1>5, <1>8, <1>10, <1>11, <1>12

LEMMA ListedIs ==
  ASSUME NEW L \in Seq(Updates), Kept(L), NEW q \in Updates,
         L = << >> => IsStart(q),
         IF IsStart(q) THEN Blank(q) ELSE Fits(Totals(L).start, q),
         NEW M, M = Listed(L, q)
  PROVE  Grown(L, q, M)
<1>1. CASE L = << >>
  <2>1. M = <<q>>
    BY <1>1 DEF Listed, ClosedBy
  <2>2. /\ SumIs(Totals(M), q) /\ Totals(M).start = q
        /\ Totals(M).real = 0 /\ Totals(M).live = 0
    BY <1>1, <2>1, TotalsOne
  <2>3. M \in Seq(Updates) /\ M # << >> /\ Len(M) = 1 /\ M[1] = q
    BY <2>1
  <2>4. q.stats_type = "start"
    BY <1>1 DEF IsStart
  <2>5. Kept(M)
    BY <1>1, <2>2, <2>3, <2>4 DEF Kept
  <2> QED
    BY <1>1, <2>2, <2>3, <2>5 DEF Grown
<1>2. CASE L # << >>
  <2> DEFINE x == L[Len(L)]
  <2>1. IsStart(L[1]) /\ SumIs(Totals(L), x) /\ L # << >> /\ Last(L) = x
    BY <1>2 DEF Kept, Last
  <2>2. CASE IsStart(q) /\ x.stats_type = "running"
    <3> DEFINE P == [L EXCEPT ![Len(L)].stats_type = "stop"]
    <3>1. /\ P \in Seq(Updates) /\ P # << >> /\ IsStart(P[1])
          /\ Totals(P) = Totals(L) /\ SumIs(Totals(P), P[Len(P)])
          /\ P[Len(P)].stats_type = "stop"
      BY <1>2, <2>2, ClosedIs
    <3>2. ClosedBy(L, q) = P
      BY <1>2, <2>1, <2>2 DEF ClosedBy, IsStart
    <3> HIDE DEF P
    <3>3. M = Append(P, q)
      BY <3>1, <3>2 DEF Listed, Last
    <3>4. Adds(P, q, M)
      BY <2>2, <3>1, <3>3, AppendKept
    <3> QED
      BY ONLY <1>2, <2>2, <3>1, <3>4 DEF Adds, Grown
  <2>3. CASE ~IsStart(q) /\ x.stats_type = "running"
    <3> DEFINE P == Front(L)
    <3>1. ClosedBy(L, q) = L
      BY <2>3 DEF ClosedBy, IsStart
    <3>2. M = Append(P, q)
      BY <1>2, <2>1, <2>3, <3>1 DEF Listed
    <3>3. Len(L) > 1 /\ SumIs(Totals(P), L[Len(L) - 1])
      BY <1>2, <2>3 DEF Kept
    <3>4. /\ P \in Seq(Updates) /\ P # << >> /\ Len(P) = Len(L) - 1
          /\ \A i \in 1..Len(L) - 1 : P[i] = L[i]
          /\ L = Append(P, x)
      BY <3>3, FrontIs
    <3>5. P[1] = L[1] /\ P[Len(P)] = L[Len(L) - 1] /\ x \in Updates
      BY <3>3, <3>4
    <3> HIDE DEF P
    <3>6. Totals(L) = AddUp(Totals(P), x)
      <4> HIDE DEF x
      <4> QED
        BY <3>4, <3>5, TotalsNext
    <3>7. /\ Totals(L).start = Totals(P).start /\ Totals(L).real = Totals(P).real
          /\ Totals(L).live = Totals(P).live
      <4>1. Totals(P) \in TotalsSet
        BY <3>3 DEF SumIs
      <4> HIDE DEF x
      <4>2. x.stats_type # "start"
        BY <2>3
      <4> QED
        BY <3>6, <4>1, <4>2 DEF AddUp, TotalsSet
    <3>8. Fits(Totals(P).start, q) /\ SumIs(Totals(P), P[Len(P)]) /\ IsStart(P[1])
      BY <2>1, <2>3, <3>3, <3>5, <3>7
    <3>9. Adds(P, q, M)
      BY <2>3, <3>2, <3>4, <3>8, AppendKept
    <3> QED
      BY ONLY <1>2, <2>3, <3>7, <3>9 DEF Adds, Grown
  <2>4. CASE x.stats_type # "running"
    <3>1. ClosedBy(L, q) = L
      BY <2>1, <2>4 DEF ClosedBy
    <3>2. M = Append(L, q)
      BY <2>1, <2>4, <3>1 DEF Listed
    <3>3. Adds(L, q, M)
      BY <1>2, <2>1, <3>2, AppendKept
    <3> QED
      BY ONLY <1>2, <3>3 DEF Adds, Grown
  <2> QED
    BY <2>2, <2>3, <2>4
<1> QED
  BY <1>1, <1>2
-----------------------------------------------------------------------------
(* SpectrumTimes: one channel and the steps that change it                 *)

LEMMA Removed ==
  ASSUME NEW p \in Seq(Updates), NEW i \in 1..Len(p), NEW r, r = RemoveAt(p, i)
  PROVE  /\ r \in Seq(Updates) /\ Len(r) = Len(p) - 1
         /\ \A j \in 1..Len(p) - 1 : r[j] = IF j < i THEN p[j] ELSE p[j + 1]
<1> DEFINE N == Len(p)
           a == SubSeq(p, 1, i - 1)
           b == SubSeq(p, i + 1, N)
<1>1. N \in Nat /\ i \in Nat /\ 1 <= i /\ i <= N /\ \A j \in 1..N : p[j] \in Updates
  OBVIOUS
<1>2. a \in Seq(Updates) /\ Len(a) = i - 1 /\ \A j \in 1..i - 1 : a[j] = p[j]
  <2>1. \A j \in 1..i - 1 : p[j] \in Updates
    BY <1>1
  <2>2. /\ a \in Seq(Updates) /\ Len(a) = IF 1 <= i - 1 THEN i - 1 - 1 + 1 ELSE 0
        /\ \A j \in 1..i - 1 - 1 + 1 : a[j] = p[1 + j - 1]
    BY <1>1, <2>1, SubSeqProperties
  <2>3. i - 1 - 1 + 1 = i - 1 /\ \A j \in 1..i - 1 : 1 + j - 1 = j
    BY <1>1
  <2>4. Len(a) = i - 1
    BY <1>1, <2>2
  <2> QED
    BY <2>2, <2>3, <2>4
<1>3. b \in Seq(Updates) /\ Len(b) = N - i /\ \A j \in 1..N - i : b[j] = p[i + j]
  <2>1. \A j \in i + 1..N : p[j] \in Updates
    BY <1>1
  <2>2. /\ b \in Seq(Updates) /\ Len(b) = IF i + 1 <= N THEN N - (i + 1) + 1 ELSE 0
        /\ \A j \in 1..N - (i + 1) + 1 : b[j] = p[i + 1 + j - 1]
    BY <1>1, <2>1, SubSeqProperties
  <2>3. N - (i + 1) + 1 = N - i /\ \A j \in 1..N - i : i + 1 + j - 1 = i + j
    BY <1>1
  <2>4. Len(b) = N - i
    BY <1>1, <2>2
  <2> QED
    BY <2>2, <2>3, <2>4
<1>4. r = a \o b
  BY DEF RemoveAt
<1> HIDE DEF a, b, N
<1>5. /\ r \in Seq(Updates) /\ Len(r) = i - 1 + (N - i)
      /\ \A j \in 1..i - 1 + (N - i) : r[j] = IF j <= i - 1 THEN a[j] ELSE b[j - (i - 1)]
  <2>1. /\ r \in Seq(Updates) /\ Len(r) = Len(a) + Len(b)
        /\ \A j \in 1..Len(a) + Len(b) : r[j] = IF j <= Len(a) THEN a[j] ELSE b[j - Len(a)]
    BY <1>2, <1>3, <1>4, ConcatProperties
  <2>2. Len(a) = i - 1 /\ Len(b) = N - i
    BY <1>2, <1>3
  <2> QED
    BY <2>1, <2>2
<1>6. i - 1 + (N - i) = N - 1
  BY <1>1
<1>7. ASSUME NEW j \in 1..N - 1 PROVE r[j] = IF j < i THEN p[j] ELSE p[j + 1]
  <2>1. r[j] = IF j <= i - 1 THEN a[j] ELSE b[j - (i - 1)]
    BY <1>5, <1>6
  <2>2. CASE j < i
    <3>1. j <= i - 1 /\ j \in 1..i - 1
      BY <1>1, <2>2
    <3> QED
      BY <1>2, <2>1, <2>2, <3>1
  <2>3. CASE ~(j < i)
    <3>1. ~(j <= i - 1) /\ j - (i - 1) \in 1..N - i /\ i + (j - (i - 1)) = j + 1
      BY <1>1, <2>3
    <3>2. b[j - (i - 1)] = p[i + (j - (i - 1))]
      BY <1>3, <3>1
    <3> QED
      BY <2>1, <2>3, <3>1, <3>2
  <2> QED
    BY <2>2, <2>3
<1> QED
  BY <1>5, <1>6, <1>7 DEF N

\* what holds when q of the updates p on their way to the list L was pushed
PushedTo(L, p, s, t, q, M, r) ==
  /\ Grown(L, q, M) /\ Coming(M, r) /\ Counting(M, r, s, t)
  /\ ~Starts1(r) /\ Current(M, r) = Current(L, p)
  /\ Starts1(p) <=> IsStart(q)

LEMMA PushedIs ==
  ASSUME NEW L \in Seq(Updates), NEW p \in Seq(Updates), NEW s, NEW t,
         Kept(L), Coming(L, p), Counting(L, p, s, t),
         NEW i \in 1..Len(p), Overtakes(p, i), NEW q, q = p[i],
         NEW M, M = Listed(L, q), NEW r, r = RemoveAt(p, i)
  PROVE  PushedTo(L, p, s, t, q, M, r)
<1>1. /\ r \in Seq(Updates) /\ Len(r) = Len(p) - 1
      /\ \A j \in 1..Len(p) - 1 : r[j] = IF j < i THEN p[j] ELSE p[j + 1]
  BY Removed
<1>2. Len(p) \in Nat /\ i \in Nat /\ 1 <= i /\ i <= Len(p) /\ q \in Updates /\ p # << >>
  OBVIOUS
<1>3. \A j \in 1..Len(p) : IF IsStart(p[j]) THEN j = 1 ELSE Fits(Current(L, p), p[j])
  BY DEF Coming
<1>4. /\ i # 1 => ~Starts1(p) /\ ~IsStart(q)
      /\ Starts1(p) <=> IsStart(q)
  <2>1. i # 1 => p[1].stats_type = "running" /\ ~IsStart(p[i])
    <3>1. i # 1 => 1 \in 1..i - 1
      BY <1>2
    <3> QED
      BY <1>3, <3>1 DEF Overtakes
  <2>2. "running" # "start"
    OBVIOUS
  <2> QED
    BY <1>2, <2>1, <2>2 DEF Starts1, IsStart
<1>5. /\ L = << >> => IsStart(q)
      /\ IF IsStart(q) THEN Blank(q) ELSE Fits(Totals(L).start, q)
  <2>1. CASE IsStart(q)
    <3>1. i = 1 /\ Starts1(p)
      BY <1>4, <2>1
    <3> QED
      BY <2>1, <3>1 DEF Coming
  <2>2. CASE ~IsStart(q)
    <3>1. ~Starts1(p)
      BY <1>4, <2>2
    <3> QED
      BY <1>2, <1>3, <2>2, <3>1 DEF Coming, Current
  <2> QED
    BY <2>1, <2>2
<1>6. Grown(L, q, M)
  BY <1>2, <1>5, ListedIs
<1>7. ASSUME NEW j \in 1..Len(r)
      PROVE  ~IsStart(r[j]) /\ Fits(Current(L, p), r[j])
  <2>1. j \in 1..Len(p) - 1 /\ j \in 1..Len(p) /\ j + 1 \in 1..Len(p) /\ j + 1 # 1
    BY <1>1, <1>2
  <2>2. CASE j < i
    <3>1. r[j] = p[j] /\ i # 1
      BY <1>1, <1>2, <2>1, <2>2
    <3>2. j # 1 \/ ~IsStart(p[1])
      BY <1>2, <1>4, <3>1 DEF Starts1
    <3>3. IF IsStart(p[j]) THEN j = 1 ELSE Fits(Current(L, p), p[j])
      BY <1>3, <2>1
    <3> QED
      BY <3>1, <3>2, <3>3
  <2>3. CASE ~(j < i)
    <3>1. r[j] = p[j + 1]
      BY <1>1, <2>1, <2>3
    <3>2. IF IsStart(p[j + 1]) THEN j + 1 = 1 ELSE Fits(Current(L, p), p[j + 1])
      BY <1>3, <2>1
    <3> QED
      BY <2>1, <3>1, <3>2
  <2> QED
    BY <2>2, <2>3
<1>8. ~Starts1(r)
  <2>1. r # << >> => 1 \in 1..Len(r)
    BY <1>1
  <2> QED
    BY <1>7, <2>1 DEF Starts1
<1>9. Current(M, r) = Current(L, p)
  <2>1. Current(M, r) = Totals(M).start
    BY <1>8 DEF Current
  <2>2. CASE IsStart(q)
    <3>1. Starts1(p) /\ i = 1
      BY <1>4, <2>2
    <3> QED
      BY <1>6, <2>1, <2>2, <3>1 DEF Grown, Current
  <2>3. CASE ~IsStart(q)
    <3>1. ~Starts1(p)
      BY <1>4, <2>3
    <3> QED
      BY <1>6, <2>1, <2>3, <3>1 DEF Grown, Current
  <2> QED
    BY <2>2, <2>3
<1>10. M # << >>
  BY <1>6 DEF Grown
<1>11. Coming(M, r)
  BY <1>7, <1>8, <1>9, <1>10 DEF Coming
<1>12. Counting(M, r, s, t)
  BY <1>9, <1>10 DEF Counting
<1> QED
  BY <1>4, <1>6, <1>8, <1>9, <1>11, <1>12 DEF PushedTo

LEMMA PushedAgrees ==
  ASSUME NEW L \in Seq(Updates), NEW p \in Seq(Updates), NEW s, NEW tr, NEW tl,
         NEW i \in 1..Len(p), Overtakes(p, i), Agrees(L, p, s, tr, tl), NEW q, q = p[i],
         NEW M, Grown(L, q, M), NEW r, r = RemoveAt(p, i),
         ~Starts1(r), Current(M, r) = Current(L, p), Starts1(p) <=> IsStart(q)
  PROVE  Agrees(M, r, s, tr, tl)
<1>1. /\ r \in Seq(Updates) /\ Len(r) = Len(p) - 1
      /\ \A j \in 1..Len(p) - 1 : r[j] = IF j < i THEN p[j] ELSE p[j + 1]
  BY Removed
<1>2. /\ Len(p) \in Nat /\ i \in Nat /\ 1 <= i /\ i <= Len(p) /\ p # << >>
      /\ (r = << >> <=> Len(r) = 0)
  BY <1>1
<1>3. M # << >> /\ M[Len(M)] = q
  BY DEF Grown
<1>4. /\ tr = BaseReal(L, p) + (s.at - Current(L, p).lab_time)
      /\ tl = BaseLive(L, p) + Units(s.liveAt)
      /\ Current(L, p).lab_time <= s.at
      /\ \A j \in 1..Len(p) : NotAfter(p[j], s)
      /\ ~s.on \/ s.told => ~IsStart(Latest(L, p))
  BY <1>2 DEF Agrees
<1>5. ASSUME NEW j \in 1..Len(r) PROVE NotAfter(r[j], s)
  <2>1. j \in 1..Len(p) - 1 /\ j \in 1..Len(p) /\ j + 1 \in 1..Len(p)
    BY <1>1, <1>2
  <2>2. r[j] = p[j] \/ r[j] = p[j + 1]
    BY <1>1, <2>1
  <2> QED
    BY <1>4, <2>1, <2>2
<1>6. NotAfter(M[Len(M)], s)
  BY <1>3, <1>4
<1>7. ~s.on \/ s.told => ~IsStart(Latest(M, r))
  <2>1. Latest(L, p) = p[Len(p)]
    BY <1>2 DEF Latest
  <2>2. CASE r = << >>
    <3>0. Len(r) = 0
      BY <2>2
    <3> DEFINE n == Len(p)
    <3>2. n \in Nat /\ i \in Nat /\ 1 <= i /\ i <= n /\ 0 = n - 1
      BY <1>1, <1>2, <3>0
    <3> HIDE DEF n
    <3>3. n = 1 /\ i = n
      BY <3>2
    <3>1. Len(p) = 1 /\ i = Len(p)
      BY <3>3 DEF n
    <3> QED
      BY <1>3, <1>4, <2>1, <2>2, <3>1 DEF Latest
  <2>3. CASE r # << >> /\ i < Len(p)
    <3>1. Len(r) \in 1..Len(p) - 1 /\ ~(Len(r) < i) /\ Len(r) + 1 = Len(p)
      BY <1>1, <1>2, <2>3
    <3>2. r[Len(r)] = p[Len(p)]
      BY <1>1, <3>1
    <3> QED
      BY <1>4, <2>1, <2>3, <3>2 DEF Latest
  <2>4. CASE r # << >> /\ i = Len(p)
    <3>1. Len(r) \in 1..Len(p) - 1 /\ Len(r) < i /\ Len(r) \in 1..i - 1
      BY <1>1, <1>2, <2>4
    <3>2. r[Len(r)].stats_type = "running"
      BY <1>1, <3>1 DEF Overtakes
    <3>3. ~IsStart(r[Len(r)])
      BY <3>2 DEF IsStart
    <3> QED
      BY <2>4, <3>3 DEF Latest
  <2> QED
    BY <1>2, <2>2, <2>3, <2>4
<1>8. BaseReal(M, r) = BaseReal(L, p) /\ BaseLive(M, r) = BaseLive(L, p)
  BY DEF BaseReal, BaseLive, Grown
<1> QED
  BY <1>3, <1>4, <1>5, <1>6, <1>7, <1>8 DEF Agrees

LEMMA CurrentIs ==
  ASSUME NEW L \in Seq(Updates), NEW p \in Seq(Updates), Kept(L), Coming(L, p),
         L # << >> \/ p # << >>
  PROVE  Current(L, p) \in Updates
<1>1. L # << >> => Totals(L).start \in Updates
  BY DEF Kept, SumIs, TotalsSet
<1>2. p # << >> => p[1] \in Updates
  OBVIOUS
<1> QED
  BY <1>1, <1>2 DEF Current, Starts1, Coming

\* a source is started
LEMMA StartSent ==
  ASSUME NEW L \in Seq(Updates), NEW t \in Nat, Kept(L),
         NEW q \in Updates, IsStart(q), Blank(q), q.lab_time = t, NEW s, s.on, ~s.told,
         s.native = 0, s.live = 0, s.at = t, s.liveAt = 0
  PROVE  /\ Coming(L, <<q>>) /\ Counting(L, <<q>>, s, t)
         /\ \A o : \A tr \in Nat, tl \in Nat :
              /\ ~o.on /\ Agrees(L, << >>, o, tr, tl)
              /\ (L # << >> => L[Len(L)].lab_time = o.at)
              => Agrees(L, <<q>>, s, tr, tl)
<1> DEFINE p == <<q>>
           none == << >>
<1>1. Len(p) = 1 /\ p[1] = q /\ p # << >> /\ Starts1(p) /\ \A i \in 1..Len(p) : p[i] = q
  BY DEF Starts1
<1>2. none = << >> /\ ~Starts1(none)
  BY DEF Starts1
<1> HIDE DEF p, none
<1>3. Current(L, p) = q
  BY <1>1 DEF Current
<1>4. Coming(L, p)
  BY <1>1, <1>3 DEF Coming
<1>5. Rate * (t - t) = 0 /\ t - t = 0 /\ q.live_time = 0
  BY TimesAssumption DEF Blank
<1>6. Counting(L, p, s, t)
  BY <1>1, <1>3, <1>5, NoUnits DEF Counting
<1>7. ASSUME NEW o, NEW tr \in Nat, NEW tl \in Nat, ~o.on, Agrees(L, none, o, tr, tl),
             L # << >> => L[Len(L)].lab_time = o.at
      PROVE  Agrees(L, p, s, tr, tl)
  <2>1. \A i \in 1..Len(p) : NotAfter(p[i], s)
    BY <1>1, <1>5 DEF NotAfter
  <2>2. ASSUME tr = BaseReal(L, p), tl = BaseLive(L, p), L # << >> => ~IsStart(L[Len(L)])
        PROVE  Agrees(L, p, s, tr, tl)
    <3>1. /\ tr = BaseReal(L, p) + (s.at - Current(L, p).lab_time)
          /\ tl = BaseLive(L, p) + Units(s.liveAt)
          /\ Current(L, p).lab_time <= s.at
      BY <1>3, <1>5, <2>2, NoUnits
    <3> QED
      BY <1>1, <2>1, <2>2, <3>1 DEF Agrees
  <2>3. CASE L = << >>
    <3>1. tr = 0 /\ tl = 0 /\ BaseReal(L, p) = 0 /\ BaseLive(L, p) = 0
      BY <1>1, <1>2, <1>7, <2>3 DEF Agrees, BaseReal, BaseLive
    <3> QED
      BY <2>2, <2>3, <3>1
  <2>4. CASE L # << >>
    <3> DEFINE x == L[Len(L)]
               T == Totals(L)
    <3>1. /\ tr = T.real + (o.at - T.start.lab_time)
          /\ tl = T.live + Units(o.liveAt)
          /\ ~IsStart(x) /\ NotAfter(x, o) /\ x.lab_time = o.at
      BY <1>2, <1>7, <2>4 DEF Agrees, BaseReal, BaseLive, Latest, Current
    <3>2. x.live_time = o.liveAt
      BY <3>1 DEF NotAfter
    <3>3. SumIs(T, x)
      BY <2>4 DEF Kept
    <3>4. T.rt = x.lab_time - T.start.lab_time /\ T.lt = Units(x.live_time)
      BY <3>1, <3>3 DEF SumIs
    <3>5. BaseReal(L, p) = T.real + T.rt /\ BaseLive(L, p) = T.live + T.lt
      BY <1>1, <2>4 DEF BaseReal, BaseLive
    <3>6. tr = BaseReal(L, p) /\ tl = BaseLive(L, p)
      BY <3>1, <3>2, <3>4, <3>5
    <3> QED
      BY <2>2, <3>1, <3>6
  <2> QED
    BY <2>3, <2>4
<1> QED
  BY <1>4, <1>6, <1>7 DEF p, none

\* a source that is on reports
LEMMA ReportSent ==
  ASSUME NEW L \in Seq(Updates), NEW p \in Seq(Updates), NEW s \in Sources, NEW t \in Nat,
         Kept(L), Coming(L, p), Counting(L, p, s, t), s.on,
         NEW q \in Updates, ~IsStart(q), q.lab_time = t, q.native_time = s.native,
         q.live_time = s.live,
         NEW o, o.at = t, o.liveAt = s.live, o.live = s.live, o.native = s.native, o.told,
         NEW r, r = Append(p, q)
  PROVE  /\ Coming(L, r) /\ Counting(L, r, o, t)
         /\ t - s.at \in Nat /\ (s.live - s.liveAt) \div Rate \in Nat
         /\ \A tr \in Nat, tl \in Nat :
              Agrees(L, p, s, tr, tl) =>
                Agrees(L, r, o, tr + t - s.at, tl + (s.live - s.liveAt) \div Rate)
<1> DEFINE N == Len(p)
           C == Current(L, p)
<1>1. /\ r \in Seq(Updates) /\ Len(r) = N + 1 /\ r[N + 1] = q /\ \A i \in 1..N : r[i] = p[i]
      /\ N \in Nat /\ r # << >>
  <2>1. /\ r \in Seq(Updates) /\ Len(r) = N + 1 /\ r[N + 1] = q
        /\ \A i \in 1..N : r[i] = p[i]
    BY Appended
  <2>2. N \in Nat
    OBVIOUS
  <2> HIDE DEF N
  <2>3. r # << >>
    BY <2>1, <2>2
  <2> QED
    BY <2>1, <2>2, <2>3
<1>2. /\ s.native \in Nat /\ s.live \in Nat /\ s.at \in Nat /\ s.liveAt \in Nat
  BY DEF Sources
<1>3. /\ L # << >> \/ p # << >>
      /\ C.lab_time <= t /\ s.native = Rate * (t - C.lab_time)
      /\ s.live <= s.native /\ Whole(s.live)
      /\ s.at <= t /\ s.liveAt <= s.live /\ Whole(s.liveAt)
      /\ s.at = t => s.liveAt = s.live
  BY DEF Counting
<1>4. Starts1(r) <=> Starts1(p)
  <2>1. CASE p = << >>
    <3>1. N = 0 /\ r[1] = q
      BY <1>1, <2>1
    <3> QED
      BY <2>1, <3>1 DEF Starts1
  <2>2. CASE p # << >>
    <3>1. 1 \in 1..N
      BY <1>1, <2>2
    <3>2. r[1] = p[1]
      BY <1>1, <3>1
    <3> QED
      BY <1>1, <2>2, <3>2 DEF Starts1
  <2> QED
    BY <2>1, <2>2
<1>5. Starts1(p) => r[1] = p[1]
  <2>1. p # << >> => 1 \in 1..N
    BY <1>1
  <2> QED
    BY <1>1, <2>1 DEF Starts1
<1>6. Current(L, r) = C
  BY <1>4, <1>5 DEF Current
<1>7. Latest(L, r) = q
  BY <1>1 DEF Latest
<1> HIDE DEF C
<1>8. Fits(C, q)
  BY <1>3 DEF Fits
<1>9. Coming(L, r)
  <2>1. ASSUME NEW i \in 1..N + 1
        PROVE  IF IsStart(r[i]) THEN i = 1 ELSE Fits(C, r[i])
    <3>1. CASE i = N + 1
      BY <1>1, <1>8, <3>1
    <3>2. CASE i \in 1..N
      BY <1>1, <3>2 DEF Coming, C
    <3> QED
      BY <1>1, <3>1, <3>2
  <2>2. L = << >> => Starts1(r)
    BY <1>3, <1>4 DEF Coming
  <2>3. Starts1(r) => Blank(r[1])
    BY <1>4, <1>5 DEF Coming
  <2> QED
    BY <1>1, <1>6, <2>1, <2>2, <2>3 DEF Coming
<1>10. Counting(L, r, o, t)
  <2>1. /\ L # << >> \/ r # << >>
        /\ Current(L, r).lab_time <= t
        /\ o.native = Rate * (t - Current(L, r).lab_time)
    BY <1>1, <1>3, <1>6
  <2>2. o.live <= o.native /\ Whole(o.live)
    BY <1>3
  <2>3. o.at <= t /\ o.liveAt <= o.live /\ Whole(o.liveAt)
    BY <1>2, <1>3
  <2>4. o.at = t => o.liveAt = o.live
    OBVIOUS
  <2> QED
    BY <2>1, <2>2, <2>3, <2>4, Zenon DEF Counting
<1>11. /\ t - s.at \in Nat
       /\ (s.live - s.liveAt) \div Rate = Units(s.live) - Units(s.liveAt)
       /\ Units(s.live) - Units(s.liveAt) \in Nat
       /\ Units(s.live) \in Nat /\ Units(s.liveAt) \in Nat
  <2>1. t - s.at \in Nat
    BY <1>2, <1>3
  <2> QED
    BY <1>2, <1>3, <2>1, UnitsBetween, UnitsAre
<1>12. ASSUME NEW tr \in Nat, NEW tl \in Nat, Agrees(L, p, s, tr, tl)
       PROVE  Agrees(L, r, o, tr + t - s.at, tl + (s.live - s.liveAt) \div Rate)
  <2> DEFINE B == BaseReal(L, p)
             D == BaseLive(L, p)
  <2>1. /\ tr = B + (s.at - C.lab_time) /\ tl = D + Units(s.liveAt)
        /\ \A i \in 1..N : NotAfter(p[i], s)
        /\ ~Starts1(p) => NotAfter(L[Len(L)], s)
        /\ Starts1(p) /\ L # << >> => ~IsStart(L[Len(L)])
    BY <1>3, <1>12 DEF Agrees, C
  <2>2. C.lab_time \in Nat
    <3>1. C \in Updates
      BY <1>3, CurrentIs DEF C
    <3> QED
      BY <3>1 DEF Updates
  <2>3. BaseReal(L, r) = B /\ BaseLive(L, r) = D
    BY <1>4 DEF BaseReal, BaseLive
  <2>4. B \in Nat /\ D \in Nat
    <3>1. L # << >> => Totals(L) \in TotalsSet
      BY DEF Kept, SumIs
    <3>2. L # << >> => /\ Totals(L).real \in Nat /\ Totals(L).rt \in Nat
                       /\ Totals(L).live \in Nat /\ Totals(L).lt \in Nat
      BY <3>1 DEF TotalsSet
    <3>3. L = << >> => Starts1(p)
      BY <1>3 DEF Coming
    <3>4. CASE ~Starts1(p)
      <4>1. B = Totals(L).real /\ D = Totals(L).live
        BY <3>4 DEF BaseReal, BaseLive
      <4> QED
        BY <3>2, <3>3, <3>4, <4>1
    <3>5. CASE Starts1(p) /\ L = << >>
      <4>1. B = 0 /\ D = 0
        BY <3>5 DEF BaseReal, BaseLive
      <4> QED
        BY <4>1
    <3>6. CASE Starts1(p) /\ L # << >>
      <4>1. B = Totals(L).real + Totals(L).rt /\ D = Totals(L).live + Totals(L).lt
        BY <3>6 DEF BaseReal, BaseLive
      <4> HIDE DEF B, D
      <4> QED
        BY <3>2, <3>6, <4>1
    <3> QED
      BY <3>4, <3>5, <3>6
  <2> HIDE DEF B, D
  <2>5. tr + t - s.at = B + (t - C.lab_time)
    <3> DEFINE a == s.at
               k == C.lab_time
    <3>1. tr = B + (a - k) /\ a \in Nat /\ k \in Nat
      BY <1>2, <2>1, <2>2
    <3> HIDE DEF a, k
    <3>2. tr + t - a = B + (t - k)
      BY <2>4, <3>1
    <3> QED
      BY <3>2 DEF a, k
  <2>6. tl + (s.live - s.liveAt) \div Rate = D + Units(s.live)
    BY <1>11, <2>1, <2>4
  <2>7. ASSUME NEW u \in Updates, NotAfter(u, s) PROVE NotAfter(u, o)
    <3>1. u.lab_time \in Nat
      BY DEF Updates
    <3> QED
      BY <1>2, <1>3, <2>7, <3>1 DEF NotAfter
  <2>8. ASSUME NEW i \in 1..N + 1 PROVE NotAfter(r[i], o)
    <3>1. CASE i = N + 1
      BY <1>1, <3>1 DEF NotAfter
    <3>2. CASE i \in 1..N
      <4>1. p[i] \in Updates /\ r[i] = p[i]
        BY <1>1, <3>2
      <4> QED
        BY <2>1, <2>7, <3>2, <4>1
    <3> QED
      BY <1>1, <3>1, <3>2
  <2>9. ~Starts1(r) => NotAfter(L[Len(L)], o)
    <3>1. L # << >> => L[Len(L)] \in Updates
      OBVIOUS
    <3>2. ~Starts1(r) => ~Starts1(p) /\ L # << >>
      BY <1>3, <1>4 DEF Coming
    <3> QED
      BY <2>1, <2>7, <3>1, <3>2
  <2>10. /\ tr + t - s.at = BaseReal(L, r) + (o.at - Current(L, r).lab_time)
         /\ tl + (s.live - s.liveAt) \div Rate = BaseLive(L, r) + Units(o.liveAt)
         /\ Current(L, r).lab_time <= o.at
    BY <1>3, <1>6, <2>3, <2>5, <2>6
  <2>11. \A i \in 1..Len(r) : NotAfter(r[i], o)
    BY <1>1, <2>8
  <2>12. /\ ~IsStart(Latest(L, r))
         /\ Starts1(r) /\ L # << >> => ~IsStart(L[Len(L)])
    BY <1>4, <1>7, <2>1
  <2> QED
    BY <1>1, <2>9, <2>10, <2>11, <2>12 DEF Agrees
<1> QED
  BY <1>9, <1>10, <1>11, <1>12
\* Time goes by: a source that was s is o, and it is t.
Passed(L, p, s, o, t) ==
  /\ o \in Sources /\ Counting(L, p, o, t)
  /\ \A tr, tl : Agrees(L, p, s, tr, tl) => Agrees(L, p, o, tr, tl)

LEMMA TimePassed ==
  ASSUME NEW L \in Seq(Updates), NEW p \in Seq(Updates), NEW s \in Sources, NEW t \in Nat,
         Kept(L), Coming(L, p), Counting(L, p, s, t), NEW live \in {s.live, s.live + Rate},
         NEW o, o = IF ~s.on THEN s
                    ELSE [s EXCEPT !.native = s.native + Rate, !.live = live]
  PROVE  Passed(L, p, s, o, t + 1)
<1>1. Rate \in Nat
  BY TimesAssumption
<1>2. CASE ~s.on
  BY <1>2 DEF Passed, Counting, Agrees
<1>3. CASE s.on
  <2> DEFINE k == Current(L, p).lab_time
  <2>1. /\ s.native \in Nat /\ s.live \in Nat /\ s.at \in Nat /\ s.liveAt \in Nat
        /\ s.told \in BOOLEAN
    BY DEF Sources
  <2>2. /\ L # << >> \/ p # << >>
        /\ k <= t /\ s.native = Rate * (t - k)
        /\ s.live <= s.native /\ Whole(s.live)
        /\ s.at <= t /\ s.liveAt <= s.live /\ Whole(s.liveAt)
    BY <1>3 DEF Counting
  <2>3. k \in Nat
    <3>1. Current(L, p) \in Updates
      BY <2>2, CurrentIs
    <3> QED
      BY <3>1 DEF Updates
  <2> HIDE DEF k
  <2>4. live \in Nat /\ Whole(live) /\ s.live <= live /\ live <= s.live + Rate
    BY <1>1, <2>1, <2>2, MoreUnits
  <2>5. /\ o.native = s.native + Rate /\ o.live = live /\ o.on /\ o.told = s.told
        /\ o.at = s.at /\ o.liveAt = s.liveAt /\ o \in Sources
    <3> DEFINE n == s.native + Rate
    <3>1. n \in Nat
      BY <1>1, <2>1
    <3> HIDE DEF n
    <3>2. o = [s EXCEPT !.native = n, !.live = live]
      BY <1>3 DEF n
    <3>3. /\ o.native = n /\ o.live = live /\ o.on = s.on /\ o.told = s.told
          /\ o.at = s.at /\ o.liveAt = s.liveAt
      BY <3>2 DEF Sources
    <3>4. o \in Sources
      BY <2>4, <3>1, <3>2 DEF Sources
    <3> QED
      BY <1>3, <3>3, <3>4 DEF n
  <2> DEFINE u == t + 1
  <2>6. k <= u /\ o.native = Rate * (u - k)
    <3> DEFINE n == t - k
    <3>1. n \in Nat /\ u - k = n + 1 /\ k <= u /\ s.native = Rate * n
      BY <2>2, <2>3
    <3> HIDE DEF n, u
    <3>2. Rate * (n + 1) = Rate * n + Rate
      BY <1>1, <3>1
    <3> QED
      BY <2>5, <3>1, <3>2
  <2>7. o.live <= o.native /\ o.at <= u /\ o.liveAt <= o.live
    <3>1. o.at <= u
      BY <2>1, <2>2, <2>5
    <3>2. o.liveAt <= o.live
      BY <2>1, <2>2, <2>4, <2>5
    <3>3. s.live + Rate <= s.native + Rate
      BY <1>1, <2>1, <2>2
    <3>4. o.live <= o.native
      BY <1>1, <2>1, <2>4, <2>5, <3>3
    <3> QED
      BY <3>1, <3>2, <3>4
  <2>8. Counting(L, p, o, u)
    <3>1. Whole(o.live) /\ Whole(o.liveAt) /\ o.at # u
      BY <2>1, <2>2, <2>4, <2>5
    <3> HIDE DEF u
    <3> QED
      BY <2>2, <2>6, <2>7, <3>1 DEF Counting, k
  <2>9. \A tr, tl : Agrees(L, p, s, tr, tl) => Agrees(L, p, o, tr, tl)
    BY <1>3, <2>5 DEF Agrees, NotAfter
  <2> QED
    BY <2>5, <2>8, <2>9 DEF Passed
<1> QED
  BY <1>2, <1>3

-----------------------------------------------------------------------------
(* SpectrumTimes: the attributes                                           *)

LEMMA SumsAre ==
  ASSUME NEW L \in Seq(Updates), L # << >>, Kept(L)
  PROVE  /\ Sums(L)[1] \in Nat /\ Sums(L)[2] \in Nat /\ Sums(L)[2] <= Sums(L)[1]
         /\ Sums(L)[1] = IF IsStart(L[Len(L)]) THEN Totals(L).real
                         ELSE Totals(L).real + Totals(L).rt
         /\ Sums(L)[2] = IF IsStart(L[Len(L)]) THEN Totals(L).live
                         ELSE Totals(L).live + Totals(L).lt
<1> DEFINE T == Totals(L)
<1>1. /\ T.rt \in Nat /\ T.lt \in Nat /\ T.real \in Nat /\ T.live \in Nat
      /\ T.lt <= T.rt /\ T.live <= T.real
  BY DEF Kept, SumIs, TotalsSet
<1>2. Sums(L) = IF IsStart(L[Len(L)]) THEN <<T.real, T.live>>
                ELSE <<T.real + T.rt, T.live + T.lt>>
  BY DEF Sums, IsStart, Last
<1> HIDE DEF T
<1>3. /\ Sums(L)[1] = IF IsStart(L[Len(L)]) THEN T.real ELSE T.real + T.rt
      /\ Sums(L)[2] = IF IsStart(L[Len(L)]) THEN T.live ELSE T.live + T.lt
  BY <1>2
<1>4. /\ T.real + T.rt \in Nat /\ T.live + T.lt \in Nat
      /\ T.live + T.lt <= T.real + T.rt
  BY <1>1
<1> QED
  BY <1>1, <1>3, <1>4 DEF T

LEMMA LeastIs ==
  ASSUME NEW S \in SUBSET Nat, S # {}
  PROVE  MinOf(S) \in S /\ \A y \in S : MinOf(S) <= y
<1>1. PICK m \in S : \A j \in S : ~(<<j, m>> \in OpToRel(<, Nat))
  BY WFMin, NatLessThanWellFounded
<1>2. ASSUME NEW j \in S PROVE m <= j
  <2>1. j \in Nat /\ m \in Nat
    OBVIOUS
  <2>2. ~(j < m)
    BY <1>1, <2>1 DEF OpToRel
  <2> QED
    BY <2>1, <2>2
<1> QED
  BY <1>2 DEF MinOf

\* Each channel has no more live time than real time, nor have the minima.
LEMMA LeastLiveTime ==
  ASSUME NEW R, NEW V, DOMAIN R = DOMAIN V, DOMAIN R # {}, NEW x \in Nat,
         \A d \in DOMAIN R : R[d] \in Nat /\ V[d] \in Nat /\ V[d] <= R[d],
         NEW r, r = MinOf({R[d] : d \in DOMAIN R}),
         NEW v, v = MinOf({x} \cup {V[d] : d \in DOMAIN V})
  PROVE  r \in Nat /\ v \in Nat /\ v <= r
<1> DEFINE A == {R[d] : d \in DOMAIN R}
           B == {x} \cup {V[d] : d \in DOMAIN V}
<1>1. A \in SUBSET Nat /\ A # {} /\ B \in SUBSET Nat /\ B # {}
  OBVIOUS
<1>2. r = MinOf(A) /\ v = MinOf(B)
  OBVIOUS
<1>3. r \in A /\ v \in B /\ \A y \in B : v <= y
  <2> HIDE DEF A, B
  <2>1. r \in A
    BY <1>1, <1>2, LeastIs
  <2>2. v \in B /\ \A y \in B : v <= y
    <3>1. MinOf(B) \in B /\ \A y \in B : MinOf(B) <= y
      BY <1>1, LeastIs, Zenon
    <3> QED
      BY <1>2, <3>1
  <2> QED
    BY <2>1, <2>2
<1>4. PICK d \in DOMAIN R : r = R[d]
  BY <1>3
<1>5. v <= V[d]
  BY <1>3
<1>6. R[d] \in Nat /\ V[d] \in Nat /\ V[d] <= R[d] /\ v \in Nat
  BY <1>1, <1>3
<1> QED
  BY <1>4, <1>5, <1>6
-----------------------------------------------------------------------------
(* SpectrumTimes: each step                                                *)

LEMMA TimesStart == TimesInit => TimesInv
<1> SUFFICES ASSUME TimesInit PROVE TimesInv
  OBVIOUS
<1>1. /\ stats_list_ = [c \in Channels |-> << >>] /\ pending = [c \in Channels |-> << >>]
      /\ source = [c \in Channels |-> Off] /\ now = 0 /\ sent = 0 /\ disturbed = {}
      /\ trueReal = [c \in Channels |-> 0] /\ trueLive = [c \in Channels |-> 0]
      /\ real_times_ = << >> /\ live_times_ = << >> /\ real_time = 0 /\ live_time = 0
  BY DEF TimesInit
<1>2. << >> \in Seq(Updates) /\ Len(<< >>) = 0 /\ DOMAIN << >> = {}
  OBVIOUS
<1>3. Off \in Sources /\ Off.on = FALSE
  BY DEF Off, Sources
<1>4. TimesTypes
  BY <1>1, <1>2, TimesAssumption DEF TimesTypes
<1>5. TimesData
  BY <1>1, <1>2, <1>3, <1>4 DEF TimesData
<1>6. ASSUME NEW c \in Channels PROVE ChannelInv(c)
  <2>1. /\ stats_list_[c] = << >> /\ pending[c] = << >> /\ source[c].on = FALSE
        /\ trueReal[c] = 0 /\ trueLive[c] = 0
    BY <1>1, <1>3
  <2> DEFINE none == << >>
  <2>2. Kept(none)
    BY DEF Kept
  <2>3. Coming(none, none)
    BY DEF Coming, Starts1
  <2>4. Counting(none, none, source[c], now)
    BY <2>1 DEF Counting
  <2>5. Agrees(none, none, source[c], 0, 0)
    BY <2>1 DEF Agrees
  <2> QED
    BY <2>1, <2>2, <2>3, <2>4, <2>5 DEF ChannelInv
<1>7. ShownInv
  BY <1>1, <1>2 DEF ShownInv
<1> QED
  BY <1>5, <1>6, <1>7 DEF TimesInv

\* what the lemmas about one channel start from
LEMMA ChannelData ==
  ASSUME TimesInv, NEW c \in Channels
  PROVE  /\ stats_list_[c] \in Seq(Updates) /\ pending[c] \in Seq(Updates)
         /\ source[c] \in Sources /\ now \in Nat
         /\ trueReal[c] \in Nat /\ trueLive[c] \in Nat /\ ChannelInv(c)
BY DEF TimesInv, TimesData, TimesTypes

\* a step that leaves this channel alone
LEMMA ChannelKept ==
  ASSUME NEW c \in Channels, ChannelInv(c), stats_list_'[c] = stats_list_[c],
         pending'[c] = pending[c], source'[c] = source[c], now' = now,
         trueReal'[c] = trueReal[c], trueLive'[c] = trueLive[c],
         c \in disturbed => c \in disturbed'
  PROVE  ChannelInv(c)'
BY DEF ChannelInv

\* a step that leaves lists and attributes alone
LEMMA ShownKept == ASSUME TimesInv, UNCHANGED spectrumVars PROVE ShownInv'
BY DEF TimesInv, ShownInv, spectrumVars

LEMMA PassInv == ASSUME TimesInv, NEW Alive \in SUBSET Channels, Pass(Alive) PROVE TimesInv'
<1>1. /\ now < MaxTime /\ now' = now + 1 /\ UNCHANGED spectrumVars
      /\ UNCHANGED <<sent, pending, trueReal, trueLive, disturbed>>
  BY DEF Pass
<1>2. stats_list_' = stats_list_ /\ UNCHANGED <<real_times_, live_times_, real_time, live_time>>
  BY <1>1 DEF spectrumVars
<1>3. ASSUME NEW c \in Channels PROVE source'[c] \in Sources /\ ChannelInv(c)'
  <2> DEFINE L == stats_list_[c]
             p == pending[c]
             s == source[c]
             live == IF c \in Alive THEN s.live + Rate ELSE s.live
             o == source'[c]
  <2>1. /\ L \in Seq(Updates) /\ p \in Seq(Updates) /\ s \in Sources /\ now \in Nat
        /\ ChannelInv(c)
    BY ChannelData
  <2>2. o = IF ~s.on THEN s ELSE [s EXCEPT !.native = s.native + Rate, !.live = live]
    BY DEF Pass
  <2>3. live \in {s.live, s.live + Rate}
    OBVIOUS
  <2>4. Kept(L) /\ Coming(L, p) /\ Counting(L, p, s, now)
        /\ (c \notin disturbed => Agrees(L, p, s, trueReal[c], trueLive[c]))
    BY <2>1 DEF ChannelInv
  <2> HIDE DEF L, p, s, o, live
  <2>5. /\ o \in Sources /\ Counting(L, p, o, now + 1)
        /\ \A tr, tl : Agrees(L, p, s, tr, tl) => Agrees(L, p, o, tr, tl)
    <3>1. Passed(L, p, s, o, now + 1)
      BY <2>1, <2>2, <2>3, <2>4, TimePassed
    <3> QED
      BY <3>1 DEF Passed
  <2>6. c \notin disturbed => Agrees(L, p, o, trueReal[c], trueLive[c])
    BY <2>4, <2>5
  <2> QED
    BY <1>1, <1>2, <2>4, <2>5, <2>6 DEF ChannelInv, L, p, o
<1>4. source' \in [Channels -> Sources]
  <2>1. source' = [c \in Channels |-> source'[c]]
    BY DEF Pass
  <2> QED
    BY <1>3, <2>1
<1>5. TimesTypes'
  <2>1. now' \in 0..MaxTime
    BY <1>1, TimesAssumption DEF TimesInv, TimesData, TimesTypes
  <2> QED
    BY <1>1, <1>2, <2>1 DEF TimesInv, TimesData, TimesTypes
<1>6. TimesData'
  BY <1>1, <1>2, <1>4, <1>5 DEF TimesInv, TimesData
<1> QED
  BY <1>1, <1>3, <1>6, ShownKept DEF TimesInv

\* what Start() and Report() share: channel c sent q, and its source is now o
Sent(c, q, o) ==
  /\ TimesData' /\ ShownInv' /\ source'[c] = o /\ q \in Updates
  /\ stats_list_' = stats_list_ /\ now' = now
  /\ pending'[c] = Append(pending[c], q)
  /\ \A d \in Channels \ {c} : pending'[d] = pending[d] /\ source'[d] = source[d]

LEMMA SendKeeps ==
  ASSUME TimesInv, NEW c \in Channels, NEW type \in StatsTypes, NEW src,
         src.native \in Nat, src.live \in Nat, Send(c, type, src), disturbed' \subseteq Channels,
         NEW tr \in [Channels -> Nat], trueReal' = tr,
         NEW tl \in [Channels -> Nat], trueLive' = tl,
         NEW o \in Sources, source' = [source EXCEPT ![c] = o],
         NEW q, q = [stats_type |-> type, lab_time |-> now,
                     native_time |-> src.native, live_time |-> src.live]
  PROVE  Sent(c, q, o)
<1>1. /\ sent < MaxUpdates /\ sent' = sent + 1 /\ UNCHANGED spectrumVars
      /\ now' = now
      /\ pending' = [pending EXCEPT ![c] = Append(pending[c], q)]
  BY DEF Send
<1>2. stats_list_' = stats_list_ /\ UNCHANGED <<real_times_, live_times_, real_time, live_time>>
  BY <1>1 DEF spectrumVars
<1>3. pending \in [Channels -> Seq(Updates)] /\ source \in [Channels -> Sources]
      /\ stats_list_ \in [Channels -> Seq(Updates)] /\ now \in Nat /\ TimesTypes
  BY DEF TimesInv, TimesData, TimesTypes
<1>4. q \in Updates
  BY <1>3 DEF Updates
<1>5. Append(pending[c], q) \in Seq(Updates)
  BY <1>3, <1>4
<1>6. pending' \in [Channels -> Seq(Updates)] /\ source' \in [Channels -> Sources]
  BY <1>1, <1>3, <1>5
<1>7. sent' \in 0..MaxUpdates
  BY <1>1, <1>3, TimesAssumption DEF TimesTypes
<1>8. TimesTypes'
  BY <1>1, <1>2, <1>3, <1>6, <1>7 DEF TimesTypes
<1>9. TimesData'
  BY <1>2, <1>3, <1>6, <1>8 DEF TimesData
<1> QED
  BY <1>1, <1>2, <1>3, <1>4, <1>9, ShownKept DEF Sent

LEMMA StartInv == ASSUME TimesInv, NEW c \in Channels, Start(c) PROVE TimesInv'
<1> DEFINE L == stats_list_[c]
           o == [Off EXCEPT !.on = TRUE, !.at = now]
           q == [stats_type |-> "start", lab_time |-> now,
                 native_time |-> Off.native, live_time |-> Off.live]
<1>1. /\ ~source[c].on /\ pending[c] = << >> /\ source' = [source EXCEPT ![c] = o]
      /\ Send(c, "start", Off) /\ trueReal' = trueReal /\ trueLive' = trueLive
      /\ disturbed' = IF Behind(c) THEN disturbed \cup {c} ELSE disturbed
  BY DEF Start
<1>2. /\ L \in Seq(Updates) /\ now \in Nat /\ trueReal[c] \in Nat /\ trueLive[c] \in Nat
      /\ ChannelInv(c) /\ source[c] \in Sources
  BY ChannelData
<1>3. /\ o \in Sources /\ o.on /\ ~o.told /\ o.native = 0 /\ o.live = 0 /\ o.at = now
      /\ o.liveAt = 0 /\ Off.native = 0 /\ Off.live = 0 /\ "start" \in StatsTypes
  BY <1>2 DEF Off, Sources, StatsTypes
<1>4. trueReal \in [Channels -> Nat] /\ trueLive \in [Channels -> Nat]
  BY DEF TimesInv, TimesData
<1>5. IsStart(q) /\ Blank(q) /\ q.lab_time = now
  BY <1>3 DEF IsStart, Blank
<1>6. q = [stats_type |-> "start", lab_time |-> now,
           native_time |-> Off.native, live_time |-> Off.live]
  OBVIOUS
<1> HIDE DEF o, q
<1>11. /\ disturbed \subseteq disturbed' /\ disturbed' \subseteq Channels
       /\ c \notin disturbed' =>
            c \notin disturbed /\ (L # << >> => L[Len(L)].lab_time = source[c].at)
  <2>1. disturbed \subseteq Channels
    BY DEF TimesInv, TimesData, TimesTypes
  <2> QED
    BY <1>1, <2>1 DEF Behind, Last
<1>7. /\ TimesData' /\ ShownInv' /\ source'[c] = o /\ q \in Updates
      /\ stats_list_' = stats_list_ /\ now' = now
      /\ pending'[c] = Append(pending[c], q)
      /\ \A d \in Channels \ {c} : pending'[d] = pending[d] /\ source'[d] = source[d]
  <2> DEFINE type == "start"
             tr == trueReal
             tl == trueLive
  <2>1. /\ type \in StatsTypes /\ Send(c, type, Off)
        /\ Off.native \in Nat /\ Off.live \in Nat
        /\ tr \in [Channels -> Nat] /\ trueReal' = tr
        /\ tl \in [Channels -> Nat] /\ trueLive' = tl
        /\ q = [stats_type |-> type, lab_time |-> now,
                native_time |-> Off.native, live_time |-> Off.live]
    BY <1>1, <1>3, <1>4, <1>6
  <2> HIDE DEF type, tr, tl
  <2>2. Sent(c, q, o)
    BY <1>1, <1>3, <1>11, <2>1, SendKeeps
  <2> QED
    BY <2>2 DEF Sent
<1>8. pending'[c] = <<q>>
  BY <1>1, <1>7
<1>9. ChannelInv(c)'
  <2>1. Kept(L) /\ (c \notin disturbed => Agrees(L, << >>, source[c], trueReal[c], trueLive[c]))
    BY <1>1, <1>2 DEF ChannelInv
  <2> HIDE DEF L
  <2>2. /\ Coming(L, <<q>>) /\ Counting(L, <<q>>, o, now)
        /\ \A e : \A tr \in Nat, tl \in Nat :
             /\ ~e.on /\ Agrees(L, << >>, e, tr, tl)
             /\ (L # << >> => L[Len(L)].lab_time = e.at)
             => Agrees(L, <<q>>, o, tr, tl)
    BY <1>2, <1>3, <1>5, <1>7, <2>1, StartSent
  <2>3. c \notin disturbed' => Agrees(L, <<q>>, o, trueReal[c], trueLive[c])
    <3> DEFINE e == source[c]
               tr == trueReal[c]
               tl == trueLive[c]
    <3>1. /\ ~e.on /\ tr \in Nat /\ tl \in Nat
          /\ c \notin disturbed' => /\ Agrees(L, << >>, e, tr, tl)
                                   /\ (L # << >> => L[Len(L)].lab_time = e.at)
      BY <1>1, <1>2, <1>11, <2>1 DEF L
    <3> HIDE DEF e, tr, tl
    <3>2. c \notin disturbed' => Agrees(L, <<q>>, o, tr, tl)
      BY <2>2, <3>1
    <3> QED
      BY <3>2 DEF tr, tl
  <2> QED
    BY <1>1, <1>7, <1>8, <2>1, <2>2, <2>3 DEF ChannelInv, L
<1>10. ASSUME NEW d \in Channels, d # c PROVE ChannelInv(d)'
  BY <1>1, <1>7, <1>10, <1>11, ChannelData, ChannelKept
<1> QED
  BY <1>7, <1>9, <1>10 DEF TimesInv

LEMMA BreakOffInv == ASSUME TimesInv, NEW c \in Channels, BreakOff(c) PROVE TimesInv'
<1> DEFINE s == source[c]
           o == [s EXCEPT !.on = FALSE]
<1>1. /\ s.on /\ source' = [source EXCEPT ![c] = o]
      /\ disturbed' = IF s.told THEN disturbed ELSE disturbed \cup {c}
      /\ UNCHANGED spectrumVars /\ UNCHANGED <<now, sent, pending, trueReal, trueLive>>
  BY DEF BreakOff
<1>2. stats_list_' = stats_list_ /\ UNCHANGED <<real_times_, live_times_, real_time, live_time>>
  BY <1>1 DEF spectrumVars
<1>3. /\ source \in [Channels -> Sources] /\ s \in Sources
      /\ TimesTypes /\ TimesData /\ ChannelInv(c)
  BY ChannelData DEF TimesInv, TimesData
<1>4. o \in Sources /\ ~o.on /\ o.told = s.told /\ o.at = s.at /\ o.liveAt = s.liveAt
  BY <1>3 DEF Sources
<1> HIDE DEF o
<1>5. /\ source' \in [Channels -> Sources] /\ source'[c] = o
      /\ \A d \in Channels \ {c} : source'[d] = source[d]
  BY <1>1, <1>3, <1>4
<1>6. disturbed \subseteq disturbed' /\ disturbed' \subseteq Channels
  BY <1>1, <1>3 DEF TimesTypes
<1>7. TimesData'
  BY <1>1, <1>2, <1>3, <1>5, <1>6 DEF TimesData, TimesTypes
<1>8. ChannelInv(c)'
  <2> DEFINE L == stats_list_[c]
             p == pending[c]
  <2>1. /\ Kept(L) /\ Coming(L, p) /\ Counting(L, p, s, now)
        /\ c \notin disturbed => Agrees(L, p, s, trueReal[c], trueLive[c])
    BY <1>3 DEF ChannelInv
  <2> HIDE DEF L, p, s
  <2>2. Counting(L, p, o, now)
    BY <1>4 DEF Counting
  <2>3. c \notin disturbed' => Agrees(L, p, o, trueReal[c], trueLive[c])
    <3>1. c \notin disturbed' => s.told /\ c \notin disturbed
      BY <1>1
    <3>2. Agrees(L, p, s, trueReal[c], trueLive[c]) /\ s.told
          => Agrees(L, p, o, trueReal[c], trueLive[c])
      BY <1>1, <1>4 DEF Agrees, NotAfter
    <3> QED
      BY <2>1, <3>1, <3>2
  <2> QED
    BY <1>1, <1>2, <1>5, <2>1, <2>2, <2>3 DEF ChannelInv, L, p
<1>9. ASSUME NEW d \in Channels, d # c PROVE ChannelInv(d)'
  BY <1>1, <1>2, <1>5, <1>6, <1>9, ChannelData, ChannelKept
<1> QED
  BY <1>1, <1>7, <1>8, <1>9, ShownKept DEF TimesInv
LEMMA ReportInv ==
  ASSUME TimesInv, NEW c \in Channels, NEW type \in {"running", "stop"}, Report(c, type)
  PROVE  TimesInv'
<1> DEFINE L == stats_list_[c]
           p == pending[c]
           s == source[c]
           o == [s EXCEPT !.on = (type = "running"), !.told = TRUE, !.at = now, !.liveAt = s.live]
           q == [stats_type |-> type, lab_time |-> now,
                 native_time |-> s.native, live_time |-> s.live]
           more == trueReal[c] + now - s.at
           moreLive == trueLive[c] + (s.live - s.liveAt) \div Rate
           tr == [trueReal EXCEPT ![c] = more]
           tl == [trueLive EXCEPT ![c] = moreLive]
<1>1. /\ s.on /\ source' = [source EXCEPT ![c] = o] /\ trueReal' = tr /\ trueLive' = tl
      /\ Send(c, type, s) /\ disturbed' = disturbed
  BY DEF Report
<1>2. /\ L \in Seq(Updates) /\ p \in Seq(Updates) /\ now \in Nat /\ s \in Sources
      /\ trueReal[c] \in Nat /\ trueLive[c] \in Nat /\ ChannelInv(c)
      /\ trueReal \in [Channels -> Nat] /\ trueLive \in [Channels -> Nat]
  BY ChannelData DEF TimesInv, TimesData
<1>3. /\ Kept(L) /\ Coming(L, p) /\ Counting(L, p, s, now)
      /\ c \notin disturbed => Agrees(L, p, s, trueReal[c], trueLive[c])
  BY <1>2 DEF ChannelInv
<1>4. s.native \in Nat /\ s.live \in Nat /\ type \in StatsTypes /\ type # "start"
  BY <1>2 DEF Sources, StatsTypes
<1>5. q = [stats_type |-> type, lab_time |-> now,
           native_time |-> s.native, live_time |-> s.live]
  OBVIOUS
<1> HIDE DEF q
<1>6. /\ ~IsStart(q) /\ q.lab_time = now /\ q.native_time = s.native /\ q.live_time = s.live
      /\ q \in Updates
  BY <1>2, <1>4, <1>5 DEF IsStart, Updates
<1>7. /\ o \in Sources /\ o.at = now /\ o.liveAt = s.live /\ o.live = s.live
      /\ o.native = s.native /\ o.told
  BY <1>2, <1>4 DEF Sources
<1> HIDE DEF o
<1> DEFINE r == Append(p, q)
<1>8. /\ Coming(L, r) /\ Counting(L, r, o, now)
      /\ now - s.at \in Nat /\ (s.live - s.liveAt) \div Rate \in Nat
      /\ \A x \in Nat, y \in Nat :
           Agrees(L, p, s, x, y) =>
             Agrees(L, r, o, x + now - s.at, y + (s.live - s.liveAt) \div Rate)
  <2> HIDE DEF L, p, s
  <2> QED
    BY <1>1, <1>2, <1>3, <1>6, <1>7, ReportSent
<1>9. more \in Nat /\ moreLive \in Nat
  <2>1. s.at \in Nat
    BY <1>2 DEF Sources
  <2> DEFINE gain == (s.live - s.liveAt) \div Rate
             at == s.at
  <2>2. gain \in Nat /\ now - at \in Nat /\ at \in Nat
    BY <1>8, <2>1
  <2> HIDE DEF gain, at
  <2>3. trueReal[c] + now - at \in Nat /\ trueLive[c] + gain \in Nat
    BY <1>2, <2>2
  <2> QED
    BY <2>3 DEF gain, at
<1>10. c \notin disturbed => Agrees(L, r, o, more, moreLive)
  BY <1>2, <1>3, <1>8
<1> HIDE DEF more, moreLive
<1>11. tr \in [Channels -> Nat] /\ tl \in [Channels -> Nat] /\ tr[c] = more /\ tl[c] = moreLive
       /\ \A d \in Channels \ {c} : tr[d] = trueReal[d] /\ tl[d] = trueLive[d]
  BY <1>2, <1>9
<1> HIDE DEF tr, tl
<1>12. /\ TimesData' /\ ShownInv' /\ source'[c] = o /\ q \in Updates
       /\ stats_list_' = stats_list_ /\ now' = now
       /\ pending'[c] = r
       /\ \A d \in Channels \ {c} : pending'[d] = pending[d] /\ source'[d] = source[d]
  <2>1. Sent(c, q, o)
    <3>1. disturbed' \subseteq Channels
      BY <1>1 DEF TimesInv, TimesData, TimesTypes
    <3> HIDE DEF s
    <3> QED
      BY <1>1, <3>1, <1>4, <1>5, <1>7, <1>11, SendKeeps
  <2> QED
    BY <2>1 DEF Sent
<1> HIDE DEF r
<1>13. ChannelInv(c)'
  <2>1. trueReal'[c] = more /\ trueLive'[c] = moreLive
    BY <1>1, <1>11
  <2> HIDE DEF L, p, s
  <2>2. stats_list_'[c] = L
    BY <1>12 DEF L
  <2> QED
    BY <1>1, <1>3, <1>8, <1>10, <1>12, <2>1, <2>2 DEF ChannelInv
<1>14. ASSUME NEW d \in Channels, d # c PROVE ChannelInv(d)'
  <2>1. trueReal'[d] = trueReal[d] /\ trueLive'[d] = trueLive[d]
    BY <1>1, <1>11, <1>14
  <2> QED
    BY <1>1, <1>12, <1>14, <2>1, ChannelData, ChannelKept
<1> QED
  BY <1>12, <1>13, <1>14 DEF TimesInv
\* the attributes after a push of channel c, whose list is now M
LEMMA PushShown ==
  ASSUME TimesInv, NEW c \in Channels, NEW q, _push_stats(c, q),
         NEW M, M = Listed(stats_list_[c], q), Grown(stats_list_[c], q, M)
  PROVE  /\ stats_list_' = [stats_list_ EXCEPT ![c] = M]
         /\ DOMAIN real_times_' = DOMAIN live_times_' /\ real_time' \in Nat /\ live_time' \in Nat
         /\ ShownInv'
<1> DEFINE L == stats_list_[c]
           list == stats_list_'
           R == real_times_'
           V == live_times_'
<1>1. /\ stats_list_ \in [Channels -> Seq(Updates)] /\ DOMAIN real_times_ = DOMAIN live_times_
      /\ real_time \in Nat /\ live_time \in Nat
      /\ \A d \in Channels : Kept(stats_list_[d])
  BY ChannelData DEF TimesInv, TimesData, TimesTypes, ChannelInv
<1>2. /\ DOMAIN real_times_ = {d \in Channels : Len(stats_list_[d]) > 1}
      /\ \A d \in DOMAIN real_times_ : /\ real_times_[d] = Sums(stats_list_[d])[1]
                                       /\ live_times_[d] = Sums(stats_list_[d])[2]
      /\ live_time <= real_time
  BY DEF TimesInv, ShownInv
<1>3. /\ M \in Seq(Updates) /\ M # << >> /\ Kept(M) /\ (Len(M) > 1 <=> L # << >>)
  BY DEF Grown
<1>4. list = [stats_list_ EXCEPT ![c] = M]
  BY DEF _push_stats
<1>5. /\ list \in [Channels -> Seq(Updates)] /\ list[c] = M
      /\ \A d \in Channels : d # c => list[d] = stats_list_[d]
  BY <1>1, <1>3, <1>4
<1>6. \A d \in Channels : Kept(list[d])
  BY <1>1, <1>3, <1>5
<1>7. CASE L = << >>
  <2>1. R = real_times_ /\ V = live_times_ /\ real_time' = real_time /\ live_time' = live_time
    BY <1>7 DEF _push_stats
  <2>2. c \notin DOMAIN real_times_ /\ ~(Len(M) > 1)
    BY <1>2, <1>3, <1>7
  <2>3. DOMAIN R = {d \in Channels : Len(list[d]) > 1}
    BY <1>2, <1>5, <2>1, <2>2
  <2>4. \A d \in DOMAIN R : R[d] = Sums(list[d])[1] /\ V[d] = Sums(list[d])[2]
    BY <1>2, <1>5, <2>1, <2>2
  <2> QED
    BY <1>1, <1>2, <1>4, <2>1, <2>3, <2>4 DEF ShownInv
<1>8. CASE L # << >>
  <2> DEFINE a == Sums(M)[1]
             b == Sums(M)[2]
  <2>1. /\ R = Put(real_times_, c, a) /\ V = Put(live_times_, c, b)
        /\ real_time' = MinOf({R[d] : d \in DOMAIN R})
        /\ live_time' = MinOf({a} \cup {V[d] : d \in DOMAIN V})
    BY <1>8 DEF _push_stats
  <2>2. a \in Nat /\ b \in Nat /\ b <= a
    BY <1>3, SumsAre
  <2>3. M = list[c]
    BY <1>5
  <2>4. /\ DOMAIN R = DOMAIN real_times_ \cup {c} /\ DOMAIN V = DOMAIN live_times_ \cup {c}
        /\ R[c] = a /\ V[c] = b
        /\ \A d \in DOMAIN real_times_ : d # c => R[d] = real_times_[d] /\ V[d] = live_times_[d]
    <3> HIDE DEF a, b
    <3> QED
      BY <1>1, <2>1 DEF Put
  <2>5. DOMAIN R = {d \in Channels : Len(list[d]) > 1}
    BY <1>2, <1>3, <1>5, <1>8, <2>4
  <2>6. \A d \in DOMAIN R : R[d] = Sums(list[d])[1] /\ V[d] = Sums(list[d])[2]
    <3> SUFFICES ASSUME NEW d \in DOMAIN R
                 PROVE  R[d] = Sums(list[d])[1] /\ V[d] = Sums(list[d])[2]
      OBVIOUS
    <3>1. CASE d = c
      BY <2>3, <2>4, <3>1
    <3>2. CASE d # c
      <4>1. d \in DOMAIN real_times_ /\ d \in Channels
        BY <1>2, <2>4, <3>2
      <4>2. list[d] = stats_list_[d]
        BY <1>5, <3>2, <4>1
      <4> QED
        BY <1>2, <2>4, <3>2, <4>1, <4>2
    <3> QED
      BY <3>1, <3>2
  <2>7. \A d \in DOMAIN R : R[d] \in Nat /\ V[d] \in Nat /\ V[d] <= R[d]
    <3> SUFFICES ASSUME NEW d \in DOMAIN R
                 PROVE  R[d] \in Nat /\ V[d] \in Nat /\ V[d] <= R[d]
      OBVIOUS
    <3> DEFINE K == list[d]
    <3>1. K \in Seq(Updates) /\ K # << >> /\ Kept(K)
      BY <1>5, <1>6, <2>5
    <3>2. R[d] = Sums(K)[1] /\ V[d] = Sums(K)[2]
      BY <2>6
    <3> HIDE DEF K
    <3>3. Sums(K)[1] \in Nat /\ Sums(K)[2] \in Nat /\ Sums(K)[2] <= Sums(K)[1]
      BY <3>1, SumsAre
    <3> QED
      BY <3>2, <3>3
  <2>8. DOMAIN R = DOMAIN V /\ DOMAIN R # {}
    BY <1>1, <2>4
  <2>9. real_time' \in Nat /\ live_time' \in Nat /\ live_time' <= real_time'
    <3> HIDE DEF R, V, a, b
    <3> QED
      BY <2>1, <2>2, <2>7, <2>8, LeastLiveTime
  <2> QED
    BY <1>4, <2>5, <2>6, <2>8, <2>9 DEF ShownInv
<1> QED
  BY <1>7, <1>8

LEMMA PushedInv == ASSUME TimesInv, NEW c \in Channels, Push(c) PROVE TimesInv'
<1> DEFINE L == stats_list_[c]
           p == pending[c]
           s == source[c]
<1>1. PICK i \in DOMAIN p :
        /\ Overtakes(p, i)
        /\ pending' = [pending EXCEPT ![c] = RemoveAt(p, i)]
        /\ _push_stats(c, p[i])
        /\ UNCHANGED <<sourceVars, disturbed>>
  BY DEF Push
<1>2. /\ now' = now /\ source' = source /\ sent' = sent /\ trueReal' = trueReal
      /\ trueLive' = trueLive /\ disturbed' = disturbed
  BY <1>1 DEF sourceVars
<1>3. /\ L \in Seq(Updates) /\ p \in Seq(Updates) /\ now \in Nat /\ s \in Sources
      /\ trueReal[c] \in Nat /\ trueLive[c] \in Nat /\ ChannelInv(c)
      /\ pending \in [Channels -> Seq(Updates)] /\ stats_list_ \in [Channels -> Seq(Updates)]
      /\ TimesTypes /\ TimesData
  BY ChannelData DEF TimesInv, TimesData
<1>4. /\ Kept(L) /\ Coming(L, p) /\ Counting(L, p, s, now)
      /\ c \notin disturbed => Agrees(L, p, s, trueReal[c], trueLive[c])
  BY <1>3 DEF ChannelInv
<1>5. i \in 1..Len(p)
  BY <1>1, <1>3
<1> DEFINE q == p[i]
           M == Listed(L, q)
           r == RemoveAt(p, i)
<1>6. /\ Grown(L, q, M) /\ Coming(M, r) /\ Counting(M, r, s, now)
      /\ ~Starts1(r) /\ Current(M, r) = Current(L, p)
      /\ Starts1(p) <=> IsStart(q)
  <2>1. Overtakes(p, i) /\ q = p[i] /\ M = Listed(L, q) /\ r = RemoveAt(p, i)
    BY <1>1
  <2> HIDE DEF L, p, s, q, M, r
  <2>2. PushedTo(L, p, s, now, q, M, r)
    BY <1>3, <1>4, <1>5, <2>1, PushedIs
  <2> QED
    BY <2>2 DEF PushedTo
<1>7. M = Listed(L, q)
  OBVIOUS
<1>8. r \in Seq(Updates)
  BY <1>3, <1>5, Removed
<1>9. /\ stats_list_' = [stats_list_ EXCEPT ![c] = M]
      /\ DOMAIN real_times_' = DOMAIN live_times_' /\ real_time' \in Nat /\ live_time' \in Nat
      /\ ShownInv'
  <2>1. _push_stats(c, q) /\ Grown(stats_list_[c], q, M) /\ M = Listed(stats_list_[c], q)
    BY <1>1, <1>6
  <2> HIDE DEF q, M
  <2> QED
    BY <2>1, PushShown
<1>10. c \notin disturbed => Agrees(M, r, s, trueReal[c], trueLive[c])
  <2> SUFFICES ASSUME c \notin disturbed
               PROVE  Agrees(M, r, s, trueReal[c], trueLive[c])
    OBVIOUS
  <2>1. Overtakes(p, i) /\ q = p[i] /\ r = RemoveAt(p, i)
    BY <1>1
  <2> HIDE DEF L, p, s, q, M, r
  <2> QED
    BY <1>3, <1>4, <1>5, <1>6, <2>1, PushedAgrees
<1>11. M \in Seq(Updates) /\ Kept(M)
  BY <1>6 DEF Grown
<1> HIDE DEF M, r, q
<1>12. /\ stats_list_' \in [Channels -> Seq(Updates)] /\ stats_list_'[c] = M
       /\ pending' \in [Channels -> Seq(Updates)] /\ pending'[c] = r
       /\ \A d \in Channels : d # c => stats_list_'[d] = stats_list_[d] /\ pending'[d] = pending[d]
  <2>1. pending' = [pending EXCEPT ![c] = r]
    BY <1>1 DEF r
  <2> QED
    BY <1>3, <1>8, <1>9, <1>11, <2>1
<1>14. TimesData'
  <2>1. TimesTypes'
    BY <1>2, <1>3, <1>9, <1>12 DEF TimesTypes
  <2> QED
    BY <1>2, <1>3, <1>12, <2>1 DEF TimesData
<1>15. ChannelInv(c)'
  <2>1. s = source'[c]
    BY <1>2
  <2> HIDE DEF L, p, s
  <2> QED
    BY <1>2, <1>6, <1>10, <1>11, <1>12, <2>1 DEF ChannelInv
<1>16. ASSUME NEW d \in Channels, d # c PROVE ChannelInv(d)'
  BY <1>2, <1>12, <1>16, ChannelData, ChannelKept
<1> QED
  BY <1>9, <1>14, <1>15, <1>16 DEF TimesInv

LEMMA TimesStutter == ASSUME TimesInv, UNCHANGED timesVars PROVE TimesInv'
<1>1. /\ UNCHANGED <<spectrumVars, sourceVars, pending, disturbed>>
      /\ UNCHANGED <<stats_list_, real_times_, live_times_, real_time, live_time>>
      /\ UNCHANGED <<now, source, sent, trueReal, trueLive>>
  BY DEF timesVars, spectrumVars, sourceVars
<1>2. TimesData'
  BY <1>1 DEF TimesInv, TimesData, TimesTypes
<1>3. ASSUME NEW c \in Channels PROVE ChannelInv(c)'
  BY <1>1, ChannelData, ChannelKept
<1> QED
  BY <1>1, <1>2, <1>3, ShownKept DEF TimesInv

(* In every reachable state the totals of each list are those of its starts  *)
(* and of the last update of each run, updates that were overtaken included, *)
(* and those of a channel that was not disturbed are what it was on for.     *)
THEOREM TimesInvariance == TimesSpec => []TimesInv
<1>1. TimesInv /\ [TimesNext]_timesVars => TimesInv'
  BY PassInv, StartInv, ReportInv, BreakOffInv, PushedInv, TimesStutter DEF TimesNext
<1> QED
  BY TimesStart, <1>1, PTL DEF TimesSpec

(* Real and live time are what a channel was on and live for, over any       *)
(* number of acquisitions and whatever the rate of its device clock, and     *)
(* dead time is not negative.                                                *)
THEOREM TimesStayTrue == TimesSpec => []TimesAreTrue
<1>1. TimesInv => TimesAreTrue
  <2> SUFFICES ASSUME TimesInv PROVE TimesAreTrue
    OBVIOUS
  <2>1. ASSUME NEW c \in Channels, Settled(c)
        PROVE  real_times_[c] = trueReal[c] /\ live_times_[c] = trueLive[c]
    <3> DEFINE L == stats_list_[c]
               T == Totals(L)
               x == L[Len(L)]
               none == << >>
    <3>1. /\ pending[c] = none /\ Len(L) > 1 /\ c \notin disturbed
          /\ L # << >> => x.lab_time = source[c].at
      BY <2>1 DEF Settled, Behind, Last
    <3>2. L \in Seq(Updates) /\ ChannelInv(c) /\ L # << >>
      BY <3>1, ChannelData
    <3>3. Kept(L) /\ Agrees(L, none, source[c], trueReal[c], trueLive[c])
      BY <3>1, <3>2 DEF ChannelInv
    <3>4. ~Starts1(none) /\ none = << >>
      BY DEF Starts1
    <3> HIDE DEF none
    <3>5. /\ trueReal[c] = T.real + (x.lab_time - T.start.lab_time)
          /\ trueLive[c] = T.live + Units(x.live_time)
      <4>1. /\ trueReal[c] = T.real + (source[c].at - T.start.lab_time)
            /\ trueLive[c] = T.live + Units(source[c].liveAt)
            /\ NotAfter(x, source[c])
        BY <3>2, <3>3, <3>4 DEF Agrees, BaseReal, BaseLive, Current
      <4> QED
        BY <3>1, <3>2, <4>1 DEF NotAfter
    <3>6. real_times_[c] = Sums(L)[1] /\ live_times_[c] = Sums(L)[2]
      BY <3>1 DEF TimesInv, ShownInv
    <3>7. /\ Sums(L)[1] = IF IsStart(x) THEN T.real ELSE T.real + T.rt
          /\ Sums(L)[2] = IF IsStart(x) THEN T.live ELSE T.live + T.lt
      BY <3>2, <3>3, SumsAre
    <3>8. SumIs(T, x)
      BY <3>2, <3>3 DEF Kept
    <3>9. CASE IsStart(x)
      <4>1. T.start = x /\ x.live_time = 0
        BY <3>8, <3>9 DEF SumIs, Blank
      <4>2. T.real \in Nat /\ T.live \in Nat /\ x.lab_time \in Nat
        BY <3>8, <4>1 DEF SumIs, TotalsSet, Updates
      <4> HIDE DEF T, x
      <4>3. trueReal[c] = T.real /\ trueLive[c] = T.live
        BY <3>5, <4>1, <4>2, NoUnits
      <4> QED
        BY <3>6, <3>7, <3>9, <4>3
    <3>10. CASE ~IsStart(x)
      BY <3>5, <3>6, <3>7, <3>8, <3>10 DEF SumIs
    <3> QED
      BY <3>9, <3>10
  <2>2. TimesTypes /\ live_time <= real_time
    BY DEF TimesInv, TimesData, ShownInv
  <2> QED
    BY <2>1, <2>2 DEF TimesAreTrue
<1> QED
  BY TimesInvariance, <1>1, PTL
=============================================================================
