------------------------- MODULE SynchronizedQueue --------------------------
(***************************************************************************)
(* engine/synchronized_queue.h: the unbounded queue through which device   *)
(* threads hand spills to the parser and to the spectra builder.  The      *)
(* methods are split where another thread can be scheduled: at the mutex,  *)
(* at cond_.wait, and between the two statements of stop(), which takes    *)
(* no lock.                                                                *)
(*                                                                         *)
(* A producer thread runs enqueue(), a consumer thread runs dequeue() and  *)
(* leaves when it gets NULL (as Pixie4::worker_parse does), a stopper runs *)
(* stop() once.  size() only reads under the mutex and is left out.        *)
(***************************************************************************)
EXTENDS Naturals, Sequences, FiniteSets

CONSTANTS Producers, Consumers, Stoppers,
          MaxPerProducer,   \* bound: items each producer enqueues
          None              \* mutex_ when no thread holds it

Threads == Producers \cup Consumers \cup Stoppers

ASSUME QueueAssumption ==
  /\ Producers \cap Consumers = {}
  /\ Producers \cap Stoppers = {}
  /\ Consumers \cap Stoppers = {}
  /\ None \notin Threads
  /\ IsFiniteSet(Consumers)
  /\ MaxPerProducer \in Nat

VARIABLES queue_,      \* std::queue<T>
          end_queue_,  \* written by stop() without the mutex
          mutex_,      \* the thread that holds it, or None
          cond_,       \* threads asleep in cond_.wait
          pc,          \* where each thread is
          produced,    \* items each producer has enqueued
          received     \* items dequeue() returned, in order

vars == <<queue_, end_queue_, mutex_, cond_, pc, produced, received>>

Items == Producers \X (1..MaxPerProducer)

Init == /\ queue_ = <<>>
        /\ end_queue_ = FALSE
        /\ mutex_ = None
        /\ cond_ = {}
        /\ pc = [t \in Threads |-> "idle"]
        /\ produced = [p \in Producers |-> 0]
        /\ received = <<>>

Goto(t, from, to) == pc[t] = from /\ pc' = [pc EXCEPT ![t] = to]
Acquire(t) == mutex_ = None /\ mutex_' = t
Release(t) == mutex_ = t /\ mutex_' = None

-----------------------------------------------------------------------------
\* enqueue(): lock ...
EnqueueLock(p) == /\ produced[p] < MaxPerProducer
                  /\ Goto(p, "idle", "push")
                  /\ Acquire(p)
                  /\ UNCHANGED <<queue_, end_queue_, cond_, produced, received>>

\* notify_one wakes one sleeping thread, if there is one.
NotifyOne == \/ cond_ = {} /\ UNCHANGED cond_
             \/ \E c \in cond_ : cond_' = cond_ \ {c}

\* Mutant: notify_one forgotten.
EnqueuePushSilent(p) ==
  /\ Goto(p, "push", "idle")
  /\ Release(p)
  /\ produced' = [produced EXCEPT ![p] = @ + 1]
  /\ queue_' = Append(queue_, <<p, produced'[p]>>)
  /\ UNCHANGED <<cond_, end_queue_, received>>

\* ... push, notify_one, unlock
EnqueuePush(p) ==
  /\ Goto(p, "push", "idle")
  /\ Release(p)
  /\ produced' = [produced EXCEPT ![p] = @ + 1]
  /\ queue_' = Append(queue_, <<p, produced'[p]>>)
  /\ NotifyOne
  /\ UNCHANGED <<end_queue_, received>>

-----------------------------------------------------------------------------
\* dequeue(): lock, or cond_.wait re-acquiring the mutex once woken
DequeueLock(c) == /\ Goto(c, "idle", "check")
                  /\ Acquire(c)
                  /\ UNCHANGED <<queue_, end_queue_, cond_, produced, received>>

\* Mutant: if instead of while around cond_.wait.
RelockTake(c) == /\ c \notin cond_
                 /\ Goto(c, "waiting", "take")
                 /\ Acquire(c)
                 /\ UNCHANGED <<queue_, end_queue_, cond_, produced, received>>

Relock(c) == /\ c \notin cond_
             /\ Goto(c, "waiting", "check")
             /\ Acquire(c)
             /\ UNCHANGED <<queue_, end_queue_, cond_, produced, received>>

\* while (queue_.empty() && !end_queue_)
MustWait == queue_ = <<>> /\ ~end_queue_

DequeueCheck(c) == /\ Goto(c, "check", IF MustWait THEN "park" ELSE "take")
                   /\ UNCHANGED <<queue_, end_queue_, mutex_, cond_, produced, received>>

\* cond_.wait(lock): releases the mutex and sleeps in one step
DequeuePark(c) == /\ Goto(c, "park", "waiting")
                  /\ Release(c)
                  /\ cond_' = cond_ \cup {c}
                  /\ UNCHANGED <<queue_, end_queue_, produced, received>>

\* A condition variable may wake a thread nobody notified.
SpuriousWake(c) == /\ c \in cond_
                   /\ cond_' = cond_ \ {c}
                   /\ UNCHANGED <<queue_, end_queue_, mutex_, pc, produced, received>>

\* Mutant: front without pop.
DequeuePeek(c) == /\ ~end_queue_
                  /\ Goto(c, "take", "idle")
                  /\ Release(c)
                  /\ received' = Append(received, Head(queue_))
                  /\ UNCHANGED <<queue_, end_queue_, cond_, produced>>

\* after the loop: front and pop, unless end_queue_ was set meanwhile
DequeueTake(c) == /\ ~end_queue_
                  /\ Goto(c, "take", "idle")
                  /\ Release(c)
                  /\ queue_' = Tail(queue_)
                  /\ received' = Append(received, Head(queue_))
                  /\ UNCHANGED <<end_queue_, cond_, produced>>

DequeueNull(c) == /\ end_queue_
                  /\ Goto(c, "take", "ended")
                  /\ Release(c)
                  /\ UNCHANGED <<queue_, end_queue_, cond_, produced, received>>

-----------------------------------------------------------------------------
\* stop(): two statements, no lock
StopSet(s) == /\ Goto(s, "idle", "notify")
              /\ end_queue_' = TRUE
              /\ UNCHANGED <<queue_, mutex_, cond_, produced, received>>

StopNotify(s) == /\ Goto(s, "notify", "ended")
                 /\ cond_' = {}
                 /\ UNCHANGED <<queue_, end_queue_, mutex_, produced, received>>

-----------------------------------------------------------------------------
Enqueue(p) == EnqueueLock(p) \/ EnqueuePush(p)

Dequeue(c) == \/ DequeueLock(c) \/ Relock(c) \/ DequeueCheck(c)
              \/ DequeuePark(c) \/ DequeueTake(c) \/ DequeueNull(c)

Stop(s) == StopSet(s) \/ StopNotify(s)

Next == \/ \E p \in Producers : Enqueue(p)
        \/ \E c \in Consumers : Dequeue(c) \/ SpuriousWake(c)
        \/ \E s \in Stoppers : Stop(s)

Spec == Init /\ [][Next]_vars

(***************************************************************************)
(* A thread that can run keeps running; a mutex is eventually granted to a *)
(* thread that keeps asking.  Nobody has to start an enqueue or a stop,    *)
(* but one that is begun is finished.  Spurious wakeups are never owed.    *)
(***************************************************************************)
Fairness == /\ \A p \in Producers : WF_vars(EnqueuePush(p))
            /\ \A c \in Consumers : SF_vars(DequeueLock(c)) /\ SF_vars(Relock(c))
            /\ \A c \in Consumers : WF_vars(DequeueCheck(c) \/ DequeuePark(c))
            /\ \A c \in Consumers : WF_vars(DequeueTake(c) \/ DequeueNull(c))
            /\ \A s \in Stoppers : WF_vars(StopNotify(s))

FairSpec == Spec /\ Fairness

-----------------------------------------------------------------------------
TypeOK ==
  /\ queue_ \in Seq(Items)
  /\ end_queue_ \in BOOLEAN
  /\ mutex_ \in Threads \cup {None}
  /\ cond_ \in SUBSET Consumers
  /\ pc \in [Threads -> {"idle", "push", "check", "park", "waiting", "take",
                         "notify", "ended"}]
  /\ produced \in [Producers -> 0..MaxPerProducer]
  /\ received \in Seq(Items)

\* Consumers that were woken, or are inside the critical section of dequeue().
Active == {c \in Consumers : \/ pc[c] \in {"check", "park", "take"}
                             \/ pc[c] = "waiting" /\ c \notin cond_}

(***************************************************************************)
(* No lost wakeup on enqueue(): until the queue is stopped, while some     *)
(* consumer sleeps there are at least as many awake inside dequeue() as    *)
(* there are items queued, so one notify_one per push is enough however    *)
(* the consumers overtake each other.                                      *)
(***************************************************************************)
NoLostWakeup ==
  ~end_queue_ /\ cond_ # {} => Len(queue_) <= Cardinality(Active)

(***************************************************************************)
(* A consumer past the wait loop finds an item to take or the end flag:    *)
(* front() is never called on an empty std::queue, although stop() may     *)
(* change end_queue_ at any moment of the critical section.                *)
(***************************************************************************)
FrontIsDefined == \A c \in Consumers :
                    pc[c] = "take" /\ ~end_queue_ => queue_ # <<>>

(***************************************************************************)
(* As long as the queue is not stopped every item that is enqueued is      *)
(* handed out: consumers are not left asleep beside a non-empty queue.  A  *)
(* consumer that sleeps when stop() comes to its notify_all, or begins     *)
(* anew after it, leaves dequeue() for good.  Left out is one between its  *)
(* test of end_queue_ and its wait: stop() takes no lock, its notification *)
(* can fall between the two, and the consumer sleeps for ever.             *)
(***************************************************************************)
Delivered ==
  /\ \A i \in Items :
       (\E k \in DOMAIN queue_ : queue_[k] = i)
          ~> (end_queue_ \/ \E k \in DOMAIN received : received[k] = i)
  /\ \A c \in Consumers :
       end_queue_ /\ (pc[c] = "idle" \/ (c \in cond_ /\ \E s \in Stoppers : pc[s] = "notify"))
          ~> pc[c] = "ended"

\* The queue implements the abstract channel.
Channel == INSTANCE SpillChannel WITH
             content <- queue_,
             closed <- end_queue_,
             delivered <- received,
             ended <- {c \in Consumers : pc[c] = "ended"}

ChannelSpec == Channel!Spec
=============================================================================
