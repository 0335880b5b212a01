---------------------------- MODULE Acquisition -----------------------------
(***************************************************************************)
(* One acquisition of Engine::getMca or Engine::getList (engine/engine.cpp)*)
(* with the threads it starts: a run thread in every source, a parser      *)
(* thread in sources that buffer raw data (sources/pixie4), and, for       *)
(* getMca, the spectra builder.  The queue they share lives on the stack   *)
(* of the call, and every run_status_ is a lone atomic: what is at stake is*)
(* that the call neither returns under a thread that still uses its queue, *)
(* nor drops a spill, nor fails to return.                                 *)
(*                                                                         *)
(* Both kinds of queue are channels as in SpillChannel, which              *)
(* SynchronizedQueue is shown to implement.  What the builder does with a  *)
(* spill is in Presorter; here it takes spills and hands them on.          *)
(***************************************************************************)
EXTENDS Naturals, Sequences, FiniteSets

CONSTANTS Direct,     \* sources with a run thread only: Simulator2D, ParserRaw
          Buffered,   \* sources with a parser thread behind it: Pixie4
          Endless,    \* sources that never run out of data by themselves
          Engine,     \* origin of the two spills of the engine itself
          None,
          MaxSpills,  \* bound: data spills of each source in one acquisition
          MaxRuns     \* bound: acquisitions

Sources == Direct \cup Buffered

ASSUME AcquisitionAssumption ==
  /\ Direct \cap Buffered = {}
  /\ Endless \subseteq Sources
  /\ Engine \notin Sources /\ None \notin Sources
  /\ MaxSpills \in Nat \ {0} /\ MaxRuns \in Nat

VARIABLES pc,             \* where getMca() or getList() is
          mode,           \* "mca" or "list"
          todo,           \* devices_ left to visit in the current loop
          running,        \* the accumulator of Engine::daq_running
          call,           \* <<source, step>> of the daq_stop() in progress
          stop_request,   \* interruptor.load() or the timeout has passed
          runs,           \* acquisitions begun
          run_status_,    \* 0 idle, 1 running, 2 stop requested, 3 finished
          runner_,        \* the run thread of each source
          parser_,        \* the parser thread of each source
          raw_queue_,     \* NoQueue, or what is in the raw queue
          raw_end,        \* its end_queue_
          parsing,        \* the spill a parser thread holds
          parsedQueue,    \* the queue on the engine's stack
          parsed_end,     \* its end_queue_
          builder,        \* the spectra builder thread
          sent,           \* spills each source has made in this acquisition
          result          \* what the project, or the caller of getList, got

engineVars == <<pc, mode, todo, running, call, stop_request, runs>>
sourceVars == <<run_status_, runner_, parser_, raw_queue_, raw_end, parsing, sent>>
queueVars == <<parsedQueue, parsed_end, builder, result>>
vars == <<engineVars, sourceVars, queueVars>>

Spills == (Sources \cup {Engine}) \X Nat
NoQueue == <<<<None, 0>>>>
NoCall == <<None, "none">>
Calls == {NoCall} \cup (Sources \X {"request", "join", "drain", "parser", "reset"})

Init == /\ pc = "idle" /\ mode = "mca"
        /\ todo = {} /\ running = FALSE /\ call = NoCall
        /\ stop_request = FALSE /\ runs = 0
        /\ run_status_ = [s \in Sources |-> 0]
        /\ runner_ = [s \in Sources |-> "none"]
        /\ parser_ = [s \in Sources |-> "none"]
        /\ raw_queue_ = [s \in Sources |-> NoQueue]
        /\ raw_end = [s \in Sources |-> FALSE]
        /\ parsing = [s \in Sources |-> None]
        /\ parsedQueue = <<>> /\ parsed_end = FALSE
        /\ builder = "none"
        /\ sent = [s \in Sources |-> 0]
        /\ result = <<>>

-----------------------------------------------------------------------------
(* Source::daq_start, daq_stop and daq_running, run by the engine.         *)

daq_start(s) ==
  IF run_status_[s] > 0
  THEN UNCHANGED sourceVars
  ELSE /\ run_status_' = [run_status_ EXCEPT ![s] = 1]
       /\ runner_' = [runner_ EXCEPT ![s] = "begin"]
       /\ sent' = [sent EXCEPT ![s] = 0]
       /\ IF s \in Buffered
          THEN /\ raw_queue_' = [raw_queue_ EXCEPT ![s] = <<>>]
               /\ raw_end' = [raw_end EXCEPT ![s] = FALSE]
               /\ parser_' = [parser_ EXCEPT ![s] = "dequeue"]
          ELSE UNCHANGED <<raw_queue_, raw_end, parser_>>
       /\ UNCHANGED parsing

InCall(s, step) == call = <<s, step>>

\* run_status_.store(2), then join the run thread
StopRequest(s) ==
  /\ InCall(s, "request")
  /\ IF run_status_[s] = 0
     THEN call' = NoCall /\ UNCHANGED run_status_
     ELSE call' = <<s, "join">> /\ run_status_' = [run_status_ EXCEPT ![s] = 2]
  /\ UNCHANGED <<pc, mode, todo, running, stop_request, runs, queueVars,
                 runner_, parser_, raw_queue_, raw_end, parsing, sent>>

\* Mutant: the run thread is not joined.
LeaveRunner(s) ==
  /\ InCall(s, "join")
  /\ call' = <<s, IF s \in Buffered THEN "drain" ELSE "reset">>
  /\ UNCHANGED <<pc, mode, todo, running, stop_request, runs, queueVars, sourceVars>>

JoinRunner(s) ==
  /\ InCall(s, "join")
  /\ runner_[s] = "dead"
  /\ runner_' = [runner_ EXCEPT ![s] = "none"]
  /\ call' = <<s, IF s \in Buffered THEN "drain" ELSE "reset">>
  /\ UNCHANGED <<pc, mode, todo, running, stop_request, runs, queueVars,
                 run_status_, parser_, raw_queue_, raw_end, parsing, sent>>

\* Mutant: the raw queue is not stopped.
DrainRawOnly(s) ==
  /\ InCall(s, "drain")
  /\ raw_queue_[s] = <<>>
  /\ call' = <<s, "parser">>
  /\ UNCHANGED <<pc, mode, todo, running, stop_request, runs, queueVars, sourceVars>>

\* Pixie4 waits until the raw queue is empty and stops it ...
DrainRaw(s) ==
  /\ InCall(s, "drain")
  /\ raw_queue_[s] = <<>>
  /\ raw_end' = [raw_end EXCEPT ![s] = TRUE]
  /\ call' = <<s, "parser">>
  /\ UNCHANGED <<pc, mode, todo, running, stop_request, runs, queueVars,
                 run_status_, runner_, parser_, raw_queue_, parsing, sent>>

\* Mutant: the queue is deleted before the parser thread has ended.
DeleteRawQueue(s) ==
  /\ InCall(s, "parser")
  /\ raw_queue_' = [raw_queue_ EXCEPT ![s] = NoQueue]
  /\ call' = <<s, "reset">>
  /\ UNCHANGED <<pc, mode, todo, running, stop_request, runs, queueVars,
                 run_status_, runner_, parser_, raw_end, parsing, sent>>

\* ... joins the parser thread and deletes the queue.
JoinParser(s) ==
  /\ InCall(s, "parser")
  /\ parser_[s] = "dead"
  /\ parser_' = [parser_ EXCEPT ![s] = "none"]
  /\ raw_queue_' = [raw_queue_ EXCEPT ![s] = NoQueue]
  /\ call' = <<s, "reset">>
  /\ UNCHANGED <<pc, mode, todo, running, stop_request, runs, queueVars,
                 run_status_, runner_, raw_end, parsing, sent>>

StopReset(s) ==
  /\ InCall(s, "reset")
  /\ run_status_' = [run_status_ EXCEPT ![s] = 0]
  /\ call' = NoCall
  /\ UNCHANGED <<pc, mode, todo, running, stop_request, runs, queueVars,
                 runner_, parser_, raw_queue_, raw_end, parsing, sent>>

daq_stop(s) == \/ StopRequest(s) \/ JoinRunner(s) \/ DrainRaw(s)
               \/ JoinParser(s) \/ StopReset(s)

-----------------------------------------------------------------------------
(* The engine thread: getMca() and getList().                              *)

Goto(from, to) == pc = from /\ call = NoCall /\ pc' = to

\* Up to the loop of Engine::daq_start; the first spill carries the settings.
Begin == \E m \in {"mca", "list"} :
  /\ runs < MaxRuns
  /\ Goto("idle", "start")
  /\ runs' = runs + 1
  /\ mode' = m
  /\ stop_request' = FALSE
  /\ todo' = Sources
  /\ parsed_end' = FALSE
  /\ builder' = IF m = "mca" THEN "dequeue" ELSE "none"
  /\ parsedQueue' = IF m = "mca" THEN <<<<Engine, 1>>>> ELSE <<>>
  /\ result' = IF m = "mca" THEN <<>> ELSE <<<<Engine, 1>>>>
  /\ UNCHANGED <<running, call, sourceVars>>

StartOne(s) == /\ pc = "start"
               /\ s \in todo
               /\ todo' = todo \ {s}
               /\ daq_start(s)
               /\ UNCHANGED <<pc, mode, running, call, stop_request, runs, queueVars>>

\* while (daq_running())
StartPoll == /\ \/ Goto("start", "poll") /\ todo = {}
                \/ Goto("wait", "poll") /\ ~stop_request
                \/ Goto("stop", "poll") /\ todo = {}
             /\ todo' = Sources
             /\ running' = FALSE
             /\ UNCHANGED <<mode, call, stop_request, runs, sourceVars, queueVars>>

\* Source::daq_running(): one that has finished is first stopped and joined.
PollOne(s) == /\ pc = "poll"
              /\ call = NoCall
              /\ s \in todo
              /\ IF run_status_[s] = 3
                 THEN call' = <<s, "request">> /\ UNCHANGED <<todo, running>>
                 ELSE /\ todo' = todo \ {s}
                      /\ running' = (running \/ run_status_[s] > 0)
                      /\ UNCHANGED call
              /\ UNCHANGED <<pc, mode, stop_request, runs, sourceVars, queueVars>>

PollDone == /\ todo = {}
            /\ Goto("poll", IF running THEN "wait" ELSE "final")
            /\ UNCHANGED <<mode, todo, running, call, stop_request, runs,
                           sourceVars, queueVars>>

\* if (interruptor.load() || timed out) daq_stop()
StopAll == /\ stop_request
           /\ Goto("wait", "stop")
           /\ todo' = Sources
           /\ UNCHANGED <<mode, running, call, stop_request, runs, sourceVars, queueVars>>

StopOne(s) == /\ pc = "stop"
              /\ call = NoCall
              /\ s \in todo
              /\ todo' = todo \ {s}
              /\ call' = <<s, "request">>
              /\ UNCHANGED <<pc, mode, running, stop_request, runs, sourceVars, queueVars>>

Final == /\ Goto("final", "drain")
         /\ parsedQueue' = Append(parsedQueue, <<Engine, 2>>)
         /\ UNCHANGED <<mode, todo, running, call, stop_request, runs, sourceVars,
                        parsed_end, builder, result>>

\* getList() takes what is queued itself, once no source is left
TakeList == /\ Goto("drain", "drain")
            /\ mode = "list"
            /\ parsedQueue # <<>>
            /\ parsedQueue' = Tail(parsedQueue)
            /\ result' = Append(result, Head(parsedQueue))
            /\ UNCHANGED <<mode, todo, running, call, stop_request, runs, sourceVars,
                           parsed_end, builder>>

\* Mutant: the queue is stopped without a look at its size.
StopQueueAtOnce == /\ Goto("drain", "join")
                   /\ parsed_end' = TRUE
                   /\ UNCHANGED <<mode, todo, running, call, stop_request, runs,
                                  sourceVars, parsedQueue, builder, result>>

StopQueue == /\ Goto("drain", "join")
             /\ parsedQueue = <<>>
             /\ parsed_end' = TRUE
             /\ UNCHANGED <<mode, todo, running, call, stop_request, runs, sourceVars,
                            parsedQueue, builder, result>>

\* builder.join(), and the queue goes out of scope
Return == /\ builder \in {"none", "dead"}
          /\ Goto("join", "idle")
          /\ builder' = "none"
          /\ UNCHANGED <<mode, todo, running, call, stop_request, runs, sourceVars,
                         parsedQueue, parsed_end, result>>

EngineThread == \/ StartPoll \/ PollDone \/ StopAll \/ Final
                \/ TakeList \/ StopQueue \/ Return
                \/ \E s \in Sources : StartOne(s) \/ PollOne(s) \/ StopOne(s) \/ daq_stop(s)

\* The user sets the interruptor, or the timeout passes.
RequestStop == /\ pc # "idle"
               /\ ~stop_request
               /\ stop_request' = TRUE
               /\ UNCHANGED <<pc, mode, todo, running, call, runs, sourceVars, queueVars>>

-----------------------------------------------------------------------------
(* worker_run of a source, and worker_parse behind it.                     *)

\* A new spill goes to the raw queue of a buffered source, else to the engine's.
Send(s) ==
  /\ sent' = [sent EXCEPT ![s] = @ + 1]
  /\ IF s \in Buffered
     THEN /\ raw_queue_' = [raw_queue_ EXCEPT ![s] = Append(@, <<s, sent'[s]>>)]
          /\ UNCHANGED parsedQueue
     ELSE /\ parsedQueue' = Append(parsedQueue, <<s, sent'[s]>>)
          /\ UNCHANGED raw_queue_
  /\ UNCHANGED <<parsed_end, builder, result>>

Runner(s, from, to) == runner_[s] = from /\ runner_' = [runner_ EXCEPT ![s] = to]

\* the start update; the first data follows without a look at run_status_
RunBegin(s) == /\ Runner(s, "begin", IF s \in Buffered THEN "test" ELSE "data")
               /\ Send(s)
               /\ UNCHANGED <<engineVars, run_status_, parser_, raw_end, parsing>>

\* Pixie4 returns at once when the modules do not start: run_status_ stays.
RunFails(s) == /\ s \in Buffered
               /\ Runner(s, "begin", "dead")
               /\ UNCHANGED <<engineVars, queueVars, run_status_, parser_, raw_queue_,
                              raw_end, parsing, sent>>

RunData(s) == /\ Runner(s, "data", "test")
              /\ Send(s)
              /\ UNCHANGED <<engineVars, run_status_, parser_, raw_end, parsing>>

\* timeout = (run_status_.load() == 2), or no more data in the file; Pixie4
\* goes on reading buffers that are full when the stop request arrives.
RunTest(s) == /\ \/ run_status_[s] = 2 /\ Runner(s, "test", "last")
                 \/ /\ run_status_[s] # 2 \/ s \in Buffered
                    /\ sent[s] < MaxSpills + 1
                    /\ Runner(s, "test", "data")
                 \/ s \notin Endless /\ Runner(s, "test", "last")
              /\ UNCHANGED <<engineVars, queueVars, run_status_, parser_, raw_queue_,
                             raw_end, parsing, sent>>

\* the stop update, then run_status_.store(3) as the thread's last action
RunLast(s) == /\ Runner(s, "last", "store")
              /\ Send(s)
              /\ UNCHANGED <<engineVars, run_status_, parser_, raw_end, parsing>>

RunEnd(s) == /\ Runner(s, "store", "dead")
             /\ run_status_' = [run_status_ EXCEPT ![s] = 3]
             /\ UNCHANGED <<engineVars, queueVars, parser_, raw_queue_, raw_end,
                            parsing, sent>>

worker_run(s) == \/ RunBegin(s) \/ RunFails(s) \/ RunData(s)
                 \/ RunTest(s) \/ RunLast(s) \/ RunEnd(s)

Parser(s, from, to) == parser_[s] = from /\ parser_' = [parser_ EXCEPT ![s] = to]

ParseTake(s) == /\ ~raw_end[s] /\ raw_queue_[s] # <<>>
                /\ Parser(s, "dequeue", "enqueue")
                /\ parsing' = [parsing EXCEPT ![s] = Head(raw_queue_[s])]
                /\ raw_queue_' = [raw_queue_ EXCEPT ![s] = Tail(@)]
                /\ UNCHANGED <<engineVars, queueVars, run_status_, runner_, raw_end, sent>>

ParseNull(s) == /\ raw_end[s]
                /\ Parser(s, "dequeue", "dead")
                /\ UNCHANGED <<engineVars, queueVars, run_status_, runner_, raw_queue_,
                               raw_end, parsing, sent>>

ParsePut(s) == /\ Parser(s, "enqueue", "dequeue")
               /\ parsedQueue' = Append(parsedQueue, parsing[s])
               /\ parsing' = [parsing EXCEPT ![s] = None]
               /\ UNCHANGED <<engineVars, run_status_, runner_, raw_queue_, raw_end, sent,
                              parsed_end, builder, result>>

worker_parse(s) == ParseTake(s) \/ ParseNull(s) \/ ParsePut(s)

-----------------------------------------------------------------------------
(* worker_MCA, seen from outside: every spill reaches the project.         *)

BuildTake == /\ builder = "dequeue"
             /\ ~parsed_end
             /\ parsedQueue # <<>>
             /\ parsedQueue' = Tail(parsedQueue)
             /\ result' = Append(result, Head(parsedQueue))
             /\ UNCHANGED <<engineVars, sourceVars, parsed_end, builder>>

BuildNull == /\ builder = "dequeue"
             /\ parsed_end
             /\ builder' = "dead"
             /\ UNCHANGED <<engineVars, sourceVars, parsedQueue, parsed_end, result>>

worker_MCA == BuildTake \/ BuildNull

Next == \/ Begin
        \/ EngineThread
        \/ RequestStop
        \/ worker_MCA
        \/ \E s \in Sources : worker_run(s) \/ worker_parse(s)

Spec == Init /\ [][Next]_vars

(***************************************************************************)
(* Every thread runs when it can.  No acquisition has to begin, nobody has *)
(* to ask for its end, and a file need not end before its bound.           *)
(***************************************************************************)
FairSpec == /\ Spec
            /\ WF_vars(EngineThread)
            /\ WF_vars(worker_MCA)
            /\ \A s \in Sources : WF_vars(worker_run(s)) /\ WF_vars(worker_parse(s))

-----------------------------------------------------------------------------
EngineTypes ==
  /\ pc \in {"idle", "start", "poll", "wait", "stop", "final", "drain", "join"}
  /\ mode \in {"mca", "list"}
  /\ todo \in SUBSET Sources
  /\ running \in BOOLEAN
  /\ call \in Calls
  /\ stop_request \in BOOLEAN
  /\ runs \in 0..MaxRuns

SourceTypes ==
  /\ run_status_ \in [Sources -> 0..3]
  /\ runner_ \in [Sources -> {"none", "begin", "test", "data", "last", "store", "dead"}]
  /\ parser_ \in [Sources -> {"none", "dequeue", "enqueue", "dead"}]
  /\ raw_end \in [Sources -> BOOLEAN]
  /\ sent \in [Sources -> Nat]

QueueTypes ==
  /\ raw_queue_ \in [Sources -> {NoQueue} \cup Seq(Sources \X Nat)]
  /\ parsing \in [Sources -> {None} \cup (Sources \X Nat)]
  /\ parsedQueue \in Seq(Spills) /\ result \in Seq(Spills)
  /\ parsed_end \in BOOLEAN
  /\ builder \in {"none", "dequeue", "dead"}

TypeOK == EngineTypes /\ SourceTypes /\ QueueTypes

(***************************************************************************)
(* The queue of getMca() and getList() is a local variable that every      *)
(* thread holds a pointer to: when the call has returned no thread is left *)
(* that could use it, whoever ended the acquisition and however the store  *)
(* of 3 by a run thread falls between the loads and stores of daq_running()*)
(* and daq_stop().                                                         *)
(***************************************************************************)
NoThreadOutlivesCall ==
  pc = "idle" => /\ builder = "none"
                 /\ \A s \in Sources : runner_[s] = "none" /\ parser_[s] = "none"

(***************************************************************************)
(* A raw queue exists as long as a thread of its source may use it, and an *)
(* idle source has neither threads nor a queue, so daq_start() never       *)
(* overwrites a thread that was not joined.                                *)
(***************************************************************************)
RawQueueOutlivesThreads ==
  /\ TypeOK
  /\ \A s \in Sources :
       /\ s \in Buffered /\ (runner_[s] # "none" \/ parser_[s] # "none")
            => raw_queue_[s] # NoQueue
       /\ run_status_[s] = 0
            => runner_[s] = "none" /\ parser_[s] = "none" /\ raw_queue_[s] = NoQueue

\* The places of the spills of one source in a sequence.
From(s, q) == {i \in DOMAIN q : q[i][1] = s}

\* The sequence has spills 1 to n of the source, each once and in this order.
InTurn(s, q, n) ==
  /\ {q[i][2] : i \in From(s, q)} = 1..n
  /\ \A i, j \in From(s, q) : i < j => q[i][2] < q[j][2]

(***************************************************************************)
(* What an acquisition delivers: the settings spill first, then every spill*)
(* each source made, in the order it made them, then the closing settings. *)
(* Waiting for size() == 0 is enough although the spills pass two queues.  *)
(***************************************************************************)
ResultComplete ==
  pc = "idle" /\ runs > 0 =>
    /\ result # <<>>
    /\ result[1] = <<Engine, 1>>
    /\ result[Len(result)] = <<Engine, 2>>
    /\ \A s \in Sources : InTurn(s, result, sent[s])

(***************************************************************************)
(* A request to stop (or the timeout) ends the acquisition: no join waits  *)
(* for a thread that waits for something else, also when run threads ended *)
(* by themselves, or failed to start and left run_status_ at 1.            *)
(***************************************************************************)
StopEndsAcquisition == stop_request ~> pc = "idle"
=============================================================================
