------------------------- MODULE AcquisitionProofs --------------------------
(***************************************************************************)
(* Proofs about Acquisition for any sources, any number of spills and of   *)
(* acquisitions: no thread outlives the call that gave it its queue, a raw *)
(* queue is there as long as a thread may use it, and an acquisition       *)
(* delivers every spill of every source, in order.                         *)
(***************************************************************************)
EXTENDS Acquisition, SequenceTheorems, TLAPS

-----------------------------------------------------------------------------
(* Control: where the call is, what daq_stop() has done, which threads run *)

Idle(s) == run_status_[s] = 0

\* daq_stop() has joined the run thread ...
RunnerJoined(s) == call \in {<<s, "drain">>, <<s, "parser">>, <<s, "reset">>}

\* ... and the parser thread, if the source has one
ParserJoined(s) == s \notin Buffered \/ call = <<s, "reset">>

\* How far the loops over the sources have come.
PhaseInv ==
  /\ pc # "idle" => runs > 0
  /\ pc = "idle" => builder = "none"
  /\ pc = "start" => \A s \in todo : Idle(s)
  /\ pc = "poll" /\ ~running => \A s \in Sources \ todo : Idle(s)
  /\ pc \in {"final", "drain", "join", "idle"} => \A s \in Sources : Idle(s)
  /\ pc \in {"join", "idle"} /\ runs > 0 => parsedQueue = <<>>

CallInv ==
  /\ call # NoCall => pc \in {"poll", "stop"}
  /\ \A s \in Sources :
       /\ InCall(s, "join") \/ RunnerJoined(s) => ~Idle(s)
       /\ InCall(s, "drain") \/ InCall(s, "parser") => s \in Buffered
       /\ InCall(s, "parser") => raw_queue_[s] = <<>>

\* Which threads and queues a source has.
ThreadInv ==
  \A s \in Sources :
    /\ runner_[s] = "none" <=> Idle(s) \/ RunnerJoined(s)
    /\ parser_[s] = "none" <=> Idle(s) \/ ParserJoined(s)
    /\ raw_queue_[s] = NoQueue <=> Idle(s) \/ ParserJoined(s)
    /\ parser_[s] = "enqueue" => parsing[s] \in Sources \X Nat
    /\ parser_[s] = "dead" => raw_end[s]
    /\ raw_end[s] => parser_[s] = "none" \/ InCall(s, "parser")

ControlInv == TypeOK /\ PhaseInv /\ CallInv /\ ThreadInv

-----------------------------------------------------------------------------
(* Data: where the spills of this acquisition are                          *)

\* all that has come to the engine's queue
Stream == result \o parsedQueue

\* Before a source is started, sent is that of the acquisition before.
Made(s) == IF pc = "start" /\ s \in todo THEN 0 ELSE sent[s]

Held(s) == IF parser_[s] = "enqueue" THEN 1 ELSE 0

Raw(s) == IF raw_queue_[s] = NoQueue THEN <<>> ELSE raw_queue_[s]

\* the spills of a source that have come to the engine's queue
Passed(s) == Made(s) - Held(s) - Len(Raw(s))

RawInv ==
  \A s \in Sources :
    /\ Passed(s) \in Nat
    /\ parser_[s] = "enqueue" => parsing[s] = <<s, Passed(s) + 1>>
    /\ \A i \in 1 .. Len(Raw(s)) : Raw(s)[i] = <<s, Passed(s) + Held(s) + i>>

StreamInv ==
  runs > 0 =>
    /\ Len(Stream) > 0
    /\ Stream[1] = <<Engine, 1>>
    /\ pc \in {"drain", "join", "idle"} => Stream[Len(Stream)] = <<Engine, 2>>
    /\ \A s \in Sources : InTurn(s, Stream, Passed(s))

DataInv == RawInv /\ StreamInv

-----------------------------------------------------------------------------
(* Types                                                                   *)

LEMMA Numbers == 0 \in 0 .. MaxRuns /\ \A n \in 0 .. MaxRuns : n < MaxRuns => n + 1 \in 0 .. MaxRuns
  BY AcquisitionAssumption

LEMMA Values ==
  /\ NoCall \in Calls
  /\ \A s \in Sources, step \in {"request", "join", "drain", "parser", "reset"} :
       <<s, step>> \in Calls /\ <<s, step>> # NoCall
  /\ <<>> \in Seq(Sources \X Nat) /\ <<>> \in Seq(Spills)
  /\ <<Engine, 1>> \in Spills /\ <<Engine, 2>> \in Spills
  /\ <<<<Engine, 1>>>> \in Seq(Spills)
  /\ Sources \X Nat \subseteq Spills
  BY DEF Calls, NoCall, Spills

(* Queues stay of their type, and a raw queue with spills is not NoQueue.    *)
LEMMA Queues ==
  ASSUME NEW S, NEW q \in Seq(S)
  PROVE  /\ \A x \in S : Append(q, x) \in Seq(S)
         /\ q # <<>> => Head(q) \in S /\ Tail(q) \in Seq(S)
  OBVIOUS

LEMMA RawQueues == NoQueue \notin Seq(Sources \X Nat) /\ NoQueue # <<>>
<1>1. SUFFICES ASSUME NoQueue \in Seq(Sources \X Nat) PROVE FALSE
  BY DEF NoQueue
<1>2. NoQueue[1] \in Sources \X Nat
  BY <1>1, ElementOfSeq DEF NoQueue
<1> QED
  BY <1>2, AcquisitionAssumption DEF NoQueue

LEMMA RawTaken ==
  ASSUME NEW q \in Seq(Sources \X Nat), q # <<>>
  PROVE  Tail(q) \in Seq(Sources \X Nat) /\ Tail(q) # NoQueue /\ Head(q) \in Sources \X Nat
<1>1. Tail(q) \in Seq(Sources \X Nat) /\ Head(q) \in Sources \X Nat
  BY Queues
<1> QED
  BY <1>1, RawQueues

LEMMA TypeInit == Init => TypeOK
<1> SUFFICES ASSUME Init PROVE TypeOK
  OBVIOUS
<1>1. EngineTypes
  BY Numbers, Values DEF Init, EngineTypes
<1>2. SourceTypes
  BY DEF Init, SourceTypes
<1>3. QueueTypes
  BY Values DEF Init, QueueTypes
<1> QED
  BY <1>1, <1>2, <1>3 DEF TypeOK

LEMMA EngineTypesNext == EngineTypes /\ [Next]_vars => EngineTypes'
<1> SUFFICES ASSUME EngineTypes, [Next]_vars PROVE EngineTypes'
  OBVIOUS
<1> USE Values DEF EngineTypes, Goto
<1>1. CASE Begin
  BY <1>1, Numbers DEF Begin
<1>2. CASE StartPoll
  BY <1>2 DEF StartPoll
<1>3. CASE PollDone
  BY <1>3 DEF PollDone
<1>4. CASE StopAll
  BY <1>4 DEF StopAll
<1>5. CASE Final
  BY <1>5 DEF Final
<1>6. CASE TakeList
  BY <1>6 DEF TakeList
<1>7. CASE StopQueue
  BY <1>7 DEF StopQueue
<1>8. CASE Return
  BY <1>8 DEF Return
<1>9. CASE RequestStop
  BY <1>9 DEF RequestStop
<1>10. ASSUME NEW s \in Sources, StartOne(s) PROVE EngineTypes'
  BY <1>10 DEF StartOne
<1>11. ASSUME NEW s \in Sources, PollOne(s) PROVE EngineTypes'
  BY <1>11 DEF PollOne
<1>12. ASSUME NEW s \in Sources, StopOne(s) PROVE EngineTypes'
  BY <1>12 DEF StopOne
<1>13. ASSUME NEW s \in Sources, StopRequest(s) PROVE EngineTypes'
  BY <1>13 DEF StopRequest
<1>14. ASSUME NEW s \in Sources, JoinRunner(s) PROVE EngineTypes'
  BY <1>14 DEF JoinRunner
<1>15. ASSUME NEW s \in Sources, DrainRaw(s) PROVE EngineTypes'
  BY <1>15 DEF DrainRaw
<1>16. ASSUME NEW s \in Sources, JoinParser(s) PROVE EngineTypes'
  BY <1>16 DEF JoinParser
<1>17. ASSUME NEW s \in Sources, StopReset(s) PROVE EngineTypes'
  BY <1>17 DEF StopReset
<1>18. CASE UNCHANGED engineVars
  BY <1>18 DEF engineVars
<1>a. ASSUME NEW s \in Sources, worker_run(s) \/ worker_parse(s) PROVE UNCHANGED engineVars
  BY <1>a DEF worker_run, worker_parse, RunBegin, RunFails, RunData, RunTest, RunLast, RunEnd,
              ParseTake, ParseNull, ParsePut
<1>b. worker_MCA \/ UNCHANGED vars => UNCHANGED engineVars
  BY DEF worker_MCA, BuildTake, BuildNull, vars
<1> QED
  BY <1>a, <1>b, <1>1, <1>2, <1>3, <1>4, <1>5, <1>6, <1>7, <1>8, <1>9,
     <1>10, <1>11, <1>12, <1>13, <1>14, <1>15, <1>16, <1>17, <1>18
     DEF Next, EngineThread, daq_stop

(* Which steps leave the sources alone, and which the queues.                *)
LEMMA SourceFrame ==
  ASSUME \/ Begin \/ StartPoll \/ PollDone \/ StopAll \/ Final \/ TakeList
         \/ StopQueue \/ Return \/ RequestStop \/ worker_MCA \/ UNCHANGED vars
         \/ \E s \in Sources : PollOne(s) \/ StopOne(s)
  PROVE  UNCHANGED sourceVars
BY DEF Begin, StartPoll, PollDone, StopAll, Final, TakeList, StopQueue, Return,
       RequestStop, worker_MCA, BuildTake, BuildNull, vars, PollOne, StopOne

LEMMA SourceTypesNext == SourceTypes /\ [Next]_vars => SourceTypes'
<1> SUFFICES ASSUME SourceTypes, [Next]_vars PROVE SourceTypes'
  OBVIOUS
<1> USE DEF SourceTypes
<1>1. ASSUME NEW s \in Sources, StartOne(s) PROVE SourceTypes'
  <2>1. CASE run_status_[s] > 0
    BY <1>1, <2>1 DEF StartOne, daq_start, sourceVars
  <2>2. CASE ~(run_status_[s] > 0)
    <3>1. /\ run_status_' = [run_status_ EXCEPT ![s] = 1]
          /\ runner_' = [runner_ EXCEPT ![s] = "begin"]
          /\ sent' = [sent EXCEPT ![s] = 0]
          /\ \/ UNCHANGED <<raw_end, parser_>>
             \/ /\ raw_end' = [raw_end EXCEPT ![s] = FALSE]
                /\ parser_' = [parser_ EXCEPT ![s] = "dequeue"]
      BY <1>1, <2>2 DEF StartOne, daq_start
    <3>2. run_status_' \in [Sources -> 0..3]
      BY <3>1
    <3>3. sent' \in [Sources -> Nat]
      BY <3>1
    <3>4. /\ runner_' \in [Sources -> {"none", "begin", "test", "data", "last", "store", "dead"}]
      BY <3>1
    <3>5. /\ parser_' \in [Sources -> {"none", "dequeue", "enqueue", "dead"}]
          /\ raw_end' \in [Sources -> BOOLEAN]
      BY <3>1
    <3> QED
      BY <3>2, <3>3, <3>4, <3>5
  <2> QED
    BY <2>1, <2>2
<1>2. ASSUME NEW s \in Sources, StopRequest(s) PROVE SourceTypes'
  BY <1>2 DEF StopRequest
<1>3. ASSUME NEW s \in Sources, JoinRunner(s) PROVE SourceTypes'
  BY <1>3 DEF JoinRunner
<1>4. ASSUME NEW s \in Sources, DrainRaw(s) PROVE SourceTypes'
  BY <1>4 DEF DrainRaw, sourceVars
<1>5. ASSUME NEW s \in Sources, JoinParser(s) PROVE SourceTypes'
  BY <1>5 DEF JoinParser
<1>6. ASSUME NEW s \in Sources, StopReset(s) PROVE SourceTypes'
  BY <1>6 DEF StopReset
<1>7. ASSUME NEW s \in Sources, RunBegin(s) PROVE SourceTypes'
  BY <1>7 DEF RunBegin, Runner, Send
<1>8. ASSUME NEW s \in Sources, RunFails(s) PROVE SourceTypes'
  BY <1>8 DEF RunFails, Runner
<1>9. ASSUME NEW s \in Sources, RunData(s) PROVE SourceTypes'
  BY <1>9 DEF RunData, Runner, Send
<1>10. ASSUME NEW s \in Sources, RunTest(s) PROVE SourceTypes'
  BY <1>10 DEF RunTest, Runner
<1>11. ASSUME NEW s \in Sources, RunLast(s) PROVE SourceTypes'
  BY <1>11 DEF RunLast, Runner, Send
<1>12. ASSUME NEW s \in Sources, RunEnd(s) PROVE SourceTypes'
  BY <1>12 DEF RunEnd, Runner
<1>13. ASSUME NEW s \in Sources, ParseTake(s) PROVE SourceTypes'
  BY <1>13 DEF ParseTake, Parser
<1>14. ASSUME NEW s \in Sources, ParseNull(s) PROVE SourceTypes'
  BY <1>14 DEF ParseNull, Parser
<1>15. ASSUME NEW s \in Sources, ParsePut(s) PROVE SourceTypes'
  BY <1>15 DEF ParsePut, Parser
<1>16. CASE UNCHANGED sourceVars
  BY <1>16 DEF sourceVars
<1> QED
  BY SourceFrame, <1>1, <1>2, <1>3, <1>4, <1>5, <1>6, <1>7, <1>8, <1>9,
     <1>10, <1>11, <1>12, <1>13, <1>14, <1>15, <1>16
     DEF Next, EngineThread, daq_stop, worker_run, worker_parse

LEMMA QueueTypesNext ==
  ASSUME QueueTypes, SourceTypes, ThreadInv, [Next]_vars
  PROVE  QueueTypes'
<1> USE DEF QueueTypes
<1>1. CASE Begin
  BY <1>1, Values DEF Begin, sourceVars
<1>2. CASE StopQueue
  BY <1>2 DEF StopQueue, sourceVars
<1>3. CASE Return
  BY <1>3 DEF Return, sourceVars
<1>4. CASE Final
  BY <1>4, Values, Queues DEF Final, sourceVars
<1>5. CASE TakeList
  BY <1>5, Queues DEF TakeList, sourceVars
<1>6. CASE BuildTake
  BY <1>6, Queues DEF BuildTake, sourceVars
<1>7. CASE BuildNull
  BY <1>7 DEF BuildNull, sourceVars
<1>8. ASSUME NEW s \in Sources, StartOne(s) PROVE QueueTypes'
  BY <1>8, Values DEF StartOne, daq_start, sourceVars, queueVars
<1>9. ASSUME NEW s \in Sources, JoinParser(s) PROVE QueueTypes'
  BY <1>9 DEF JoinParser, queueVars
<1>10. ASSUME NEW s \in Sources, Send(s), runner_[s] # "none", UNCHANGED parsing PROVE QueueTypes'
  <2>1. sent'[s] \in Nat /\ <<s, sent'[s]>> \in Sources \X Nat
    BY <1>10 DEF Send, SourceTypes
  <2>2. CASE s \in Buffered
    <3>0. ~Idle(s) /\ ~RunnerJoined(s)
      BY <1>10 DEF ThreadInv
    <3>1. raw_queue_[s] # NoQueue
      BY <2>2, <3>0 DEF ThreadInv, ParserJoined, RunnerJoined
    <3>2. Append(raw_queue_[s], <<s, sent'[s]>>) \in Seq(Sources \X Nat)
      BY <2>1, <3>1, Queues
    <3> QED
      BY <1>10, <2>2, <3>2 DEF Send
  <2>3. CASE s \notin Buffered
    <3>1. Append(parsedQueue, <<s, sent'[s]>>) \in Seq(Spills)
      BY <2>1, Values, Queues
    <3> QED
      BY <1>10, <2>3, <3>1 DEF Send
  <2> QED
    BY <2>2, <2>3
<1>11. ASSUME NEW s \in Sources, ParseTake(s) PROVE QueueTypes'
  <2>1. raw_queue_[s] \in Seq(Sources \X Nat) /\ raw_queue_[s] # <<>>
    BY <1>11 DEF ParseTake, Parser, ThreadInv
  <2>2. Head(raw_queue_[s]) \in Sources \X Nat /\ Tail(raw_queue_[s]) \in Seq(Sources \X Nat)
    BY <2>1, Queues
  <2> QED
    BY <1>11, <2>2 DEF ParseTake, queueVars
<1>12. ASSUME NEW s \in Sources, ParsePut(s) PROVE QueueTypes'
  <2>1. parsing[s] \in Spills
    BY <1>12, Values DEF ParsePut, Parser, ThreadInv
  <2>2. Append(parsedQueue, parsing[s]) \in Seq(Spills)
    BY <2>1, Queues
  <2> QED
    BY <1>12, <2>2 DEF ParsePut
<1>a. CASE UNCHANGED <<queueVars, raw_queue_, parsing>>
  BY <1>a DEF queueVars
<1>b. ASSUME StartPoll \/ PollDone \/ StopAll \/ RequestStop \/ UNCHANGED vars
             \/ \E s \in Sources : \/ PollOne(s) \/ StopOne(s)
                                   \/ StopRequest(s) \/ JoinRunner(s) \/ DrainRaw(s)
                                   \/ StopReset(s) \/ RunFails(s) \/ RunTest(s)
                                   \/ RunEnd(s) \/ ParseNull(s)
      PROVE UNCHANGED <<queueVars, raw_queue_, parsing>>
  BY <1>b DEF StartPoll, PollDone, StopAll, RequestStop, PollOne, StopOne, StopRequest,
     JoinRunner, DrainRaw, StopReset, RunFails, RunTest, RunEnd, ParseNull, vars, sourceVars
<1>c. ASSUME NEW s \in Sources, RunBegin(s) \/ RunData(s) \/ RunLast(s)
      PROVE Send(s) /\ runner_[s] # "none" /\ UNCHANGED parsing
  BY <1>c DEF RunBegin, RunData, RunLast, Runner
<1> QED
  BY <1>a, <1>b, <1>c, <1>1, <1>2, <1>3, <1>4, <1>5, <1>6, <1>7, <1>8, <1>9,
     <1>10, <1>11, <1>12
     DEF Next, EngineThread, daq_stop, worker_MCA, worker_run, worker_parse

-----------------------------------------------------------------------------
(* Control                                                                 *)

(* Only the loop of daq_start(), which takes it from todo, starts a source.  *)
LEMMA IdleStays ==
  ASSUME SourceTypes, ThreadInv, NEW s \in Sources, Idle(s), [Next]_vars, UNCHANGED todo
  PROVE  Idle(s)'
<1> USE DEF SourceTypes, Idle
<1>1. CASE UNCHANGED run_status_
  BY <1>1
<1>2. ASSUME NEW r \in Sources, StartOne(r) PROVE run_status_'[s] = 0
  BY <1>2 DEF StartOne
<1>3. ASSUME NEW r \in Sources, StopRequest(r) PROVE run_status_'[s] = 0
  BY <1>3 DEF StopRequest
<1>4. ASSUME NEW r \in Sources, StopReset(r) PROVE run_status_'[s] = 0
  BY <1>4 DEF StopReset
<1>5. ASSUME NEW r \in Sources, RunEnd(r) PROVE run_status_'[s] = 0
  <2>1. r # s
    BY <1>5 DEF RunEnd, Runner, ThreadInv
  <2> QED
    BY <1>5, <2>1 DEF RunEnd
<1>a. ASSUME \/ Begin \/ StartPoll \/ PollDone \/ StopAll \/ Final \/ TakeList
             \/ StopQueue \/ Return \/ RequestStop \/ worker_MCA \/ UNCHANGED vars
             \/ \E r \in Sources : PollOne(r) \/ StopOne(r)
      PROVE  UNCHANGED run_status_
  BY <1>a, SourceFrame DEF sourceVars
<1>b. ASSUME NEW r \in Sources,
             \/ JoinRunner(r) \/ DrainRaw(r) \/ JoinParser(r) \/ RunBegin(r) \/ RunFails(r)
             \/ RunData(r) \/ RunTest(r) \/ RunLast(r) \/ worker_parse(r)
      PROVE  UNCHANGED run_status_
  BY <1>b DEF JoinRunner, DrainRaw, JoinParser, RunBegin, RunFails, RunData, RunTest,
     RunLast, worker_parse, ParseTake, ParseNull, ParsePut
<1> QED
  BY <1>1, <1>2, <1>3, <1>4, <1>5, <1>a, <1>b
     DEF Next, EngineThread, daq_stop, worker_run

LEMMA PhaseNext == ASSUME ControlInv, [Next]_vars PROVE PhaseInv'
<1> USE DEF ControlInv, PhaseInv, TypeOK, EngineTypes, Goto
<1>1. CASE Begin
  <2>1. \A s \in Sources : Idle(s)'
    BY <1>1 DEF Begin, sourceVars, Idle
  <2> QED
    BY <1>1, <2>1 DEF Begin
<1>2. CASE StartPoll
  BY <1>2 DEF StartPoll, sourceVars, queueVars
<1>3. CASE PollDone
  BY <1>3 DEF PollDone, sourceVars, queueVars, Idle
<1>4. CASE StopAll
  BY <1>4 DEF StopAll, sourceVars, queueVars
<1>5. CASE Final
  BY <1>5 DEF Final, sourceVars, Idle
<1>6. CASE TakeList
  BY <1>6 DEF TakeList, sourceVars, Idle
<1>7. CASE StopQueue
  BY <1>7 DEF StopQueue, sourceVars, Idle
<1>8. CASE Return
  BY <1>8 DEF Return, sourceVars, Idle
<1>9. CASE RequestStop
  BY <1>9 DEF RequestStop, sourceVars, queueVars, Idle
<1>10. CASE BuildTake \/ BuildNull
  BY <1>10 DEF BuildTake, BuildNull, engineVars, sourceVars, Idle
<1>11. ASSUME NEW s \in Sources, StartOne(s) PROVE PhaseInv'
  <2>1. \A r \in Sources \ {s} : Idle(r) => Idle(r)'
    BY <1>11 DEF StartOne, daq_start, sourceVars, Idle, SourceTypes
  <2> QED
    BY <1>11, <2>1 DEF StartOne, queueVars
<1>12. ASSUME NEW s \in Sources, PollOne(s) PROVE PhaseInv'
  <2>1. /\ pc = "poll" /\ UNCHANGED <<pc, runs, builder, parsedQueue>>
        /\ \A r \in Sources : Idle(r)' <=> Idle(r)
    BY <1>12 DEF PollOne, sourceVars, queueVars, Idle
  <2>2. CASE UNCHANGED <<todo, running>>
    BY <2>1, <2>2
  <2>3. CASE todo' = todo \ {s} /\ running' = (running \/ run_status_[s] > 0)
    <3>1. ~running' => ~running /\ Idle(s)
      <4>1. ~running' => ~running /\ ~(run_status_[s] > 0)
        BY <2>3
      <4>2. ~(run_status_[s] > 0) => Idle(s)
        BY DEF SourceTypes, Idle
      <4> QED
        BY <4>1, <4>2
    <3> QED
      BY <2>1, <2>3, <3>1
  <2> QED
    BY <1>12, <2>2, <2>3 DEF PollOne
<1>13. ASSUME NEW s \in Sources, StopOne(s) PROVE PhaseInv'
  BY <1>13 DEF StopOne, sourceVars, queueVars
<1>14. ASSUME UNCHANGED <<pc, todo, running, runs, builder>>,
              \A s \in Sources : Idle(s) => Idle(s)',
              pc \in {"join", "idle"} => parsedQueue' = parsedQueue
       PROVE  PhaseInv'
  BY <1>14
<1>15. ASSUME NEW s \in Sources, daq_stop(s) \/ worker_run(s) \/ worker_parse(s)
       PROVE  PhaseInv'
  <2>1. UNCHANGED <<pc, todo, running, runs, builder>>
    BY <1>15 DEF daq_stop, StopRequest, JoinRunner, DrainRaw, JoinParser, StopReset,
       worker_run, RunBegin, RunFails, RunData, RunTest, RunLast, RunEnd, Send,
       worker_parse, ParseTake, ParseNull, ParsePut, engineVars, queueVars
  <2>2. \A r \in Sources : Idle(r) => Idle(r)'
    BY <2>1, IdleStays
  <2>3. pc \in {"join", "idle"} => parsedQueue' = parsedQueue
    <3>1. CASE worker_run(s) \/ worker_parse(s)
      BY <1>15, <3>1 DEF worker_run, RunBegin, RunFails, RunData, RunTest, RunLast, RunEnd,
         Runner, worker_parse, ParseTake, ParseNull, ParsePut, Parser, ThreadInv, queueVars
    <3>2. CASE daq_stop(s)
      BY <1>15, <3>2 DEF daq_stop, StopRequest, JoinRunner, DrainRaw, JoinParser, StopReset,
         queueVars
    <3> QED
      BY <1>15, <3>1, <3>2
  <2> QED
    BY <1>14, <2>1, <2>2, <2>3
<1>16. CASE UNCHANGED vars
  BY <1>16 DEF vars, engineVars, sourceVars, queueVars, Idle
<1> QED
  BY <1>1, <1>2, <1>3, <1>4, <1>5, <1>6, <1>7, <1>8, <1>9, <1>10, <1>11, <1>12, <1>13,
     <1>15, <1>16
     DEF Next, EngineThread, worker_MCA

LEMMA CallNext == ASSUME ControlInv, [Next]_vars PROVE CallInv'
<1> USE DEF ControlInv, CallInv, InCall, RunnerJoined, Idle
<1>1. CASE UNCHANGED <<call, run_status_, raw_queue_>> /\ (call = NoCall \/ UNCHANGED pc)
  BY <1>1 DEF NoCall
<1>2. ASSUME \/ Begin \/ StartPoll \/ PollDone \/ StopAll \/ Final \/ TakeList
             \/ StopQueue \/ Return \/ RequestStop \/ worker_MCA \/ UNCHANGED vars
      PROVE  UNCHANGED <<call, run_status_, raw_queue_>> /\ (call = NoCall \/ UNCHANGED pc)
  BY <1>2 DEF Begin, StartPoll, PollDone, StopAll, Final, TakeList, StopQueue, Return,
     RequestStop, worker_MCA, BuildTake, BuildNull, Goto, vars, engineVars, sourceVars
<1>3. ASSUME NEW r \in Sources, StartOne(r) PROVE CallInv'
  <2>1. call = NoCall /\ UNCHANGED <<call, pc>>
    BY <1>3 DEF StartOne, PhaseInv
  <2> QED
    BY <2>1 DEF NoCall
<1>4. ASSUME NEW r \in Sources, PollOne(r) PROVE CallInv'
  BY <1>4 DEF PollOne, sourceVars, NoCall
<1>5. ASSUME NEW r \in Sources, StopOne(r) PROVE CallInv'
  BY <1>5 DEF StopOne, sourceVars, NoCall
<1>6. ASSUME NEW r \in Sources, StopRequest(r) PROVE CallInv'
  BY <1>6 DEF StopRequest, NoCall, TypeOK, SourceTypes
<1>7. ASSUME NEW r \in Sources, JoinRunner(r) PROVE CallInv'
  BY <1>7 DEF JoinRunner, NoCall
<1>8. ASSUME NEW r \in Sources, DrainRaw(r) PROVE CallInv'
  BY <1>8 DEF DrainRaw, NoCall
<1>9. ASSUME NEW r \in Sources, JoinParser(r) PROVE CallInv'
  BY <1>9 DEF JoinParser, NoCall
<1>10. ASSUME NEW r \in Sources, StopReset(r) PROVE CallInv'
  BY <1>10 DEF StopReset, NoCall
<1>11. ASSUME NEW r \in Sources, worker_run(r) \/ worker_parse(r) PROVE CallInv'
  <2>1. UNCHANGED <<call, pc, todo>>
    BY <1>11 DEF worker_run, RunBegin, RunFails, RunData, RunTest, RunLast, RunEnd,
       worker_parse, ParseTake, ParseNull, ParsePut, engineVars
  <2>2. \A s \in Sources : ~Idle(s) => ~Idle(s)'
    BY <1>11 DEF worker_run, RunBegin, RunFails, RunData, RunTest, RunLast, RunEnd,
       worker_parse, ParseTake, ParseNull, ParsePut, TypeOK, SourceTypes
  <2>3. ASSUME NEW s \in Sources, InCall(s, "parser") PROVE raw_queue_'[s] = <<>>
    <3>1. runner_[s] = "none" /\ raw_queue_[s] = <<>>
      BY <2>3 DEF ThreadInv
    <3>2. CASE worker_run(r)
      BY <3>1, <3>2 DEF worker_run, RunBegin, RunFails, RunData, RunTest, RunLast, RunEnd, Runner,
         Send, TypeOK, QueueTypes
    <3>3. CASE worker_parse(r)
      BY <3>1, <3>3 DEF worker_parse, ParseTake, ParseNull, ParsePut, TypeOK, QueueTypes
    <3> QED
      BY <1>11, <3>2, <3>3
  <2> QED
    BY <2>1, <2>2, <2>3
<1> QED
  BY <1>1, <1>2, <1>3, <1>4, <1>5, <1>6, <1>7, <1>8, <1>9, <1>10, <1>11
     DEF Next, EngineThread, daq_stop

LEMMA ThreadNext == ASSUME ControlInv, [Next]_vars PROVE ThreadInv'
<1> USE DEF ControlInv, TypeOK, SourceTypes, QueueTypes
<1> DEFINE Threads(s) ==
      /\ runner_[s] = "none" <=> Idle(s) \/ RunnerJoined(s)
      /\ parser_[s] = "none" <=> Idle(s) \/ ParserJoined(s)
      /\ raw_queue_[s] = NoQueue <=> Idle(s) \/ ParserJoined(s)
      /\ parser_[s] = "enqueue" => parsing[s] \in Sources \X Nat
      /\ parser_[s] = "dead" => raw_end[s]
      /\ raw_end[s] => parser_[s] = "none" \/ InCall(s, "parser")
<1>0. \A s \in Sources : Threads(s)
  BY DEF ThreadInv
<1> SUFFICES ASSUME NEW s \in Sources PROVE Threads(s)'
  BY DEF ThreadInv
<1> USE DEF Idle, RunnerJoined, ParserJoined, InCall
<1>1. CASE UNCHANGED <<call, sourceVars>>
  BY <1>0, <1>1 DEF sourceVars
<1>2. ASSUME \/ Begin \/ StartPoll \/ PollDone \/ StopAll \/ Final \/ TakeList
             \/ StopQueue \/ Return \/ RequestStop \/ worker_MCA \/ UNCHANGED vars
      PROVE  UNCHANGED <<call, sourceVars>>
  BY <1>2 DEF Begin, StartPoll, PollDone, StopAll, Final, TakeList, StopQueue, Return,
     RequestStop, worker_MCA, BuildTake, BuildNull, vars, engineVars
<1>3. ASSUME NEW r \in Sources, StartOne(r) PROVE Threads(s)'
  <2>1. call = NoCall /\ UNCHANGED call /\ run_status_[r] = 0
    BY <1>3 DEF StartOne, PhaseInv, CallInv
  <2>2. CASE s = r
    BY <1>0, <1>3, <2>1, <2>2, RawQueues DEF StartOne, daq_start, NoCall
  <2>3. CASE s # r
    BY <1>0, <1>3, <2>1, <2>3 DEF StartOne, daq_start, NoCall
  <2> QED
    BY <2>2, <2>3
<1>4. ASSUME NEW r \in Sources, PollOne(r) \/ StopOne(r) PROVE Threads(s)'
  BY <1>0, <1>4 DEF PollOne, StopOne, sourceVars, NoCall
<1>5. ASSUME NEW r \in Sources, StopRequest(r) PROVE Threads(s)'
  BY <1>0, <1>5 DEF StopRequest, NoCall
<1>6. ASSUME NEW r \in Sources, JoinRunner(r) PROVE Threads(s)'
  BY <1>0, <1>6 DEF JoinRunner, CallInv
<1>7. ASSUME NEW r \in Sources, DrainRaw(r) PROVE Threads(s)'
  BY <1>0, <1>7 DEF DrainRaw, CallInv
<1>8. ASSUME NEW r \in Sources, JoinParser(r) PROVE Threads(s)'
  BY <1>0, <1>8 DEF JoinParser, CallInv
<1>9. ASSUME NEW r \in Sources, StopReset(r) PROVE Threads(s)'
  BY <1>0, <1>9 DEF StopReset, CallInv, NoCall
<1>10. ASSUME NEW r \in Sources, Send(r), runner_[r] # "none", runner_'[r] # "none",
              \A q \in Sources \ {r} : runner_'[q] = runner_[q],
              UNCHANGED <<call, run_status_, parser_, raw_end, parsing>>
       PROVE  Threads(s)'
  <2>1. raw_queue_'[s] = NoQueue <=> raw_queue_[s] = NoQueue
    <3>1. CASE s = r /\ r \in Buffered
      <4>1. raw_queue_[r] \in Seq(Sources \X Nat)
        BY <1>0, <1>10, <3>1
      <4>2. <<r, sent'[r]>> \in Sources \X Nat
        BY <1>10 DEF Send
      <4>3. Append(raw_queue_[r], <<r, sent'[r]>>) \in Seq(Sources \X Nat)
        BY <4>1, <4>2, Queues
      <4> QED
        BY <1>10, <3>1, <4>1, <4>3, RawQueues DEF Send
    <3>2. CASE ~(s = r /\ r \in Buffered)
      BY <1>10, <3>2 DEF Send
    <3> QED
      BY <3>1, <3>2
  <2> QED
    BY <1>0, <1>10, <2>1
<1>11. ASSUME NEW r \in Sources, RunBegin(r) \/ RunData(r) \/ RunLast(r) PROVE Threads(s)'
  BY <1>10, <1>11 DEF RunBegin, RunData, RunLast, Runner, engineVars
<1>12. ASSUME NEW r \in Sources, RunFails(r) \/ RunTest(r) \/ RunEnd(r) PROVE Threads(s)'
  BY <1>0, <1>12 DEF RunFails, RunTest, RunEnd, Runner, engineVars
<1>13. ASSUME NEW r \in Sources, ParseTake(r) PROVE Threads(s)'
  <2>1. raw_queue_[r] \in Seq(Sources \X Nat) /\ raw_queue_[r] # <<>>
    BY <1>13 DEF ParseTake, Parser, ThreadInv
  <2>2. /\ Tail(raw_queue_[r]) \in Seq(Sources \X Nat) /\ Tail(raw_queue_[r]) # NoQueue
        /\ Head(raw_queue_[r]) \in Sources \X Nat
    BY <2>1, RawTaken
  <2>3. raw_queue_'[s] = NoQueue <=> raw_queue_[s] = NoQueue
    BY <1>13, <2>1, <2>2, RawQueues DEF ParseTake
  <2> QED
    BY <1>0, <1>13, <2>2, <2>3 DEF ParseTake, Parser, engineVars
<1>14. ASSUME NEW r \in Sources, ParseNull(r) PROVE Threads(s)'
  BY <1>0, <1>14 DEF ParseNull, Parser, engineVars
<1>15. ASSUME NEW r \in Sources, ParsePut(r) PROVE Threads(s)'
  BY <1>0, <1>15 DEF ParsePut, Parser, engineVars
<1> QED
  BY <1>1, <1>2, <1>3, <1>4, <1>5, <1>6, <1>7, <1>8, <1>9, <1>11, <1>12, <1>13, <1>14, <1>15
     DEF Next, EngineThread, daq_stop, worker_run, worker_parse

-----------------------------------------------------------------------------
LEMMA ControlInvariance == Spec => []ControlInv
<1>1. Init => ControlInv
  <2> SUFFICES ASSUME Init PROVE ControlInv
    OBVIOUS
  <2>1. TypeOK
    BY TypeInit
  <2>2. PhaseInv /\ CallInv
    BY Values DEF Init, PhaseInv, CallInv, Idle, InCall, RunnerJoined
  <2>3. ThreadInv
    BY DEF Init, ThreadInv, Idle, InCall, NoCall
  <2> QED
    BY <2>1, <2>2, <2>3 DEF ControlInv
<1>2. ControlInv /\ [Next]_vars => ControlInv'
  BY EngineTypesNext, SourceTypesNext, QueueTypesNext, PhaseNext, CallNext, ThreadNext
     DEF ControlInv, TypeOK
<1> QED
  BY <1>1, <1>2, PTL DEF Spec

(* Every variable keeps its type: in particular an enqueue meets a raw queue *)
(* that is there, and what a parser thread puts is what it took.             *)
THEOREM TypeCorrect == Spec => []TypeOK
<1>1. ControlInv => TypeOK
  BY DEF ControlInv
<1> QED
  BY <1>1, ControlInvariance, PTL

(* getMca() and getList() return after every thread that uses their queue    *)
(* has been joined, however many sources there are and whoever ended it.     *)
THEOREM CallOutlivesThreads == Spec => []NoThreadOutlivesCall
<1>1. ControlInv => NoThreadOutlivesCall
  BY DEF ControlInv, PhaseInv, ThreadInv, NoThreadOutlivesCall
<1> QED
  BY <1>1, ControlInvariance, PTL

(* No thread of a source uses a raw queue that was deleted, and daq_start()  *)
(* overwrites no thread and no queue.                                        *)
THEOREM RawQueueIsThere == Spec => []RawQueueOutlivesThreads
<1>1. ControlInv => RawQueueOutlivesThreads
  BY DEF ControlInv, ThreadInv, RawQueueOutlivesThreads, Idle, RunnerJoined, ParserJoined
<1> QED
  BY <1>1, ControlInvariance, PTL

-----------------------------------------------------------------------------
(* Data                                                                    *)

(* One more spill, of the source or of another one, at the end.              *)
LEMMA InTurnAppend ==
  ASSUME NEW s, NEW q \in Seq(Spills), NEW n \in Nat, NEW x \in Spills, InTurn(s, q, n)
  PROVE  /\ x = <<s, n + 1>> => InTurn(s, Append(q, x), n + 1)
         /\ x[1] # s => InTurn(s, Append(q, x), n)
<1> DEFINE qx == Append(q, x)
<1>1. /\ DOMAIN q = 1 .. Len(q) /\ DOMAIN qx = 1 .. Len(q) + 1 /\ Len(q) \in Nat
      /\ \A i \in 1 .. Len(q) : qx[i] = q[i]
      /\ qx[Len(q) + 1] = x
  BY AppendProperties, LenProperties
<1> HIDE DEF qx
<1>2. ASSUME x = <<s, n + 1>> PROVE InTurn(s, qx, n + 1)
  <2>1. From(s, qx) = From(s, q) \cup {Len(q) + 1}
    BY <1>1, <1>2 DEF From
  <2>2. /\ \A i \in From(s, q) : i \in Nat /\ i < Len(q) + 1 /\ qx[i] = q[i]
        /\ \A i \in From(s, q) : q[i][2] \in Nat /\ q[i][2] < n + 1
    <3>1. \A i \in From(s, q) : q[i][2] \in 1 .. n
      BY DEF InTurn
    <3> QED
      BY <1>1, <3>1 DEF From
  <2>3. {qx[i][2] : i \in From(s, qx)} = {q[i][2] : i \in From(s, q)} \cup {n + 1}
    BY <1>1, <1>2, <2>1, <2>2
  <2>4. {qx[i][2] : i \in From(s, qx)} = 1 .. n + 1
    <3>1. 1 .. n + 1 = (1 .. n) \cup {n + 1}
      OBVIOUS
    <3> QED
      BY <2>3, <3>1 DEF InTurn
  <2>5. \A i, j \in From(s, qx) : i < j => qx[i][2] < qx[j][2]
    <3> SUFFICES ASSUME NEW i \in From(s, qx), NEW j \in From(s, qx), i < j
                 PROVE  qx[i][2] < qx[j][2]
      OBVIOUS
    <3>1. i \in From(s, q)
      BY <1>1, <2>1, <2>2
    <3>2. CASE j \in From(s, q)
      BY <2>2, <3>1, <3>2 DEF InTurn
    <3>3. CASE j = Len(q) + 1
      <4>1. qx[j] = <<s, n + 1>>
        BY <1>1, <1>2, <3>3
      <4> QED
        BY <2>2, <3>1, <4>1
    <3> QED
      BY <2>1, <3>2, <3>3
  <2> QED
    BY <2>4, <2>5 DEF InTurn
<1>3. ASSUME x[1] # s PROVE InTurn(s, qx, n)
  <2>1. From(s, qx) = From(s, q) /\ \A i \in From(s, q) : qx[i] = q[i]
    BY <1>1, <1>3 DEF From
  <2> QED
    BY <2>1 DEF InTurn
<1> QED
  BY <1>2, <1>3 DEF qx

(* Moving the front of the queue to the result leaves the stream as it is,   *)
(* and what is put into the queue comes to its end.                          *)
LEMMA StreamMoves ==
  ASSUME NEW S, NEW r \in Seq(S), NEW q \in Seq(S)
  PROVE  /\ r \o q \in Seq(S) /\ Len(r \o q) = Len(r) + Len(q)
         /\ q # <<>> => Append(r, Head(q)) \o Tail(q) = r \o q
         /\ \A x \in S : r \o Append(q, x) = Append(r \o q, x)
<1>1. r \o q \in Seq(S) /\ Len(r \o q) = Len(r) + Len(q)
  BY ConcatProperties
<1>2. ASSUME q # <<>> PROVE Append(r, Head(q)) \o Tail(q) = r \o q
  <2>1. Head(q) \in S /\ Tail(q) \in Seq(S) /\ q = <<Head(q)>> \o Tail(q)
    BY <1>2
  <2>2. Append(r, Head(q)) = r \o <<Head(q)>>
    BY <2>1, AppendIsConcat
  <2>3. (r \o <<Head(q)>>) \o Tail(q) = r \o (<<Head(q)>> \o Tail(q))
    BY <2>1, ConcatAssociative
  <2> QED
    BY <2>1, <2>2, <2>3
<1>3. ASSUME NEW x \in S PROVE r \o Append(q, x) = Append(r \o q, x)
  <2>1. Append(q, x) = q \o <<x>> /\ Append(r \o q, x) = (r \o q) \o <<x>>
    BY <1>1, AppendIsConcat
  <2> QED
    BY <2>1, ConcatAssociative
<1> QED
  BY <1>1, <1>2, <1>3

(* A spill that is put into the engine's queue.                              *)
LEMMA StreamGrows ==
  ASSUME QueueTypes, NEW x \in Spills, parsedQueue' = Append(parsedQueue, x),
         UNCHANGED result
  PROVE  Stream' = Append(Stream, x)
BY StreamMoves DEF QueueTypes, Stream

LEMMA StreamStays ==
  ASSUME QueueTypes, parsedQueue # <<>>, parsedQueue' = Tail(parsedQueue),
         result' = Append(result, Head(parsedQueue))
  PROVE  Stream' = Stream
BY StreamMoves DEF QueueTypes, Stream

-----------------------------------------------------------------------------
(* What one source has on its way stays as it is.                            *)
Kept(s) ==
  /\ Made(s)' = Made(s) /\ Held(s)' = Held(s) /\ Raw(s)' = Raw(s)
  /\ parsing'[s] = parsing[s] \/ parser_'[s] # "enqueue"

(* After the closing settings nothing comes to the engine's queue.           *)
LEMMA Closed ==
  ASSUME ControlInv, pc \in {"drain", "join", "idle"}, NEW s \in Sources
  PROVE  runner_[s] = "none" /\ parser_[s] = "none" /\ raw_queue_[s] = NoQueue
BY DEF ControlInv, PhaseInv, ThreadInv, Idle

(* Nothing is delivered, and no source sends.                                *)
LEMMA Quiet ==
  ASSUME DataInv, UNCHANGED <<Stream, runs>>, \A s \in Sources : Kept(s),
         pc' \in {"drain", "join", "idle"} => pc \in {"drain", "join", "idle"}
  PROVE  DataInv'
<1>1. ASSUME NEW s \in Sources
      PROVE  /\ Passed(s)' = Passed(s) /\ Held(s)' = Held(s) /\ Raw(s)' = Raw(s)
             /\ parser_'[s] = "enqueue" => parser_[s] = "enqueue" /\ parsing'[s] = parsing[s]
  <2>1. parser_'[s] = "enqueue" <=> parser_[s] = "enqueue"
    BY DEF Kept, Held
  <2> QED
    BY <2>1 DEF Kept, Passed
<1>2. RawInv'
  BY <1>1 DEF DataInv, RawInv
<1>3. StreamInv'
  BY <1>1 DEF DataInv, StreamInv
<1> QED
  BY <1>2, <1>3 DEF DataInv

(* A source delivers the next of its spills.                                 *)
LEMMA Delivers ==
  ASSUME QueueTypes, DataInv, NEW r \in Sources, UNCHANGED <<runs, pc>>,
         pc \notin {"drain", "join", "idle"},
         Passed(r)' = Passed(r) + 1,
         Stream' = Append(Stream, <<r, Passed(r) + 1>>),
         \A s \in Sources \ {r} : Kept(s)
  PROVE  StreamInv'
<1> SUFFICES ASSUME runs > 0 PROVE StreamInv'
  BY DEF StreamInv
<1>1. Stream \in Seq(Spills) /\ <<r, Passed(r) + 1>> \in Spills
  <2>1. Passed(r) \in Nat
    BY DEF DataInv, RawInv
  <2>2. <<r, Passed(r) + 1>> \in Spills
    BY <2>1, Values
  <2> QED
    BY <2>2, StreamMoves DEF QueueTypes, Stream
<1>2. /\ Len(Stream) > 0 /\ Stream[1] = <<Engine, 1>>
      /\ \A s \in Sources : InTurn(s, Stream, Passed(s)) /\ Passed(s) \in Nat
  BY DEF DataInv, RawInv, StreamInv
<1>3. Len(Stream)' > 0 /\ Stream'[1] = <<Engine, 1>>
  BY <1>1, <1>2, AppendProperties
<1>4. ASSUME NEW s \in Sources PROVE InTurn(s, Stream', Passed(s)')
  <2>1. CASE s = r
    BY <1>1, <1>2, <2>1, InTurnAppend
  <2>2. CASE s # r
    <3>1. Passed(s)' = Passed(s)
      BY <2>2 DEF Kept, Passed
    <3>2. <<r, Passed(r) + 1>>[1] # s
      BY <2>2
    <3>3. InTurn(s, Append(Stream, <<r, Passed(r) + 1>>), Passed(s))
      BY <1>1, <1>2, <3>2, InTurnAppend
    <3> QED
      BY <3>1, <3>3
  <2> QED
    BY <2>1, <2>2
<1> QED
  BY <1>3, <1>4 DEF StreamInv

(* The steps that touch neither a spill nor a source.                        *)
LEMMA DataQuiet ==
  ASSUME ControlInv, DataInv,
         \/ StartPoll \/ PollDone \/ StopAll \/ StopQueue \/ Return \/ RequestStop
         \/ BuildNull \/ TakeList \/ BuildTake \/ UNCHANGED vars
         \/ \E s \in Sources : PollOne(s) \/ StopOne(s)
  PROVE  DataInv'
<1> USE DEF ControlInv, TypeOK, EngineTypes, SourceTypes, QueueTypes
<1>1. UNCHANGED sourceVars
  BY SourceFrame DEF worker_MCA
<1>2. UNCHANGED <<Stream, runs>>
  <2>1. CASE TakeList \/ BuildTake
    BY <2>1, StreamStays DEF TakeList, BuildTake, engineVars
  <2>2. CASE ~(TakeList \/ BuildTake)
    BY <2>2 DEF StartPoll, PollDone, StopAll, StopQueue, Return, RequestStop, BuildNull,
       PollOne, StopOne, Goto, Stream, vars, engineVars, queueVars
  <2> QED
    BY <2>1, <2>2
<1>3. /\ pc' \in {"drain", "join", "idle"} => pc \in {"drain", "join", "idle"}
      /\ \A s \in Sources : pc' = "start" /\ s \in todo' <=> pc = "start" /\ s \in todo
  BY DEF StartPoll, PollDone, StopAll, StopQueue, Return, RequestStop, BuildNull, TakeList,
     BuildTake, PollOne, StopOne, Goto, vars, engineVars
<1>4. \A s \in Sources : Kept(s)
  BY <1>1, <1>3 DEF Kept, Made, Held, Raw, sourceVars
<1> QED
  BY <1>2, <1>3, <1>4, Quiet

(* A new acquisition begins with the settings alone.                         *)
LEMMA DataBegin == ASSUME ControlInv, Begin PROVE DataInv'
<1> USE DEF ControlInv, TypeOK, QueueTypes
<1>1. /\ pc = "idle" /\ pc' = "start" /\ todo' = Sources /\ UNCHANGED sourceVars
      /\ Stream' = <<<<Engine, 1>>>>
  <2>1. CASE mode' = "mca"
    BY <2>1, Values, ConcatEmptySeq DEF Begin, Goto, Stream
  <2>2. CASE mode' = "list"
    BY <2>2, Values, ConcatEmptySeq DEF Begin, Goto, Stream
  <2> QED
    BY <2>1, <2>2 DEF Begin, Goto
<1>2. ASSUME NEW s \in Sources
      PROVE  /\ Passed(s)' = 0 /\ Held(s)' = 0 /\ Raw(s)' = <<>> /\ parser_'[s] = "none"
             /\ From(s, Stream') = {}
  <2>1. parser_'[s] = "none" /\ raw_queue_'[s] = NoQueue
    BY <1>1, Closed DEF sourceVars
  <2>2. Held(s)' = 0 /\ Raw(s)' = <<>> /\ Made(s)' = 0
    BY <1>1, <2>1 DEF Held, Raw, Made
  <2>3. From(s, Stream') = {}
    BY <1>1, AcquisitionAssumption DEF From
  <2>4. Passed(s)' = 0
    <3>1. Passed(s)' = Made(s)' - Held(s)' - Len(Raw(s)')
      BY DEF Passed
    <3>2. Len(Raw(s)') = 0
      <4>1. Raw(s)' = <<>>
        BY <2>2
      <4> QED
        BY <4>1
    <3>3. Made(s)' = 0 /\ Held(s)' = 0
      BY <2>2
    <3> QED
      BY <3>1, <3>2, <3>3
  <2> QED
    BY <2>1, <2>2, <2>3, <2>4
<1>3. RawInv'
  BY <1>2 DEF RawInv
<1>4. \A s \in Sources : InTurn(s, Stream', 0)
  BY <1>2 DEF InTurn
<1>5. StreamInv'
  <2>1. Len(Stream') = 1 /\ Stream'[1] = <<Engine, 1>>
    BY <1>1
  <2>2. Len(Stream') > 0 /\ pc' \notin {"drain", "join", "idle"}
    BY <1>1, <2>1
  <2>3. \A s \in Sources : InTurn(s, Stream', Passed(s)')
    BY <1>2, <1>4
  <2> QED
    BY <2>1, <2>2, <2>3 DEF StreamInv
<1> QED
  BY <1>3, <1>5 DEF DataInv

(* The closing settings are the last.                                        *)
LEMMA DataFinal == ASSUME ControlInv, DataInv, Final PROVE DataInv'
<1> USE DEF ControlInv, TypeOK
<1>1. /\ pc = "final" /\ pc' = "drain" /\ UNCHANGED <<todo, runs, sourceVars>>
      /\ Stream' = Append(Stream, <<Engine, 2>>)
  BY StreamGrows, Values DEF Final, Goto
<1>2. \A s \in Sources : Kept(s)
  BY <1>1 DEF Kept, Made, Held, Raw, sourceVars
<1>3. ASSUME NEW s \in Sources
      PROVE  /\ Passed(s)' = Passed(s) /\ Held(s)' = Held(s) /\ Raw(s)' = Raw(s)
  BY <1>2 DEF Kept, Passed
<1>4. RawInv'
  BY <1>1, <1>3 DEF RawInv, DataInv, sourceVars
<1>5. ASSUME runs > 0
      PROVE  /\ Len(Stream)' > 0 /\ Stream'[1] = <<Engine, 1>>
             /\ Stream'[Len(Stream')] = <<Engine, 2>>
             /\ \A s \in Sources : InTurn(s, Stream', Passed(s)')
  <2>1. Stream \in Seq(Spills) /\ <<Engine, 2>> \in Spills
    BY StreamMoves, Values DEF QueueTypes, Stream
  <2>2. /\ Len(Stream) > 0 /\ Stream[1] = <<Engine, 1>>
        /\ \A s \in Sources : InTurn(s, Stream, Passed(s)) /\ Passed(s) \in Nat
    BY <1>5 DEF DataInv, RawInv, StreamInv
  <2>3. \A s \in Sources : <<Engine, 2>>[1] # s
    BY AcquisitionAssumption
  <2>4. \A s \in Sources : InTurn(s, Append(Stream, <<Engine, 2>>), Passed(s))
    BY <2>1, <2>2, <2>3, InTurnAppend
  <2>5. /\ Len(Stream)' > 0 /\ Stream'[1] = <<Engine, 1>>
        /\ Stream'[Len(Stream')] = <<Engine, 2>>
    BY <1>1, <2>1, <2>2, AppendProperties
  <2> QED
    BY <1>1, <1>3, <2>4, <2>5
<1>6. StreamInv'
  BY <1>1, <1>5 DEF StreamInv
<1> QED
  BY <1>4, <1>6 DEF DataInv

(* daq_start() of a source, and the steps of daq_stop().                     *)
LEMMA DataStart ==
  ASSUME ControlInv, DataInv, NEW r \in Sources, StartOne(r)
  PROVE  DataInv'
<1> USE DEF ControlInv, TypeOK, SourceTypes, QueueTypes
<1>1. /\ pc = "start" /\ UNCHANGED <<pc, runs, Stream>> /\ r \in todo /\ todo' = todo \ {r}
      /\ daq_start(r)
  BY DEF StartOne, queueVars, Stream
<1>2. Idle(r)
  BY <1>1 DEF PhaseInv
<1>3. parser_[r] = "none" /\ raw_queue_[r] = NoQueue
  BY <1>2 DEF ThreadInv
<1>4. ASSUME NEW s \in Sources PROVE Kept(s)
  <2>1. CASE s = r
    <3>1. sent'[r] = 0 /\ parser_'[r] # "enqueue" /\ raw_queue_'[r] \in {<<>>, NoQueue}
      BY <1>1, <1>2, <1>3 DEF daq_start, Idle
    <3> QED
      BY <1>1, <1>3, <2>1, <3>1 DEF Kept, Made, Held, Raw, NoQueue
  <2>2. CASE s # r
    <3>1. /\ sent'[s] = sent[s] /\ parser_'[s] = parser_[s]
          /\ raw_queue_'[s] = raw_queue_[s] /\ parsing'[s] = parsing[s]
      BY <1>1, <1>2, <2>2 DEF daq_start, Idle
    <3> QED
      BY <1>1, <2>2, <3>1 DEF Kept, Made, Held, Raw
  <2> QED
    BY <2>1, <2>2
<1> QED
  BY <1>1, <1>4, Quiet

LEMMA DataStop ==
  ASSUME ControlInv, DataInv, NEW r \in Sources, daq_stop(r)
  PROVE  DataInv'
<1> USE DEF ControlInv, TypeOK, SourceTypes, QueueTypes
<1>1. UNCHANGED <<pc, todo, runs, Stream, sent, parsing>>
  BY DEF daq_stop, StopRequest, JoinRunner, DrainRaw, JoinParser, StopReset, queueVars,
     sourceVars, Stream
<1>2. ASSUME NEW s \in Sources PROVE Held(s)' = Held(s) /\ Raw(s)' = Raw(s)
  <2>1. CASE JoinParser(r)
    <3>1. raw_queue_[r] = <<>>
      BY <2>1 DEF JoinParser, CallInv
    <3> QED
      BY <2>1, <3>1 DEF JoinParser, Held, Raw
  <2>2. CASE ~JoinParser(r)
    BY <2>2 DEF daq_stop, StopRequest, JoinRunner, DrainRaw, StopReset, sourceVars, Held, Raw
  <2> QED
    BY <2>1, <2>2
<1>3. \A s \in Sources : Kept(s)
  BY <1>1, <1>2 DEF Kept, Made
<1> QED
  BY <1>1, <1>3, Quiet

(* What the threads of a source do to the numbers of its spills.             *)
LEMMA Numbering ==
  ASSUME TypeOK, NEW s \in Sources, NEW n, n = Made(s)
  PROVE  n \in Nat /\ Held(s) \in {0, 1} /\ Len(Raw(s)) \in Nat
<1>1. Raw(s) \in Seq(Sources \X Nat)
  BY Values DEF TypeOK, QueueTypes, Raw
<1> QED
  BY <1>1 DEF TypeOK, SourceTypes, Made, Held

(* The run thread of a source makes one more spill.                          *)
LEMMA DataSend ==
  ASSUME ControlInv, DataInv, NEW r \in Sources, runner_[r] # "none", Send(r),
         UNCHANGED <<engineVars, parser_, parsing>>
  PROVE  DataInv'
<1>1. ~Idle(r) /\ ~RunnerJoined(r) /\ pc \notin {"drain", "join", "idle"}
  BY Closed DEF ControlInv, ThreadInv
<1>2. /\ Made(r) = sent[r] /\ Made(r)' = sent[r] + 1 /\ sent'[r] = sent[r] + 1
      /\ \A s \in Sources \ {r} : Made(s)' = Made(s)
      /\ \A s \in Sources : Held(s)' = Held(s)
      /\ UNCHANGED <<pc, runs>>
  BY <1>1 DEF Send, Made, Held, PhaseInv, engineVars, ControlInv, TypeOK, SourceTypes
<1>3. /\ sent[r] \in Nat /\ Held(r) \in {0, 1} /\ Len(Raw(r)) \in Nat /\ Passed(r) \in Nat
      /\ Passed(r) = sent[r] - Held(r) - Len(Raw(r))
  BY <1>2, Numbering DEF ControlInv, DataInv, RawInv, Passed
<1>4. CASE r \in Buffered
  <2>1. raw_queue_[r] # NoQueue /\ raw_queue_[r] \in Seq(Sources \X Nat)
    BY <1>1, <1>4 DEF ControlInv, TypeOK, ThreadInv, ParserJoined, RunnerJoined, QueueTypes
  <2>2. /\ <<r, sent'[r]>> \in Sources \X Nat
        /\ raw_queue_'[r] = Append(raw_queue_[r], <<r, sent'[r]>>)
        /\ \A s \in Sources \ {r} : raw_queue_'[s] = raw_queue_[s]
    BY <1>2, <1>3, <1>4 DEF Send, ControlInv, TypeOK, QueueTypes
  <2>3. raw_queue_'[r] \in Seq(Sources \X Nat) /\ raw_queue_'[r] # NoQueue
    <3>1. Append(raw_queue_[r], <<r, sent'[r]>>) \in Seq(Sources \X Nat)
      BY <2>1, <2>2, Queues
    <3> QED
      BY <2>2, <3>1, RawQueues
  <2>4. Raw(r) = raw_queue_[r] /\ Raw(r)' = Append(Raw(r), <<r, sent[r] + 1>>)
    BY <1>2, <2>1, <2>2, <2>3 DEF Raw
  <2>5. /\ Len(Raw(r)') = Len(Raw(r)) + 1
        /\ \A i \in 1 .. Len(Raw(r)) : Raw(r)'[i] = Raw(r)[i]
        /\ Raw(r)'[Len(Raw(r)) + 1] = <<r, sent[r] + 1>>
    BY <1>2, <2>1, <2>2, <2>4, AppendProperties
  <2>6. Passed(r)' = Passed(r)
    BY <1>2, <1>3, <2>5 DEF Passed
  <2>7. ASSUME NEW s \in Sources \ {r} PROVE Kept(s)
    BY <1>2, <2>2 DEF Kept, Raw
  <2>8. ASSUME NEW s \in Sources \ {r}
        PROVE  Passed(s)' = Passed(s) /\ Held(s)' = Held(s) /\ Raw(s)' = Raw(s)
    BY <2>7 DEF Kept, Passed
  <2>9. \A i \in 1 .. Len(Raw(r)') : Raw(r)'[i] = <<r, Passed(r) + Held(r) + i>>
    <3> SUFFICES ASSUME NEW i \in 1 .. Len(Raw(r)')
                 PROVE  Raw(r)'[i] = <<r, Passed(r) + Held(r) + i>>
      OBVIOUS
    <3>1. CASE i \in 1 .. Len(Raw(r))
      BY <2>5, <3>1 DEF DataInv, RawInv
    <3>2. CASE i = Len(Raw(r)) + 1
      <4>1. Passed(r) + Held(r) + i = sent[r] + 1
        BY <1>3, <3>2
      <4> QED
        BY <2>5, <3>2, <4>1
    <3> QED
      BY <1>3, <2>5, <3>1, <3>2
  <2>10. RawInv'
    <3> SUFFICES ASSUME NEW s \in Sources
                 PROVE  /\ Passed(s)' \in Nat
                        /\ parser_'[s] = "enqueue" => parsing'[s] = <<s, Passed(s)' + 1>>
                        /\ \A i \in 1 .. Len(Raw(s)') :
                             Raw(s)'[i] = <<s, Passed(s)' + Held(s)' + i>>
      BY DEF RawInv
    <3>1. CASE s = r
      BY <1>2, <1>3, <2>6, <2>9, <3>1 DEF DataInv, RawInv
    <3>2. CASE s # r
      BY <2>8, <3>2 DEF DataInv, RawInv
    <3> QED
      BY <3>1, <3>2
  <2>11. Stream' = Stream /\ \A s \in Sources : Passed(s)' = Passed(s)
    BY <1>4, <2>6, <2>8 DEF Send, Stream
  <2>12. StreamInv'
    BY <1>2, <2>11 DEF DataInv, StreamInv
  <2> QED
    BY <2>10, <2>12 DEF DataInv
<1>5. CASE r \notin Buffered
  <2>1. parser_[r] = "none" /\ raw_queue_[r] = NoQueue /\ UNCHANGED raw_queue_
    BY <1>5 DEF ControlInv, ThreadInv, ParserJoined, Send
  <2>2. Held(r) = 0 /\ Raw(r) = <<>>
    BY <2>1 DEF Held, Raw
  <2>3. Len(Raw(r)) = 0
    <3>1. Raw(r) = <<>>
      BY <2>2
    <3> QED
      BY <3>1
  <2>4. \A s \in Sources : Raw(s)' = Raw(s)
    BY <2>1 DEF Raw
  <2>5. Passed(r) = sent[r] /\ Passed(r)' = Passed(r) + 1
    BY <1>2, <1>3, <2>2, <2>3, <2>4 DEF Passed
  <2>6. Stream' = Append(Stream, <<r, Passed(r) + 1>>)
    <3>1. <<r, sent'[r]>> \in Spills
      <4>1. sent'[r] \in Nat
        BY <1>2, <1>3
      <4> QED
        BY <4>1, Values
    <3> QED
      BY <1>2, <1>5, <2>5, <3>1, StreamGrows DEF Send, ControlInv, TypeOK
  <2>7. \A s \in Sources \ {r} : Kept(s)
    BY <1>2, <2>4 DEF Kept
  <2>8. StreamInv'
    BY <1>1, <1>2, <2>5, <2>6, <2>7, Delivers DEF ControlInv, TypeOK
  <2>9. RawInv'
    <3> SUFFICES ASSUME NEW s \in Sources
                 PROVE  /\ Passed(s)' \in Nat
                        /\ parser_'[s] = "enqueue" => parsing'[s] = <<s, Passed(s)' + 1>>
                        /\ \A i \in 1 .. Len(Raw(s)') :
                             Raw(s)'[i] = <<s, Passed(s)' + Held(s)' + i>>
      BY DEF RawInv
    <3>1. CASE s = r
      BY <1>3, <2>1, <2>3, <2>4, <2>5, <3>1
    <3>2. CASE s # r
      <4>1. Passed(s)' = Passed(s)
        BY <2>7, <3>2 DEF Kept, Passed
      <4> QED
        BY <1>2, <2>4, <3>2, <4>1 DEF DataInv, RawInv
    <3> QED
      BY <3>1, <3>2
  <2> QED
    BY <2>8, <2>9 DEF DataInv
<1> QED
  BY <1>4, <1>5

(* The parser thread takes the oldest raw spill, ...                         *)
LEMMA DataTake ==
  ASSUME ControlInv, DataInv, NEW r \in Sources, ParseTake(r)
  PROVE  DataInv'
<1>1. /\ parser_[r] = "dequeue" /\ parser_'[r] = "enqueue"
      /\ raw_queue_[r] # <<>> /\ raw_queue_'[r] = Tail(raw_queue_[r])
      /\ parsing'[r] = Head(raw_queue_[r])
      /\ \A s \in Sources \ {r} : /\ parser_'[s] = parser_[s] /\ parsing'[s] = parsing[s]
                                  /\ raw_queue_'[s] = raw_queue_[s]
      /\ UNCHANGED <<pc, todo, runs, sent, Stream>>
  BY DEF ParseTake, Parser, ControlInv, TypeOK, SourceTypes, QueueTypes, engineVars,
     queueVars, Stream
<1>2. raw_queue_[r] # NoQueue /\ raw_queue_[r] \in Seq(Sources \X Nat)
  BY <1>1 DEF ControlInv, TypeOK, QueueTypes, ThreadInv
<1>3. Raw(r) = raw_queue_[r] /\ Raw(r)' = Tail(Raw(r)) /\ Raw(r) \in Seq(Sources \X Nat)
  <2>1. Tail(raw_queue_[r]) # NoQueue
    <3>1. Tail(raw_queue_[r]) \in Seq(Sources \X Nat)
      BY <1>1, <1>2, Queues
    <3> QED
      BY <3>1, RawQueues
  <2> QED
    BY <1>1, <1>2, <2>1 DEF Raw
<1>4. /\ Len(Raw(r)) \in Nat \ {0} /\ Len(Raw(r)') = Len(Raw(r)) - 1
      /\ \A i \in 1 .. Len(Raw(r)') : Raw(r)'[i] = Raw(r)[i + 1]
      /\ parsing'[r] = Raw(r)[1]
  BY <1>1, <1>3, HeadTailProperties, EmptySeq
<1>5. Held(r) = 0 /\ Held(r)' = 1 /\ Made(r)' = Made(r) /\ Made(r) \in Nat
  BY <1>1, Numbering DEF Held, Made, ControlInv
<1>6. Passed(r)' = Passed(r) /\ Passed(r) \in Nat
  BY <1>4, <1>5 DEF Passed, DataInv, RawInv
<1>7. ASSUME NEW s \in Sources \ {r}
      PROVE  Passed(s)' = Passed(s) /\ Held(s)' = Held(s) /\ Raw(s)' = Raw(s)
  BY <1>1 DEF Passed, Made, Held, Raw
<1>8. RawInv'
  <2> SUFFICES ASSUME NEW s \in Sources
               PROVE  /\ Passed(s)' \in Nat
                      /\ parser_'[s] = "enqueue" => parsing'[s] = <<s, Passed(s)' + 1>>
                      /\ \A i \in 1 .. Len(Raw(s)') :
                           Raw(s)'[i] = <<s, Passed(s)' + Held(s)' + i>>
    BY DEF RawInv
  <2>1. CASE s = r
    <3>1. \A i \in 1 .. Len(Raw(r)) : Raw(r)[i] = <<r, Passed(r) + i>>
      BY <1>5, <1>6 DEF DataInv, RawInv
    <3>2. parsing'[r] = <<r, Passed(r) + 1>>
      BY <1>4, <3>1
    <3>3. ASSUME NEW i \in 1 .. Len(Raw(r)') PROVE Raw(r)'[i] = <<r, Passed(r) + 1 + i>>
      <4>1. i + 1 \in 1 .. Len(Raw(r))
        BY <1>4
      <4>2. Raw(r)'[i] = <<r, Passed(r) + (i + 1)>>
        BY <1>4, <3>1, <4>1
      <4>3. Passed(r) + (i + 1) = Passed(r) + 1 + i
        BY <1>6
      <4> QED
        BY <4>2, <4>3
    <3> QED
      BY <1>5, <1>6, <2>1, <3>2, <3>3
  <2>2. CASE s # r
    BY <1>1, <1>7, <2>2 DEF DataInv, RawInv
  <2> QED
    BY <2>1, <2>2
<1>9. StreamInv'
  <2>1. \A s \in Sources : Passed(s)' = Passed(s)
    BY <1>6, <1>7
  <2> QED
    BY <1>1, <2>1 DEF DataInv, StreamInv
<1> QED
  BY <1>8, <1>9 DEF DataInv

(* ... and hands it on.                                                      *)
LEMMA DataPut ==
  ASSUME ControlInv, DataInv, NEW r \in Sources, ParsePut(r)
  PROVE  DataInv'
<1>1. /\ parser_[r] = "enqueue" /\ parser_'[r] = "dequeue"
      /\ \A s \in Sources \ {r} : parser_'[s] = parser_[s] /\ parsing'[s] = parsing[s]
      /\ parsedQueue' = Append(parsedQueue, parsing[r])
      /\ UNCHANGED <<pc, todo, runs, sent, raw_queue_, result>>
  BY DEF ParsePut, Parser, ControlInv, TypeOK, SourceTypes, QueueTypes, engineVars
<1>2. pc \notin {"drain", "join", "idle"}
  BY <1>1, Closed
<1>3. /\ Held(r) = 1 /\ Held(r)' = 0 /\ Made(r)' = Made(r) /\ Raw(r)' = Raw(r)
      /\ Made(r) \in Nat /\ Len(Raw(r)) \in Nat /\ Passed(r) \in Nat
  BY <1>1, Numbering DEF Held, Made, Raw, DataInv, RawInv, ControlInv
<1>4. Passed(r)' = Passed(r) + 1
  BY <1>3 DEF Passed
<1>5. parsing[r] = <<r, Passed(r) + 1>>
  BY <1>1 DEF DataInv, RawInv
<1>6. Stream' = Append(Stream, <<r, Passed(r) + 1>>)
  <2>1. <<r, Passed(r) + 1>> \in Spills
    BY <1>3, Values
  <2> QED
    BY <1>1, <1>5, <2>1, StreamGrows DEF ControlInv, TypeOK
<1>7. \A s \in Sources \ {r} : Kept(s)
  BY <1>1 DEF Kept, Made, Held, Raw
<1>8. StreamInv'
  BY <1>1, <1>2, <1>4, <1>6, <1>7, Delivers DEF ControlInv, TypeOK
<1>9. RawInv'
  <2> SUFFICES ASSUME NEW s \in Sources
               PROVE  /\ Passed(s)' \in Nat
                      /\ parser_'[s] = "enqueue" => parsing'[s] = <<s, Passed(s)' + 1>>
                      /\ \A i \in 1 .. Len(Raw(s)') :
                           Raw(s)'[i] = <<s, Passed(s)' + Held(s)' + i>>
    BY DEF RawInv
  <2>1. CASE s = r
    <3>1. \A i \in 1 .. Len(Raw(r)) : Raw(r)[i] = <<r, Passed(r) + 1 + i>>
      BY <1>3 DEF DataInv, RawInv
    <3>2. Passed(r) + 1 = Passed(r)' + Held(r)'
      BY <1>3, <1>4
    <3> QED
      BY <1>1, <1>3, <1>4, <2>1, <3>1, <3>2
  <2>2. CASE s # r
    <3>1. Passed(s)' = Passed(s) /\ Held(s)' = Held(s) /\ Raw(s)' = Raw(s)
      BY <1>7, <2>2 DEF Kept, Passed
    <3> QED
      BY <1>1, <2>2, <3>1 DEF DataInv, RawInv
  <2> QED
    BY <2>1, <2>2
<1> QED
  BY <1>8, <1>9 DEF DataInv

(* Threads that end or go on without a spill.                                *)
LEMMA DataThread ==
  ASSUME ControlInv, DataInv, NEW r \in Sources,
         RunFails(r) \/ RunTest(r) \/ RunEnd(r) \/ ParseNull(r)
  PROVE  DataInv'
<1>1. UNCHANGED <<pc, todo, runs, Stream, sent, parsing, raw_queue_>>
  BY DEF RunFails, RunTest, RunEnd, ParseNull, engineVars, queueVars, Stream
<1>2. \A s \in Sources : parser_'[s] = "enqueue" <=> parser_[s] = "enqueue"
  BY DEF RunFails, RunTest, RunEnd, ParseNull, Parser, ControlInv, TypeOK, SourceTypes
<1>3. \A s \in Sources : Kept(s)
  BY <1>1, <1>2 DEF Kept, Made, Held, Raw
<1> QED
  BY <1>1, <1>3, Quiet

LEMMA DataNext == ASSUME ControlInv, DataInv, [Next]_vars PROVE DataInv'
<1>1. ASSUME NEW r \in Sources, RunBegin(r) \/ RunData(r) \/ RunLast(r) PROVE DataInv'
  BY <1>1, DataSend DEF RunBegin, RunData, RunLast, Runner
<1> QED
  BY <1>1, DataQuiet, DataBegin, DataFinal, DataStart, DataStop, DataTake, DataPut, DataThread
     DEF Next, EngineThread, worker_MCA, worker_run, worker_parse

(* What the project gets is complete and in order: the settings first, every *)
(* spill of every source in turn, the closing settings last.                 *)
THEOREM ResultIsComplete == Spec => []ResultComplete
<1>1. Init => DataInv
  <2> SUFFICES ASSUME Init PROVE DataInv
    OBVIOUS
  <2>1. ASSUME NEW s \in Sources PROVE Passed(s) = 0 /\ Len(Raw(s)) = 0 /\ parser_[s] = "none"
    <3>1. Raw(s) = <<>>
      BY DEF Init, Raw
    <3>2. Len(Raw(s)) = 0
      BY <3>1
    <3>3. Made(s) = 0 /\ Held(s) = 0 /\ parser_[s] = "none"
      BY DEF Init, Made, Held
    <3> QED
      BY <3>2, <3>3 DEF Passed
  <2>2. RawInv
    BY <2>1 DEF RawInv
  <2>3. StreamInv
    BY DEF Init, StreamInv
  <2> QED
    BY <2>2, <2>3 DEF DataInv
<1>2. ControlInv /\ DataInv /\ [Next]_vars => DataInv'
  BY DataNext
<1>3. ControlInv /\ DataInv => ResultComplete
  <2> SUFFICES ASSUME ControlInv, DataInv, pc = "idle", runs > 0
               PROVE  /\ result # <<>>
                      /\ result[1] = <<Engine, 1>>
                      /\ result[Len(result)] = <<Engine, 2>>
                      /\ \A s \in Sources : InTurn(s, result, sent[s])
    BY DEF ResultComplete
  <2>1. Stream = result /\ result \in Seq(Spills)
    BY ConcatEmptySeq DEF Stream, ControlInv, PhaseInv, TypeOK, QueueTypes
  <2>2. ASSUME NEW s \in Sources PROVE Passed(s) = sent[s]
    <3>1. Raw(s) = <<>> /\ Made(s) = sent[s] /\ Held(s) = 0
      BY Closed DEF Raw, Made, Held
    <3>2. Len(Raw(s)) = 0
      BY <3>1
    <3>3. sent[s] \in Nat
      BY DEF ControlInv, TypeOK, SourceTypes
    <3> QED
      BY <3>1, <3>2, <3>3 DEF Passed
  <2> QED
    BY <2>1, <2>2, EmptySeq DEF DataInv, StreamInv
<1> QED
  BY <1>1, <1>2, <1>3, ControlInvariance, PTL DEF Spec
=============================================================================
