-------------------------------- MODULE HV8 --------------------------------
(* The high voltage supply of sources/HV8/hv8.cpp and the serial port it     *)
(* is behind, sources/HV8/TimeoutSerial.cpp.  The driver writes a command    *)
(* and reads to the next prompt; each read races a timer, what it leaves     *)
(* behind is found by the next, and a read that failed is answered by        *)
(* asking again.  The supply itself is not in the repository: it is          *)
(* modelled from the prompts the driver tells apart.  An answer is a record; *)
(* its characters, and the pauses between commands, are left out.            *)
EXTENDS Integers, Sequences, SequencesExt

CONSTANTS
  Channels,    \* the outputs that are used; the code has eight
  Volts,       \* voltages, 0 among them
  Attempts,    \* attempts_
  MaxCalls,    \* bound: calls of the engine
  MaxMishaps,  \* bound: commands lost and restarts of the supply
  MaxLate      \* bound: reads that run out of time although an answer is due

ASSUME HV8Assumption ==
  /\ 0 \notin Channels /\ 0 \in Volts
  /\ Attempts \in Nat \ {0} /\ MaxCalls \in Nat /\ MaxMishaps \in Nat /\ MaxLate \in Nat

VARIABLES
  io,        \* the port: readData, the reads and the timer that are pending,
             \* and the handlers that io.run_one() will call
  line,      \* what has arrived and no read has taken in
  sent,      \* commands on their way to the supply
  at,        \* the call in progress, and where it is
  open, booted,
  voltages,  \* what the driver holds the voltages to be
  supply,    \* external: is somebody logged in, the channel chosen, the outputs
  calls, mishaps, late,
  wanted,    \* history: the voltage last asked for
  unsure,    \* history: channels whose last setting failed or was not sent
  unread,    \* history: channels set since the voltages were read
  stale,     \* history: a read has left a handler in the queue
  torn,      \* history: a read has returned other than its delimiter
  mishap     \* history: a command was lost, or prompts outlived a restart

port   == <<io, line, open>>
driver == <<at, booted, voltages>>
story  == <<wanted, unsure, unread>>
vars   == <<port, sent, driver, supply, calls, mishaps, late, story, stale, torn, mishap>>

Idle == [op |-> "none", chan |-> 0, volt |-> 0, pc |-> "idle", step |-> 0, tries |-> 0, rounds |-> 0]

Init ==
  /\ io = [data |-> << >>, reads |-> << >>, timer |-> FALSE, handlers |-> << >>]
  /\ line = << >> /\ sent = << >> /\ at = Idle /\ open = FALSE /\ booted = FALSE
  /\ voltages = [c \in Channels |-> 0]
  /\ supply = [mode |-> "out", chosen |-> 0, volts |-> [c \in Channels |-> 0]]
  /\ calls = 0 /\ mishaps = 0 /\ late = 0
  /\ wanted = [c \in Channels |-> 0] /\ unsure = {} /\ unread = {}
  /\ stale = FALSE /\ torn = FALSE /\ mishap = FALSE

----------------------------------------------------------------------------
(* TimeoutSerial.  A handler of an operation that was cancelled looks at its *)
(* error and does nothing: it is not kept.                                   *)

Delim(answer) == IF answer.says = "Login:" THEN ":" ELSE ">"

\* the answers up to the first delimiter; 0 when it has not arrived
Matched(data, delim) ==
  LET ends == {i \in 1..Len(data) : Delim(data[i]) = delim} IN
  IF ends = {} THEN 0 ELSE CHOOSE i \in ends : \A j \in ends : i <= j

\* a read of data that are there completes at once
performReadSetup(p, delim) ==
  IF Matched(p.data, delim) > 0
  THEN [p EXCEPT !.handlers = Append(@, [of |-> "read", taken |-> Matched(p.data, delim)])]
  ELSE [p EXCEPT !.reads = Append(@, delim)]

\* expires_from_now() gives up the timer of the read before
Started(p, delim) == [performReadSetup(p, delim) EXCEPT !.timer = TRUE]

\* MUTANT: the read that timed out is left pending
TimedOutPending(p) == [p EXCEPT !.handlers = Tail(@)]

\* a read that has run out of time gives up its operation, one that has
\* completed its timer, but what is in the queue stays there
TimedOut(p) == [p EXCEPT !.reads = << >>, !.handlers = Tail(@)]

\* a handler of an earlier read may claim more than there is
Text(p) ==
  LET n == Head(p.handlers).taken IN IF n < Len(p.data) THEN SubSeq(p.data, 1, n) ELSE p.data

Completed(p) ==
  LET n == Head(p.handlers).taken IN
  [p EXCEPT !.timer = FALSE, !.handlers = Tail(@),
            !.data = IF n < Len(@) THEN SubSeq(@, n + 1, Len(@)) ELSE << >>]

Reading == at.pc # "idle"

\* io.run_one() takes in what has arrived; a read that has not seen its
\* delimiter goes on reading, behind any other
Receive ==
  /\ Reading /\ io.reads # << >> /\ line # << >>
  /\ LET more == [io EXCEPT !.data = @ \o line, !.reads = Tail(@)] IN
     io' = performReadSetup(more, Head(io.reads))
  /\ line' = << >>
  /\ UNCHANGED <<open, sent, driver, supply, calls, mishaps, late, story, stale, torn, mishap>>

Expire ==
  /\ Reading /\ io.timer
  /\ io' = [io EXCEPT !.timer = FALSE, !.handlers = Append(@, [of |-> "timer", taken |-> 0])]
  /\ late' = late + (IF line = << >> /\ sent = << >> /\ io.handlers = << >> THEN 0 ELSE 1)
  /\ late' <= MaxLate
  /\ UNCHANGED <<line, open, sent, driver, supply, calls, mishaps, story, stale, torn, mishap>>

----------------------------------------------------------------------------
(* QpxHV8Plugin.  What the driver does with the text of a read: the commands *)
(* it writes, and where it reads next.                                       *)

Go(a, writes) == [at |-> a, writes |-> writes, success |-> FALSE]
Return        == Go(Idle, << >>)

Says(text)    == IF text = << >> THEN "nothing" ELSE Last(text).says
HasTable(text) == \E i \in 1..Len(text) : text[i].says = "table"
TableOf(text) ==
  text[CHOOSE i \in 1..Len(text) :
         text[i].says = "table" /\ \A j \in 1..i - 1 : text[j].says # "table"]

\* get_prompt() reads before it writes anything
Prompt(a) == Go([a EXCEPT !.pc = "prompt", !.tries = 0], << >>)

AskTable(a) == Go([a EXCEPT !.pc = "table"], <<[does |-> "R", for |-> calls], [does |-> "return"]>>)

NextRound(a) ==
  IF a.rounds + 1 < Attempts THEN Prompt([a EXCEPT !.rounds = @ + 1, !.step = 1]) ELSE Return

\* set_voltage(), at the return of each get_prompt()
SetGoesOn(a, logged) ==
  IF ~logged THEN IF a.step = 0 THEN Return ELSE NextRound(a)
  ELSE LET on == Prompt([a EXCEPT !.step = @ + 1]) IN
       CASE a.step = 0 -> on
         [] a.step = 1 -> [on EXCEPT !.writes = <<[does |-> "s", chan |-> a.chan]>>]
         [] a.step = 2 -> [on EXCEPT !.writes = <<[does |-> "v", volt |-> a.volt]>>]
         [] a.step = 3 -> [Return EXCEPT !.success = TRUE]

\* the engine reads all settings of a device it has booted
GotPrompt(a, logged) ==
  CASE a.op = "set"  -> SetGoesOn(a, logged)
    [] a.op = "boot" -> IF logged THEN Prompt([Idle EXCEPT !.op = "get"]) ELSE Return
    [] a.op = "get"  -> IF logged THEN AskTable(a) ELSE Return

\* the loops of get_prompt()
Retry(a, command) ==
  LET writes == <<[does |-> command]>> IN
  IF a.tries + 1 < Attempts THEN Go([a EXCEPT !.tries = @ + 1], writes)
  ELSE GotPrompt(a, FALSE)

RetryPrompt(a) ==
  LET next == Retry(a, "return") IN
  IF a.tries + 1 < Attempts THEN next
  ELSE [next EXCEPT !.writes = <<[does |-> "return"]>> \o @]

\* MUTANT: a prompt will do, logged in or not
AnyPrompt(a, text) ==
  IF Says(text) \in {"+>", "->"} THEN GotPrompt(a, TRUE) ELSE RetryPrompt(a)

AtPrompt(a, text) ==
  CASE Says(text) = "+>" -> GotPrompt(a, TRUE)
    [] Says(text) = "->" -> Go([a EXCEPT !.pc = "login", !.tries = 0], <<[does |-> "L"]>>)
    [] OTHER             -> RetryPrompt(a)

AtLogin(a, text) ==
  IF Says(text) = "Login:"
  THEN Go([a EXCEPT !.pc = "password", !.tries = 0], <<[does |-> "HV8"]>>)
  ELSE Retry(a, "L")

\* here the prompt is to be all there is
AtPassword(a, text) ==
  IF Len(text) = 1 /\ Says(text) = "+>" THEN GotPrompt(a, TRUE) ELSE Retry(a, "HV8")

\* asked for again if what was read has less than three lines, which is left
\* open unless nothing was read
AtTable(a, text, again) ==
  LET next == [a EXCEPT !.rounds = @ + 1] IN
  CASE HasTable(text) \/ next.rounds = Attempts -> Return
    [] OTHER -> IF again THEN AskTable(next) ELSE Go(next, << >>)

Reply(a, text, again) ==
  CASE a.pc = "prompt"   -> AtPrompt(a, text)
    [] a.pc = "login"    -> AtLogin(a, text)
    [] a.pc = "password" -> AtPassword(a, text)
    [] a.pc = "table"    -> AtTable(a, text, again)

DelimAt(a) == IF a.pc = "login" THEN ":" ELSE ">"

\* MUTANT: the last channel is taken to be out of range
ParsedShort(volts) ==
  [c \in Channels |-> IF \A d \in Channels : d <= c THEN voltages[c] ELSE volts[c]]

\* the table is the channels in order
Parsed(volts) == [c \in Channels |-> volts[c]]

Reads(text) == at.pc = "table" /\ HasTable(text)

\* one handler, and what the driver does until it reads again
RunOne ==
  /\ Reading /\ io.handlers # << >>
  /\ \E again \in BOOLEAN :
     LET ok   == Head(io.handlers).of = "read"
         text == IF ok THEN Text(io) ELSE << >>
         rest == IF ok THEN Completed(io) ELSE TimedOut(io)
         next == Reply(at, text, again)
         done == next.at.op = "none"
         table == TableOf(text) IN
     /\ again \/ (at.pc = "table" /\ text # << >>)
     /\ at' = next.at /\ sent' = sent \o next.writes
     /\ io' = IF done THEN rest ELSE Started(rest, DelimAt(next.at))
     /\ booted' = (booted \/ (at.op = "boot" /\ next.at.op = "get"))
     /\ voltages' = IF Reads(text) THEN Parsed(table.volts) ELSE voltages
     /\ unread' = CASE Reads(text) /\ table.for = calls -> {}
                    [] Reads(text) /\ table.for # calls -> Channels
                    [] OTHER -> unread
     /\ unsure' = IF next.success THEN unsure \ {at.chan} ELSE unsure
     /\ stale' = (stale \/ rest.handlers # << >>)
     /\ torn' = (torn \/ (ok /\ (text = << >> \/ Delim(Last(text)) # DelimAt(at))))
  /\ UNCHANGED <<line, open, supply, calls, mishaps, late, wanted, mishap>>

----------------------------------------------------------------------------
(* The engine, from one thread.                                              *)

Call == at.pc = "idle" /\ calls < MaxCalls /\ calls' = calls + 1

Begin(a) == /\ at' = [a EXCEPT !.pc = "prompt"]
            /\ io' = Started(io, ">")

boot ==
  /\ Call /\ ~booted /\ open' = TRUE
  /\ at' = [Idle EXCEPT !.op = "boot", !.pc = "prompt"]
  /\ io' = Started([io EXCEPT !.reads = << >>], ">")
  /\ UNCHANGED <<line, sent, booted, voltages, supply, mishaps, late, story, stale, torn, mishap>>

\* port.open() throws
BootFails ==
  /\ Call /\ ~booted /\ open' = FALSE
  /\ io' = [io EXCEPT !.reads = << >>]
  /\ UNCHANGED <<line, sent, at, booted, voltages, supply, mishaps, late, story, stale, torn, mishap>>

die ==
  /\ Call /\ booted /\ booted' = FALSE /\ open' = FALSE
  /\ io' = [io EXCEPT !.reads = << >>]
  /\ UNCHANGED <<line, sent, at, voltages, supply, mishaps, late, story, stale, torn, mishap>>

get_all_settings ==
  /\ Call /\ booted /\ open
  /\ Begin([Idle EXCEPT !.op = "get"])
  /\ UNCHANGED <<line, open, sent, booted, voltages, supply, mishaps, late, story, stale, torn, mishap>>

\* a voltage is sent if it is not the one the driver holds
write_settings_bulk(c, v) ==
  /\ Call
  /\ wanted' = [wanted EXCEPT ![c] = v]
  /\ IF v # voltages[c] /\ open
     THEN /\ Begin([Idle EXCEPT !.op = "set", !.chan = c, !.volt = v])
          /\ unread' = unread \cup {c} /\ unsure' = unsure \cup {c}
     ELSE /\ UNCHANGED <<at, io, unread>>
          /\ unsure' = IF v # voltages[c] \/ c \in unread THEN unsure \cup {c} ELSE unsure \ {c}
  /\ UNCHANGED <<line, open, sent, booted, voltages, supply, mishaps, late, stale, torn, mishap>>

----------------------------------------------------------------------------
(* External: the supply.  It takes commands in turn, and answers each.       *)

Prompting(mode) == [says |-> IF mode = "in" THEN "+>" ELSE "->"]

Answers(command) ==
  CASE command.does = "L" /\ supply.mode = "out" -> [says |-> "Login:"]
    [] command.does = "HV8" /\ supply.mode = "login" -> [says |-> "+>"]
    [] command.does = "R" /\ supply.mode = "in" ->
         [says |-> "table", volts |-> supply.volts, for |-> command.for]
    [] OTHER -> Prompting(supply.mode)

Does(s, command) ==
  CASE s.mode = "out"   -> IF command.does = "L" THEN [s EXCEPT !.mode = "login"] ELSE s
    [] s.mode = "login" -> [s EXCEPT !.mode = IF command.does = "HV8" THEN "in" ELSE "out"]
    [] s.mode = "in"    ->
         CASE command.does = "s" -> [s EXCEPT !.chosen = command.chan]
           [] command.does = "v" /\ s.chosen \in Channels ->
                [s EXCEPT !.volts[s.chosen] = command.volt]
           [] OTHER -> s

Answer ==
  /\ sent # << >> /\ sent' = Tail(sent)
  /\ supply' = Does(supply, Head(sent)) /\ line' = Append(line, Answers(Head(sent)))
  /\ UNCHANGED <<io, open, driver, calls, mishaps, late, story, stale, torn, mishap>>

LoseCommand ==
  /\ sent # << >> /\ mishaps < MaxMishaps /\ mishaps' = mishaps + 1
  /\ sent' = Tail(sent) /\ mishap' = TRUE
  /\ UNCHANGED <<port, driver, supply, calls, late, story, stale, torn>>

Restart ==
  /\ mishaps < MaxMishaps /\ mishaps' = mishaps + 1
  /\ supply' = [mode |-> "out", chosen |-> 0, volts |-> [c \in Channels |-> 0]]
  /\ sent' = << >>
  /\ mishap' = (mishap \/ Reading \/ line # << >> \/ io.data # << >> \/ io.handlers # << >> \/ sent # << >>)
  /\ wanted' = [c \in Channels |-> 0] /\ unsure' = {} /\ unread' = Channels
  /\ UNCHANGED <<port, driver, calls, late, stale, torn>>

Next ==
  \/ Receive \/ Expire \/ RunOne
  \/ boot \/ BootFails \/ die \/ get_all_settings
  \/ \E c \in Channels, v \in Volts : write_settings_bulk(c, v)
  \/ Answer \/ LoseCommand \/ Restart

Spec == Init /\ [][Next]_vars

----------------------------------------------------------------------------
TypeOK ==
  /\ io.timer \in BOOLEAN /\ open \in BOOLEAN /\ booted \in BOOLEAN
  /\ \A i \in 1..Len(io.reads) : io.reads[i] \in {">", ":"}
  /\ \A i \in 1..Len(io.handlers) : io.handlers[i].of \in {"read", "timer"}
  /\ at.pc \in {"idle", "prompt", "login", "password", "table"}
  /\ at.step \in 0..3 /\ at.tries \in 0..Attempts - 1 /\ at.rounds \in 0..Attempts - 1
  /\ voltages \in [Channels -> Volts] /\ wanted \in [Channels -> Volts]
  /\ supply.volts \in [Channels -> Volts] /\ supply.mode \in {"out", "login", "in"}
  /\ unsure \subseteq Channels /\ unread \subseteq Channels

\* When the driver has returned and the supply has done what it was sent,
\* each output has the voltage that was last asked for, however late the
\* answers came and however often the driver asked again.  Left out are
\* channels whose setting the driver gave up or did not send (unsure), lost
\* commands and prompts from before a restart of the supply (set_voltage,
\* get_prompt).
WantedIsSet ==
  TypeOK /\
  (~Reading /\ sent = << >> /\ ~mishap =>
    \A c \in Channels \ unsure : supply.volts[c] = wanted[c])

\* The voltages the driver has read are those of the outputs, until it sets
\* one: they do not come from an answer to an earlier question.  Left out is
\* the table of an earlier call, which came late and is taken for this one's
\* (get_all_settings).
VoltagesAreTrue ==
  ~Reading /\ sent = << >> /\ ~mishap =>
    \A c \in Channels \ unread : voltages[c] = supply.volts[c]

\* A read that returns has read to its own delimiter: it was not completed by
\* an operation of an earlier read, which gave up on it.  Left out are reads
\* after one that returned with the other handler already in the queue, which
\* no cancel() takes back (readStringUntil).
ReadIsItsOwn == ~stale => ~torn
=============================================================================
