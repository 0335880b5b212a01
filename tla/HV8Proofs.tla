----------------------------- MODULE HV8Proofs -----------------------------
(***************************************************************************)
(* Proofs about HV8 for any channels, voltages and number of attempts,     *)
(* calls and mishaps: a voltage that was reported set is set, the voltages *)
(* read are those of the outputs, and a read returns its own answer.       *)
(***************************************************************************)
EXTENDS HV8, SequenceTheorems, WellFoundedInduction, TLAPS

-----------------------------------------------------------------------------
(* Types                                                                   *)

Plain    == {"return", "L", "HV8"}
Commands == [does : Plain] \cup [does : {"R"}, for : Nat]
              \cup [does : {"s"}, chan : Channels] \cup [does : {"v"}, volt : Volts]
Texts    == [says : {"Login:", "+>", "->"}]
              \cup [says : {"table"}, volts : [Channels -> Volts], for : Nat]
Handlers == [of : {"read", "timer"}, taken : Nat]
Ports    == [data : Seq(Texts), reads : Seq({">", ":"}), timer : BOOLEAN,
             handlers : Seq(Handlers)]
Places   == [op : {"none", "boot", "get", "set"}, chan : Channels \cup {0}, volt : Volts,
             pc : {"idle", "prompt", "login", "password", "table"},
             step : 0..3, tries : 0..Attempts - 1, rounds : 0..Attempts - 1]
Supplies == [mode : {"out", "login", "in"}, chosen : Channels \cup {0},
             volts : [Channels -> Volts]]

Types ==
  /\ io \in Ports /\ line \in Seq(Texts) /\ sent \in Seq(Commands) /\ at \in Places
  /\ open \in BOOLEAN /\ booted \in BOOLEAN
  /\ voltages \in [Channels -> Volts] /\ supply \in Supplies
  /\ calls \in Nat /\ wanted \in [Channels -> Volts]
  /\ unsure \subseteq Channels /\ unread \subseteq Channels
  /\ stale \in BOOLEAN /\ torn \in BOOLEAN /\ mishap \in BOOLEAN

-----------------------------------------------------------------------------
(* The inductive invariant                                                 *)

\* Where the call in progress can be.
PlaceInv ==
  /\ at.pc = "idle" <=> at.op = "none"
  /\ at.op = "none" => at = Idle
  /\ at.pc = "table" => at.op = "get"
  /\ at.op = "set" => at.chan \in Channels

\* In this port nothing is pending but a read up to d.
Single(p, d) ==
  /\ \A i \in 1..Len(p.handlers) :
       CASE p.handlers[i].of = "timer" -> ~p.timer
         [] p.handlers[i].of = "read" ->
              LET n == p.handlers[i].taken
              IN p.reads = << >> /\ n \in 1..Len(p.data) /\ Delim(p.data[n]) = d
  /\ p.reads # << >> => p.reads = <<d>>

\* Until a read leaves something behind, what is in the port is this read's.
PortInv ==
  ~stale =>
    /\ ~torn /\ Single(io, DelimAt(at))
    /\ at.pc = "idle" => io.reads = << >> /\ io.handlers = << >> /\ ~io.timer

\* Who is past the prompt, or has seen its mark, finds the supply logged in.
LoggedIn(text) == \E i \in 1..Len(text) : text[i].says \in {"+>", "table"}

ModeInv ==
  at.step > 0 \/ at.pc = "table" \/ LoggedIn(io.data) \/ LoggedIn(line)
    => supply.mode = "in"

\* The states the supply goes through as it takes these commands.
Course(f, commands, s) ==
  /\ f \in [0..Len(commands) -> Supplies] /\ f[0] = s
  /\ \A i \in 1..Len(commands) : f[i] = Does(f[i - 1], commands[i])
  /\ \A i, j \in 0..Len(commands) : i <= j /\ f[i].mode = "in" => f[j].mode = "in"

\* What the driver can count on when the supply has taken all: end is its
\* state then.
SetInv(end) ==
  /\ at.op = "set" =>
       /\ at.chan \in unsure \cap unread /\ at.volt = wanted[at.chan]
       /\ at.step > 1 => end.chosen = at.chan
       /\ at.step > 2 => end.volts[at.chan] = at.volt
  /\ \A c \in Channels \ unsure : end.volts[c] = wanted[c]
  /\ \A c \in Channels \ unread : end.volts[c] = voltages[c]

\* A table of this call was asked for when all voltages had been set.
Fresh(x, volts) ==
  x.for <= calls /\ (x.for = calls => volts = x.volts /\ at.op # "set")

TableInv(f, end) ==
  /\ \A i \in 1..Len(io.data) : io.data[i].says = "table" => Fresh(io.data[i], end.volts)
  /\ \A i \in 1..Len(line) : line[i].says = "table" => Fresh(line[i], end.volts)
  /\ \A i \in 1..Len(sent) :
       sent[i].does = "R" =>
         Fresh([for |-> sent[i].for, volts |-> f[i].volts], end.volts)

SupplyInv ==
  ~mishap => /\ ModeInv
             /\ \E f : Course(f, sent, supply) /\ SetInv(f[Len(sent)]) /\ TableInv(f, f[Len(sent)])

IInv == Types /\ PlaceInv /\ PortInv /\ SupplyInv

LEMMA Constants ==
  /\ 0 \notin Channels /\ 0 \in Volts /\ Attempts \in Nat /\ Attempts > 0
  /\ 0 \in 0..Attempts - 1
BY HV8Assumption

LEMMA IdleIs == Idle \in Places
BY Constants DEF Idle, Places

-----------------------------------------------------------------------------
(* Sequences                                                               *)

\* Every element of t is one of s.
Among(t, s) == \A i \in 1..Len(t) : \E j \in 1..Len(s) : t[i] = s[j]

LEMMA AmongItself == ASSUME NEW S, NEW s \in Seq(S) PROVE Among(s, s)
BY DEF Among

LEMMA EmptyAmong == ASSUME NEW s PROVE Among(<< >>, s)
BY DEF Among

LEMMA PartAmong ==
  ASSUME NEW S, NEW s \in Seq(S), NEW a \in Nat, NEW b \in Nat, 1 <= a, b <= Len(s)
  PROVE  SubSeq(s, a, b) \in Seq(S) /\ Among(SubSeq(s, a, b), s)
<1>1. SubSeq(s, a, b) \in Seq(S)
  OBVIOUS
<1>2. \A i \in 1..Len(SubSeq(s, a, b)) :
        SubSeq(s, a, b)[i] = s[a + i - 1] /\ a + i - 1 \in 1..Len(s)
  OBVIOUS
<1> QED
  BY <1>1, <1>2 DEF Among

\* The elements of a sequence that was made longer.
LEMMA Appended ==
  ASSUME NEW S, NEW s \in Seq(S), NEW x \in S
  PROVE  LET t == Append(s, x)
         IN /\ t \in Seq(S) /\ Len(t) = Len(s) + 1 /\ t[Len(s) + 1] = x
            /\ \A i \in 1..Len(s) : t[i] = s[i]
OBVIOUS

LEMMA AppendedTwo ==
  ASSUME NEW S, NEW s \in Seq(S), NEW x \in S, NEW y \in S
  PROVE  s \o <<x, y>> = Append(Append(s, x), y)
OBVIOUS

LEMMA AppendedOne ==
  ASSUME NEW S, NEW s \in Seq(S), NEW x \in S
  PROVE  s \o <<x>> = Append(s, x)
OBVIOUS

LEMMA AppendedNone ==
  ASSUME NEW S, NEW s \in Seq(S)
  PROVE  s \o << >> = s
OBVIOUS

\* The elements of a sequence whose head was taken.
LEMMA Behind ==
  ASSUME NEW S, NEW s \in Seq(S), s # << >>
  PROVE  /\ Head(s) = s[1] /\ Head(s) \in S /\ Tail(s) \in Seq(S)
         /\ Len(s) \in Nat /\ Len(s) > 0 /\ Len(Tail(s)) = Len(s) - 1
         /\ \A i \in 1..Len(s) - 1 : Tail(s)[i] = s[i + 1]
OBVIOUS

\* The first of some elements.
LEMMA FirstOf ==
  ASSUME NEW n \in Nat, NEW P \in SUBSET (1..n), P # {}
  PROVE  \E i \in P : \A j \in 1..i - 1 : j \notin P
<1>1. P \subseteq Nat
  OBVIOUS
<1>2. PICK i \in P : \A j \in P : ~(<<j, i>> \in OpToRel(<, Nat))
  BY <1>1, WFMin, NatLessThanWellFounded
<1>3. \A j \in P : ~(j < i)
  BY <1>1, <1>2 DEF OpToRel
<1>4. \A j \in 1..i - 1 : j \notin P
  <2>1. i \in Nat
    BY <1>1
  <2> QED
    BY <1>3, <2>1
<1> QED
  BY <1>4

-----------------------------------------------------------------------------
(* What the driver does with an answer                                     *)

Harmless(writes) == writes = << >> \/ \E x \in Plain : writes = <<[does |-> x]>>

\* of a call that goes on, what it is about
Same(a, b) == b.op = a.op /\ b.chan = a.chan /\ b.volt = a.volt

Seen(text) == text # << >> /\ Last(text).says = "+>"

GivesUp(a, next) == next.at = Idle /\ Harmless(next.writes) /\ ~next.success

Stays(a, next) ==
  /\ Same(a, next.at) /\ next.at.step = a.step /\ next.at.pc # "idle"
  /\ next.at.pc = "table" => a.pc = "table"
  /\ Harmless(next.writes) /\ ~next.success

Restarts(a, next) ==
  /\ a.op = "set" /\ a.step > 0
  /\ Same(a, next.at) /\ next.at.step = 1 /\ next.at.pc = "prompt"
  /\ Harmless(next.writes) /\ ~next.success

GoesOn(a, next) ==
  /\ a.op = "set" /\ a.step \in 0..2
  /\ Same(a, next.at) /\ next.at.step = a.step + 1 /\ next.at.pc = "prompt"
  /\ ~next.success
  /\ a.step = 0 => next.writes = << >>
  /\ a.step = 1 => next.writes = <<[does |-> "s", chan |-> a.chan]>>
  /\ a.step = 2 => next.writes = <<[does |-> "v", volt |-> a.volt]>>

Succeeds(a, next) ==
  a.op = "set" /\ a.step = 3 /\ next.at = Idle /\ next.writes = << >> /\ next.success

BootDone(a, next) ==
  /\ a.op = "boot" /\ next.at.op = "get" /\ next.at.pc = "prompt" /\ next.at.step = 0
  /\ next.writes = << >> /\ ~next.success

Asks(a, next) ==
  /\ a.op = "get" /\ Same(a, next.at) /\ next.at.step = a.step /\ next.at.pc = "table"
  /\ next.writes = <<[does |-> "R", for |-> calls], [does |-> "return"]>> /\ ~next.success

Failing(a, next) == next.at \in Places /\ (GivesUp(a, next) \/ Stays(a, next) \/ Restarts(a, next))

Passing(a, next) ==
  next.at \in Places
    /\ (GoesOn(a, next) \/ Succeeds(a, next) \/ BootDone(a, next) \/ Asks(a, next))

LEMMA ReturnIs ==
  ASSUME NEW a, NEW next, next = Return
  PROVE  next.at \in Places /\ next.writes = << >> /\ GivesUp(a, next)
BY IdleIs DEF Return, Go, GivesUp, Harmless

\* GotPrompt, without and with the supply's welcome
Refused(a) == GotPrompt(a, FALSE)
Welcome(a) == GotPrompt(a, TRUE)

\* Places that differ in where the call is.
At(a, s, p, t, r) == [a EXCEPT !.step = s, !.pc = p, !.tries = t, !.rounds = r]

LEMMA PlaceType ==
  ASSUME NEW a \in Places
  PROVE  /\ a.step \in 0..3 /\ a.tries \in 0..Attempts - 1 /\ a.rounds \in 0..Attempts - 1
         /\ a.step \in Int /\ a.tries \in Int /\ a.rounds \in Int
         /\ a.op \in {"none", "boot", "get", "set"} /\ a.volt \in Volts
         /\ a.chan \in Channels \cup {0}
         /\ a.pc \in {"idle", "prompt", "login", "password", "table"}
<1>1. /\ a.step \in 0..3 /\ a.tries \in 0..Attempts - 1 /\ a.rounds \in 0..Attempts - 1
      /\ a.op \in {"none", "boot", "get", "set"} /\ a.volt \in Volts
      /\ a.chan \in Channels \cup {0}
      /\ a.pc \in {"idle", "prompt", "login", "password", "table"}
  BY DEF Places
<1> QED
  BY <1>1

LEMMA NotLogged ==
  ASSUME NEW a \in Places, a.op # "none", NEW next, next = Refused(a)
  PROVE  /\ next.at \in Places /\ next.writes = << >>
         /\ GivesUp(a, next) \/ Restarts(a, next)
<1>1. CASE next = Return
  BY <1>1, ReturnIs
<1>2. CASE a.op = "set" /\ a.step # 0 /\ next = NextRound(a) /\ next # Return
  <2>1. a.rounds + 1 < Attempts
    BY <1>2 DEF NextRound
  <2> DEFINE b == At(a, 1, "prompt", 0, a.rounds + 1)
  <2>2. next = Prompt([a EXCEPT !.rounds = a.rounds + 1, !.step = 1])
    BY <1>2, <2>1 DEF NextRound
  <2>3. next = [at |-> b, writes |-> << >>, success |-> FALSE]
    BY <2>2 DEF Prompt, Go, At, Places
  <2>4. a.rounds + 1 \in 0..Attempts - 1 /\ 0 \in 0..Attempts - 1 /\ 1 \in 0..3
    BY <2>1, PlaceType, Constants
  <2>5. b \in Places /\ Same(a, b) /\ b.step = 1 /\ b.pc = "prompt"
    BY <2>4 DEF At, Places, Same
  <2>6. next.at = b /\ next.writes = << >> /\ ~next.success
    <3> HIDE DEF b
    <3> QED
      BY <2>3
  <2>7. a.step > 0
    BY <1>2, PlaceType
  <2> HIDE DEF b
  <2> QED
    BY <1>2, <2>5, <2>6, <2>7 DEF Restarts, Harmless
<1> QED
  BY <1>1, <1>2 DEF Refused, Welcome, GotPrompt, SetGoesOn, Places

LEMMA IsLogged ==
  ASSUME NEW a \in Places, a.op # "none", calls \in Nat, NEW next, next = Welcome(a)
  PROVE  Passing(a, next)
<1>1. CASE a.op = "set"
  <2> DEFINE b == At(a, a.step + 1, "prompt", 0, a.rounds)
  <2>1. Prompt([a EXCEPT !.step = a.step + 1]) = Go(b, << >>)
    BY DEF Prompt, At, Places
  <2>2. CASE a.step = 3
    <3>1. next = [Return EXCEPT !.success = TRUE]
      BY <1>1, <2>2 DEF Refused, Welcome, GotPrompt, SetGoesOn
    <3>2. next.at = Idle /\ next.writes = << >> /\ next.success
      BY <3>1 DEF Return, Go
    <3> QED
      BY <1>1, <2>2, <3>2, IdleIs DEF Passing, Succeeds
  <2>3. CASE a.step \in 0..2
    <3>1. b \in Places /\ Same(a, b) /\ b.step = a.step + 1 /\ b.pc = "prompt"
      <4>1. a.step + 1 \in 0..3 /\ 0 \in 0..Attempts - 1 /\ a.rounds \in 0..Attempts - 1
        BY <2>3, PlaceType, Constants
      <4> QED
        BY <4>1 DEF At, Places, Same
    <3>2. /\ next.at = b /\ ~next.success
          /\ a.step = 0 => next.writes = << >>
          /\ a.step = 1 => next.writes = <<[does |-> "s", chan |-> a.chan]>>
          /\ a.step = 2 => next.writes = <<[does |-> "v", volt |-> a.volt]>>
      <4> HIDE DEF b
      <4> QED
        BY <1>1, <2>1, <2>3 DEF Refused, Welcome, GotPrompt, SetGoesOn, Go
    <3> HIDE DEF b
    <3> QED
      BY <1>1, <2>3, <3>1, <3>2 DEF Passing, GoesOn
  <2> QED
    BY <2>2, <2>3, PlaceType
<1>2. CASE a.op = "boot"
  <2> DEFINE b == [Idle EXCEPT !.op = "get", !.pc = "prompt", !.tries = 0]
  <2>1. next = [at |-> b, writes |-> << >>, success |-> FALSE]
    BY <1>2 DEF Refused, Welcome, GotPrompt, Prompt, Go, Idle
  <2>2. b \in Places /\ b.op = "get" /\ b.pc = "prompt" /\ b.step = 0
    <3>1. Idle \in Places /\ Idle.step = 0 /\ 0 \in 0..Attempts - 1
      BY IdleIs, Constants DEF Idle
    <3> QED
      BY <3>1 DEF Places
  <2> HIDE DEF b
  <2> QED
    BY <1>2, <2>1, <2>2 DEF Passing, BootDone
<1>3. CASE a.op = "get"
  <2> DEFINE b == At(a, a.step, "table", a.tries, a.rounds)
  <2>1. [a EXCEPT !.pc = "table"] = b
    BY DEF At, Places
  <2>2. b \in Places /\ Same(a, b) /\ b.step = a.step /\ b.pc = "table"
    <3>1. /\ a.step \in 0..3 /\ a.tries \in 0..Attempts - 1 /\ a.rounds \in 0..Attempts - 1
          /\ "table" \in {"prompt", "login", "password", "table"}
      BY PlaceType
    <3> QED
      BY <3>1 DEF At, Places, Same
  <2>3. next = [at |-> b, success |-> FALSE,
                writes |-> <<[does |-> "R", for |-> calls], [does |-> "return"]>>]
    BY <1>3, <2>1 DEF Refused, Welcome, GotPrompt, AskTable, Go
  <2> HIDE DEF b
  <2> QED
    BY <1>3, <2>2, <2>3 DEF Passing, Asks
<1> QED
  BY <1>1, <1>2, <1>3, PlaceType

LEMMA RetryIs ==
  ASSUME NEW a \in Places, a.op # "none", a.pc # "idle", NEW x \in Plain,
         NEW next, next = Retry(a, x)
  PROVE  /\ Failing(a, next)
         /\ a.tries + 1 >= Attempts => next.writes = << >> /\ (GivesUp(a, next) \/ Restarts(a, next))
<1>1. CASE a.tries + 1 < Attempts
  <2> DEFINE b == At(a, a.step, a.pc, a.tries + 1, a.rounds)
  <2>1. next = [at |-> b, writes |-> <<[does |-> x]>>, success |-> FALSE]
    BY <1>1 DEF Retry, Go, At, Places
  <2>2. a.tries + 1 \in 0..Attempts - 1
    BY <1>1, PlaceType, Constants
  <2>3. b \in Places /\ Same(a, b) /\ b.step = a.step /\ b.pc = a.pc
    BY <2>2 DEF At, Places, Same
  <2> HIDE DEF b
  <2>4. Stays(a, next)
    BY <2>1, <2>3 DEF Stays, Harmless
  <2>5. ~(a.tries + 1 >= Attempts)
    BY <1>1, PlaceType, Constants
  <2> QED
    BY <2>1, <2>3, <2>4, <2>5 DEF Failing
<1>2. CASE ~(a.tries + 1 < Attempts)
  <2>1. next = Refused(a)
    BY <1>2 DEF Retry, Refused
  <2> QED
    BY <2>1, NotLogged DEF Failing
<1> QED
  BY <1>1, <1>2

LEMMA RetryPromptIs ==
  ASSUME NEW a \in Places, a.op # "none", a.pc # "idle", NEW next, next = RetryPrompt(a)
  PROVE  Failing(a, next)
<1> DEFINE last == Retry(a, "return")
<1>1. /\ Failing(a, last)
      /\ a.tries + 1 >= Attempts => last.writes = << >> /\ (GivesUp(a, last) \/ Restarts(a, last))
  BY RetryIs DEF Plain
<1>2. CASE a.tries + 1 < Attempts
  BY <1>1, <1>2 DEF RetryPrompt
<1>3. CASE ~(a.tries + 1 < Attempts)
  <2>1. a.tries + 1 >= Attempts
    BY <1>3, PlaceType, Constants
  <2>2. next = [last EXCEPT !.writes = <<[does |-> "return"]>> \o last.writes]
    BY <1>3 DEF RetryPrompt
  <2> HIDE DEF last
  <2>3. /\ next.at = last.at /\ next.success = last.success
        /\ next.writes = <<[does |-> "return"]>> \o last.writes
    BY <2>2
  <2>4. next.writes = <<[does |-> "return"]>>
    <3>1. <<[does |-> "return"]>> \in Seq(Commands)
      BY DEF Commands, Plain
    <3>2. <<[does |-> "return"]>> \o << >> = <<[does |-> "return"]>>
      BY <3>1, AppendedNone
    <3> QED
      BY <1>1, <2>1, <2>3, <3>2
  <2> QED
    BY <1>1, <2>1, <2>3, <2>4 DEF Failing, GivesUp, Restarts, Harmless, Plain
<1> QED
  BY <1>2, <1>3

\* A read that saw the mark of the supply, or is of the table, may go on; any
\* other asks again or gives up.
LEMMA ReplyIs ==
  ASSUME NEW a \in Places, a.op # "none", a.pc # "idle", a.pc = "table" => a.op = "get",
         calls \in Nat, NEW text \in Seq(Texts), NEW again \in BOOLEAN,
         NEW next, next = Reply(a, text, again)
  PROVE  /\ Failing(a, next) \/ (Passing(a, next) /\ (Seen(text) \/ a.pc = "table"))
         /\ a.pc = "table" /\ HasTable(text) => next = Return
<1>0. Says(text) = "+>" => Seen(text)
  BY DEF Says, Seen
<1>1. CASE a.pc = "prompt"
  <2>1. next = AtPrompt(a, text)
    BY <1>1 DEF Reply
  <2>2. CASE Says(text) = "+>"
    <3>1. next = Welcome(a)
      BY <2>1, <2>2 DEF AtPrompt, Welcome
    <3> QED
      BY <1>0, <1>1, <2>2, <3>1, IsLogged
  <2>3. CASE Says(text) = "->"
    <3> DEFINE b == At(a, a.step, "login", 0, a.rounds)
    <3>1. next = [at |-> b, writes |-> <<[does |-> "L"]>>, success |-> FALSE]
      BY <2>1, <2>3 DEF AtPrompt, Go, At, Places
    <3>2. b \in Places /\ Same(a, b) /\ b.step = a.step /\ b.pc = "login"
      BY Constants DEF At, Places, Same
    <3> HIDE DEF b
    <3> QED
      BY <1>1, <3>1, <3>2 DEF Failing, Stays, Harmless, Plain
  <2>4. CASE Says(text) \notin {"+>", "->"}
    <3>1. next = RetryPrompt(a)
      BY <2>1, <2>4 DEF AtPrompt
    <3> QED
      BY <1>1, <3>1, RetryPromptIs
  <2> QED
    BY <2>2, <2>3, <2>4
<1>2. CASE a.pc = "login"
  <2>1. next = AtLogin(a, text)
    BY <1>2 DEF Reply
  <2>2. CASE Says(text) = "Login:"
    <3> DEFINE b == At(a, a.step, "password", 0, a.rounds)
    <3>1. next = [at |-> b, writes |-> <<[does |-> "HV8"]>>, success |-> FALSE]
      BY <2>1, <2>2 DEF AtLogin, Go, At, Places
    <3>2. b \in Places /\ Same(a, b) /\ b.step = a.step /\ b.pc = "password"
      BY Constants DEF At, Places, Same
    <3> HIDE DEF b
    <3> QED
      BY <1>2, <3>1, <3>2 DEF Failing, Stays, Harmless, Plain
  <2>3. CASE Says(text) # "Login:"
    <3>1. next = Retry(a, "L") /\ "L" \in Plain
      BY <2>1, <2>3 DEF AtLogin, Plain
    <3> QED
      BY <1>2, <3>1, RetryIs
  <2> QED
    BY <2>2, <2>3
<1>3. CASE a.pc = "password"
  <2>1. next = AtPassword(a, text)
    BY <1>3 DEF Reply
  <2>2. CASE Len(text) = 1 /\ Says(text) = "+>"
    <3>1. next = Welcome(a)
      BY <2>1, <2>2 DEF AtPassword, Welcome
    <3> QED
      BY <1>0, <1>3, <2>2, <3>1, IsLogged
  <2>3. CASE ~(Len(text) = 1 /\ Says(text) = "+>")
    <3>1. next = Retry(a, "HV8") /\ "HV8" \in Plain
      BY <2>1, <2>3 DEF AtPassword, Plain
    <3> QED
      BY <1>3, <3>1, RetryIs
  <2> QED
    BY <2>2, <2>3
<1>4. CASE a.pc = "table"
  <2>1. next = AtTable(a, text, again)
    BY <1>4 DEF Reply
  <2> DEFINE b == [a EXCEPT !.rounds = a.rounds + 1]
  <2>2. CASE HasTable(text) \/ b.rounds = Attempts
    <3>1. next = Return
      BY <2>1, <2>2 DEF AtTable
    <3> QED
      BY <3>1, ReturnIs DEF Failing
  <2>3. CASE ~(HasTable(text) \/ b.rounds = Attempts)
    <3>1. a.rounds + 1 \in 0..Attempts - 1
      <4>1. b.rounds = a.rounds + 1
        BY DEF Places
      <4> QED
        BY <2>3, <4>1, PlaceType, Constants
    <3>2. b \in Places /\ Same(a, b) /\ b.step = a.step /\ b.pc = "table"
      BY <1>4, <3>1 DEF Places, Same
    <3>3. next = IF again THEN AskTable(b) ELSE Go(b, << >>)
      BY <2>1, <2>3 DEF AtTable
    <3>4. [b EXCEPT !.pc = "table"] = b
      BY <3>2 DEF Places
    <3> HIDE DEF b
    <3>5. CASE again
      <4>1. next = [at |-> b, success |-> FALSE,
                    writes |-> <<[does |-> "R", for |-> calls], [does |-> "return"]>>]
        BY <3>3, <3>4, <3>5 DEF AskTable, Go
      <4> QED
        BY <1>4, <2>3, <3>2, <4>1 DEF Passing, Asks
    <3>6. CASE ~again
      <4>1. next = [at |-> b, success |-> FALSE, writes |-> << >>]
        BY <3>3, <3>6 DEF Go
      <4> QED
        BY <1>4, <2>3, <3>2, <4>1 DEF Failing, Stays, Harmless
    <3> QED
      BY <3>5, <3>6
  <2> QED
    BY <2>2, <2>3
<1> QED
  BY <1>1, <1>2, <1>3, <1>4, PlaceType

-----------------------------------------------------------------------------
(* What the supply does with commands                                      *)

LEMMA CommandIs ==
  ASSUME NEW x \in Commands
  PROVE  /\ x.does \in {"return", "L", "HV8", "R", "s", "v"}
         /\ x.does = "R" => x.for \in Nat
         /\ x.does = "s" => x.chan \in Channels
         /\ x.does = "v" => x.volt \in Volts
BY DEF Commands, Plain

LEMMA SupplyIs ==
  ASSUME NEW s \in Supplies
  PROVE  /\ s.mode \in {"out", "login", "in"} /\ s.chosen \in Channels \cup {0}
         /\ s.volts \in [Channels -> Volts]
BY DEF Supplies

\* It stays logged in, and only s and v change what it has.
LEMMA DoesIs ==
  ASSUME NEW s \in Supplies, NEW x \in Commands, NEW r, r = Does(s, x)
  PROVE  /\ r \in Supplies
         /\ s.mode = "in" => r.mode = "in"
         /\ s.mode = "login" /\ x.does = "HV8" => r.mode = "in"
         /\ x.does \notin {"s", "v"} => r.chosen = s.chosen /\ r.volts = s.volts
         /\ x.does = "s" => r.volts = s.volts
         /\ x.does = "v" => r.chosen = s.chosen
         /\ x.does = "s" /\ s.mode = "in" => r.chosen = x.chan
         /\ x.does = "v" /\ s.mode = "in" /\ s.chosen \in Channels =>
              r.volts = [s.volts EXCEPT ![s.chosen] = x.volt]
<1>1. CASE s.mode = "out"
  BY <1>1 DEF Does, Supplies
<1>2. CASE s.mode = "login"
  BY <1>2 DEF Does, Supplies
<1>3. CASE s.mode = "in" /\ x.does = "s"
  <2>1. r = [s EXCEPT !.chosen = x.chan] /\ x.chan \in Channels
    BY <1>3, CommandIs DEF Does
  <2> QED
    BY <1>3, <2>1 DEF Supplies
<1>4. CASE s.mode = "in" /\ x.does = "v" /\ s.chosen \in Channels
  <2> DEFINE w == [s.volts EXCEPT ![s.chosen] = x.volt]
  <2>1. w \in [Channels -> Volts]
    BY <1>4, CommandIs, SupplyIs
  <2>2. r = [s EXCEPT !.volts = w]
    BY <1>4 DEF Does, Supplies
  <2> HIDE DEF w
  <2>3. r \in Supplies /\ r.mode = s.mode /\ r.volts = w /\ r.chosen = s.chosen
    BY <2>1, <2>2 DEF Supplies
  <2> QED
    BY <1>4, <2>3 DEF w
<1>5. CASE s.mode = "in" /\ x.does # "s" /\ ~(x.does = "v" /\ s.chosen \in Channels)
  <2>1. r = s
    BY <1>5 DEF Does
  <2> QED
    BY <1>5, <2>1
<1> QED
  BY <1>1, <1>2, <1>3, <1>4, <1>5, SupplyIs

\* Only "s" and "v" change what the supply is set to.
LEMMA DoesNothing ==
  ASSUME NEW s \in Supplies, NEW x \in Commands, x.does \notin {"s", "v"}
  PROVE  /\ Does(s, x) \in Supplies
         /\ Does(s, x).volts = s.volts /\ Does(s, x).chosen = s.chosen
BY DoesIs

LEMMA CourseNone ==
  ASSUME NEW s \in Supplies
  PROVE  \E f : Course(f, << >>, s) /\ f[0] = s
<1> DEFINE f == [i \in 0..0 |-> s]
<1>1. 0..0 = {0} /\ Len(<< >>) = 0
  OBVIOUS
<1>2. f \in [0..0 -> Supplies] /\ f[0] = s
  BY <1>1
<1>3. \A i, j \in 0..0 : i <= j /\ f[i].mode = "in" => f[j].mode = "in"
  BY <1>1
<1>4. Course(f, << >>, s)
  <2> HIDE DEF f
  <2> QED
    BY <1>1, <1>2, <1>3 DEF Course
<1> HIDE DEF f
<1> QED
  BY <1>2, <1>4

\* g goes on from f with the command x
OneMore(f, g, w, x, s) ==
  /\ Course(g, Append(w, x), s) /\ g[Len(w) + 1] = Does(f[Len(w)], x)
  /\ \A i \in 0..Len(w) : g[i] = f[i]

\* g leaves out the first state of f
OneLess(f, g, w, s) ==
  /\ Course(g, Tail(w), Does(s, Head(w))) /\ g[Len(w) - 1] = f[Len(w)]
  /\ \A i \in 0..Len(w) - 1 : g[i] = f[i + 1]

LEMMA CourseLonger ==
  ASSUME NEW s, NEW w \in Seq(Commands), NEW f, Course(f, w, s), NEW x \in Commands
  PROVE  \E g : OneMore(f, g, w, x, s)
<1> DEFINE n == Len(w)
           t == Append(w, x)
           r == Does(f[n], x)
           g == [i \in 0..n + 1 |-> IF i = n + 1 THEN r ELSE f[i]]
<1>1. n \in Nat /\ t \in Seq(Commands) /\ Len(t) = n + 1 /\ t[n + 1] = x
      /\ \A i \in 1..n : t[i] = w[i]
  BY Appended
<1>2. /\ f \in [0..n -> Supplies] /\ f[0] = s
      /\ \A i \in 1..n : f[i] = Does(f[i - 1], w[i])
      /\ \A i, j \in 0..n : i <= j /\ f[i].mode = "in" => f[j].mode = "in"
  BY DEF Course
<1>3. f[n] \in Supplies
  BY <1>1, <1>2
<1>4. r \in Supplies /\ (f[n].mode = "in" => r.mode = "in")
  BY <1>3, DoesIs
<1> HIDE DEF n, t, r
<1>5. g[n + 1] = r /\ \A i \in 0..n : g[i] = f[i]
  BY <1>1
<1>6. g \in [0..n + 1 -> Supplies]
  BY <1>1, <1>2, <1>4
<1> HIDE DEF g
<1>7. g[0] = s
  BY <1>1, <1>2, <1>5
<1>8. ASSUME NEW i \in 1..n + 1 PROVE g[i] = Does(g[i - 1], t[i])
  <2>1. CASE i = n + 1
    <3>1. i - 1 = n /\ n \in 0..n
      BY <1>1, <2>1
    <3> QED
      BY <1>1, <1>5, <2>1, <3>1 DEF r
  <2>2. CASE i # n + 1
    <3>1. i \in 1..n /\ i \in 0..n /\ i - 1 \in 0..n
      BY <1>1, <2>2
    <3> QED
      BY <1>1, <1>2, <1>5, <3>1
  <2> QED
    BY <2>1, <2>2
<1>9. ASSUME NEW i \in 0..n + 1, NEW j \in 0..n + 1, i <= j, g[i].mode = "in"
      PROVE  g[j].mode = "in"
  <2>1. CASE j # n + 1
    <3>1. i \in 0..n /\ j \in 0..n
      BY <1>1, <1>9, <2>1
    <3> QED
      BY <1>2, <1>5, <1>9, <3>1
  <2>2. CASE j = n + 1 /\ i # n + 1
    <3>1. i \in 0..n /\ n \in 0..n /\ i <= n
      BY <1>1, <2>2
    <3>2. f[n].mode = "in"
      BY <1>2, <1>5, <1>9, <3>1
    <3> QED
      BY <1>4, <1>5, <2>2, <3>2
  <2>3. CASE i = n + 1
    <3>1. i = j
      BY <1>1, <1>9, <2>3
    <3> QED
      BY <1>9, <3>1
  <2> QED
    BY <2>1, <2>2, <2>3
<1>10. Course(g, t, s)
  BY <1>1, <1>6, <1>7, <1>8, <1>9 DEF Course
<1> QED
  BY <1>5, <1>10 DEF n, t, r, OneMore

LEMMA CourseShorter ==
  ASSUME NEW s, NEW w \in Seq(Commands), w # << >>, NEW f, Course(f, w, s)
  PROVE  \E g : OneLess(f, g, w, s)
<1> DEFINE n == Len(w)
           t == Tail(w)
           r == Does(s, Head(w))
           g == [i \in 0..n - 1 |-> f[i + 1]]
<1>1. /\ n \in Nat /\ n > 0 /\ Len(t) = n - 1 /\ Head(w) = w[1]
      /\ \A i \in 1..n - 1 : t[i] = w[i + 1]
  BY Behind
<1>2. /\ f \in [0..n -> Supplies] /\ f[0] = s
      /\ \A i \in 1..n : f[i] = Does(f[i - 1], w[i])
      /\ \A i, j \in 0..n : i <= j /\ f[i].mode = "in" => f[j].mode = "in"
  BY DEF Course
<1>3. f[1] = r
  <2>1. 1 \in 1..n /\ 1 - 1 = 0
    BY <1>1
  <2> QED
    BY <1>1, <1>2, <2>1
<1> HIDE DEF n, t, r
<1>4. \A i \in 0..n - 1 : i + 1 \in 0..n
  BY <1>1
<1>5. g \in [0..n - 1 -> Supplies] /\ \A i \in 0..n - 1 : g[i] = f[i + 1]
  BY <1>2, <1>4
<1> HIDE DEF g
<1>6. g[0] = r /\ g[n - 1] = f[n]
  <2>1. 0 \in 0..n - 1 /\ n - 1 \in 0..n - 1 /\ 0 + 1 = 1 /\ n - 1 + 1 = n
    BY <1>1
  <2> QED
    BY <1>3, <1>5, <2>1
<1>7. ASSUME NEW i \in 1..n - 1 PROVE g[i] = Does(g[i - 1], t[i])
  <2>1. i \in 0..n - 1 /\ i - 1 \in 0..n - 1 /\ i + 1 \in 1..n /\ i + 1 - 1 = i /\ i - 1 + 1 = i
    BY <1>1
  <2>2. f[i + 1] = Does(f[i + 1 - 1], w[i + 1])
    BY <1>2, <2>1
  <2> QED
    BY <1>1, <1>5, <2>1, <2>2
<1>8. ASSUME NEW i \in 0..n - 1, NEW j \in 0..n - 1, i <= j, g[i].mode = "in"
      PROVE  g[j].mode = "in"
  <2>1. i + 1 \in 0..n /\ j + 1 \in 0..n /\ i + 1 <= j + 1
    BY <1>1, <1>8
  <2> QED
    BY <1>2, <1>5, <1>8, <2>1
<1>9. Course(g, t, r)
  BY <1>1, <1>5, <1>6, <1>7, <1>8 DEF Course
<1> QED
  BY <1>5, <1>6, <1>9 DEF n, t, r, OneLess

-----------------------------------------------------------------------------
(* The port                                                                *)

LEMMA PortIs ==
  ASSUME NEW p \in Ports
  PROVE  /\ p.data \in Seq(Texts) /\ p.reads \in Seq({">", ":"}) /\ p.timer \in BOOLEAN
         /\ p.handlers \in Seq(Handlers)
BY DEF Ports

LEMMA MatchedIs ==
  ASSUME NEW data \in Seq(Texts), NEW d
  PROVE  /\ Matched(data, d) \in Nat
         /\ Matched(data, d) > 0 =>
              Matched(data, d) \in 1..Len(data) /\ Delim(data[Matched(data, d)]) = d
<1> DEFINE P == {i \in 1..Len(data) : Delim(data[i]) = d}
<1>1. CASE P = {}
  BY <1>1 DEF Matched
<1>2. CASE P # {}
  <2>1. Len(data) \in Nat /\ P \in SUBSET (1..Len(data))
    OBVIOUS
  <2>2. PICK i \in P : \A j \in 1..i - 1 : j \notin P
    BY <1>2, <2>1, FirstOf
  <2>3. \A j \in P : i <= j
    BY <2>1, <2>2
  <2>4. Matched(data, d) = CHOOSE k \in P : \A j \in P : k <= j
    BY <1>2 DEF Matched
  <2>5. Matched(data, d) \in P
    <3> HIDE DEF P
    <3> QED
      BY <2>3, <2>4
  <2> QED
    BY <2>1, <2>5
<1> QED
  BY <1>1, <1>2

\* a read that is started ends at once or is left pending
Setup(p, d, q) ==
  \/ /\ q.reads = p.reads
     /\ \E m \in 1..Len(p.data) :
          /\ Delim(p.data[m]) = d
          /\ q.handlers = Append(p.handlers, [of |-> "read", taken |-> m])
  \/ q.reads = Append(p.reads, d) /\ q.handlers = p.handlers

LEMMA SetupIs ==
  ASSUME NEW p \in Ports, NEW d \in {">", ":"}, NEW q, q = performReadSetup(p, d)
  PROVE  q \in Ports /\ q.data = p.data /\ q.timer = p.timer /\ Setup(p, d, q)
<1> DEFINE m == Matched(p.data, d)
<1>1. m \in Nat /\ (m > 0 => m \in 1..Len(p.data) /\ Delim(p.data[m]) = d)
  BY PortIs, MatchedIs
<1>2. CASE m > 0
  <2> DEFINE x == [of |-> "read", taken |-> m]
             h == Append(p.handlers, x)
  <2>1. x \in Handlers
    BY <1>1 DEF Handlers
  <2>2. h \in Seq(Handlers)
    <3> HIDE DEF x
    <3> QED
      BY <2>1, PortIs
  <2>3. q = [p EXCEPT !.handlers = h]
    BY <1>2 DEF performReadSetup, Ports
  <2> HIDE DEF h
  <2>4. q \in Ports /\ q.data = p.data /\ q.timer = p.timer /\ q.reads = p.reads /\ q.handlers = h
    BY <2>2, <2>3 DEF Ports
  <2> QED
    BY <1>1, <1>2, <2>4 DEF h, Setup
<1>3. CASE ~(m > 0)
  <2> DEFINE r == Append(p.reads, d)
  <2>1. r \in Seq({">", ":"})
    BY PortIs
  <2>2. q = [p EXCEPT !.reads = r]
    BY <1>3 DEF performReadSetup, Ports
  <2> HIDE DEF r
  <2>3. q \in Ports /\ q.data = p.data /\ q.timer = p.timer /\ q.reads = r /\ q.handlers = p.handlers
    BY <2>1, <2>2 DEF Ports
  <2> QED
    BY <2>3 DEF r, Setup
<1> QED
  BY <1>2, <1>3

LEMMA StartedIs ==
  ASSUME NEW p \in Ports, NEW d \in {">", ":"}, NEW q, q = Started(p, d)
  PROVE  q \in Ports /\ q.data = p.data /\ q.timer /\ Setup(p, d, q)
<1> DEFINE r == performReadSetup(p, d)
<1>1. r \in Ports /\ r.data = p.data /\ r.timer = p.timer /\ Setup(p, d, r)
  BY SetupIs
<1>2. q = [r EXCEPT !.timer = TRUE]
  BY DEF Started
<1> HIDE DEF r
<1>3. /\ q \in Ports /\ q.data = r.data /\ q.timer /\ q.reads = r.reads
      /\ q.handlers = r.handlers
  BY <1>1, <1>2 DEF Ports
<1> QED
  BY <1>1, <1>3 DEF Setup

LEMMA TextIs ==
  ASSUME NEW p \in Ports, p.handlers # << >>
  PROVE  LET n == Head(p.handlers).taken
         IN /\ Text(p) \in Seq(Texts) /\ Among(Text(p), p.data)
            /\ n \in 1..Len(p.data) => Text(p) # << >> /\ Last(Text(p)) = p.data[n]
<1> DEFINE n == Head(p.handlers).taken
<1>1. p.data \in Seq(Texts) /\ n \in Nat
  <2>1. Head(p.handlers) \in Handlers
    BY PortIs, Behind
  <2> QED
    BY <2>1, PortIs DEF Handlers
<1>2. CASE n < Len(p.data) /\ n # 0
  <2>1. Text(p) = SubSeq(p.data, 1, n)
    BY <1>2 DEF Text
  <2> HIDE DEF n
  <2>2. 1 <= n /\ n <= Len(p.data)
    BY <1>1, <1>2
  <2>3. SubSeq(p.data, 1, n) \in Seq(Texts) /\ Among(SubSeq(p.data, 1, n), p.data)
    BY <1>1, <2>2, PartAmong
  <2>4. Len(SubSeq(p.data, 1, n)) = n /\ SubSeq(p.data, 1, n)[n] = p.data[n]
    BY <1>1, <2>2
  <2>5. Text(p) # << >> /\ Last(Text(p)) = p.data[n]
    BY <1>1, <2>1, <2>2, <2>4 DEF Last
  <2> QED
    BY <2>1, <2>3, <2>5 DEF n
<1>3. CASE n < Len(p.data) /\ n = 0
  <2>1. Text(p) = SubSeq(p.data, 1, n)
    BY <1>3 DEF Text
  <2>2. Text(p) = << >>
    BY <1>1, <1>3, <2>1
  <2> QED
    BY <1>3, <2>2, EmptyAmong
<1>4. CASE ~(n < Len(p.data))
  <2>1. Text(p) = p.data
    BY <1>4 DEF Text
  <2>2. Among(p.data, p.data)
    BY <1>1, AmongItself
  <2>3. n \in 1..Len(p.data) => n = Len(p.data) /\ p.data # << >>
    <3> HIDE DEF n
    <3> QED
      BY <1>1, <1>4
  <2> QED
    BY <1>1, <2>1, <2>2, <2>3 DEF Last
<1> QED
  BY <1>2, <1>3, <1>4

LEMMA CompletedIs ==
  ASSUME NEW p \in Ports, p.handlers # << >>, NEW q, q = Completed(p)
  PROVE  /\ q \in Ports /\ Among(q.data, p.data) /\ q.reads = p.reads /\ ~q.timer
         /\ q.handlers = Tail(p.handlers)
<1> DEFINE n == Head(p.handlers).taken
           rest == IF n < Len(p.data) THEN SubSeq(p.data, n + 1, Len(p.data)) ELSE << >>
           h == Tail(p.handlers)
<1>1. p.data \in Seq(Texts) /\ n \in Nat /\ h \in Seq(Handlers)
  <2>1. Head(p.handlers) \in Handlers
    BY PortIs, Behind
  <2> QED
    BY <2>1, PortIs, Behind DEF Handlers
<1>2. rest \in Seq(Texts) /\ Among(rest, p.data)
  <2>1. CASE n < Len(p.data)
    <3> HIDE DEF n
    <3>1. n + 1 \in Nat /\ Len(p.data) \in Nat /\ 1 <= n + 1 /\ Len(p.data) <= Len(p.data)
      BY <1>1
    <3> QED
      BY <1>1, <2>1, <3>1, PartAmong
  <2>2. CASE ~(n < Len(p.data))
    BY <2>2, EmptyAmong
  <2> QED
    BY <2>1, <2>2
<1>3. q = [p EXCEPT !.timer = FALSE, !.handlers = h, !.data = rest]
  BY DEF Completed, Ports
<1> HIDE DEF rest, h
<1>4. /\ q \in Ports /\ q.data = rest /\ q.reads = p.reads /\ q.timer = FALSE
      /\ q.handlers = h
  BY <1>1, <1>2, <1>3 DEF Ports
<1> QED
  BY <1>2, <1>4 DEF h

LEMMA TimedOutIs ==
  ASSUME NEW p \in Ports, p.handlers # << >>, NEW q, q = TimedOut(p)
  PROVE  /\ q \in Ports /\ q.data = p.data /\ q.reads = << >> /\ q.timer = p.timer
         /\ q.handlers = Tail(p.handlers)
<1> DEFINE h == Tail(p.handlers)
<1>1. h \in Seq(Handlers) /\ << >> \in Seq({">", ":"})
  BY PortIs, Behind
<1>2. q = [p EXCEPT !.reads = << >>, !.handlers = h]
  BY DEF TimedOut
<1> HIDE DEF h
<1>3. /\ q \in Ports /\ q.data = p.data /\ q.reads = << >> /\ q.timer = p.timer
      /\ q.handlers = h
  BY <1>1, <1>2 DEF Ports
<1> QED
  BY <1>3 DEF h

LEMMA DelimIs == \A a : DelimAt(a) \in {">", ":"}
BY DEF DelimAt

LEMMA SetupSingle ==
  ASSUME NEW p \in Ports, NEW d \in {">", ":"}, NEW q \in Ports, q.data = p.data,
         p.reads = << >>, q.timer = p.timer \/ p.handlers = << >>,
         \A i \in 1..Len(p.handlers) : p.handlers[i].of = "timer" /\ ~p.timer,
         Setup(p, d, q)
  PROVE  Single(q, d)
<1>0. p.handlers \in Seq(Handlers) /\ Len(p.handlers) \in Nat
  BY PortIs
<1>1. \A i \in 1..Len(p.handlers) : ~q.timer
  <2> SUFFICES ASSUME NEW i \in 1..Len(p.handlers) PROVE ~q.timer
    OBVIOUS
  <2>1. p.handlers # << >>
    OBVIOUS
  <2> QED
    BY <2>1
<1>2. CASE q.reads = Append(p.reads, d) /\ q.handlers = p.handlers
  <2>1. q.reads = <<d>>
    BY <1>2
  <2> QED
    BY <1>1, <1>2, <2>1 DEF Single
<1>3. CASE ~(q.reads = Append(p.reads, d) /\ q.handlers = p.handlers)
  <2>0. q.reads = << >>
    BY <1>3 DEF Setup
  <2>1. PICK m \in 1..Len(p.data) :
          /\ Delim(p.data[m]) = d
          /\ q.handlers = Append(p.handlers, [of |-> "read", taken |-> m])
    BY <1>3 DEF Setup
  <2> DEFINE x == [of |-> "read", taken |-> m]
  <2>2. x \in Handlers /\ x.of = "read" /\ x.taken = m
    <3>1. m \in Nat
      BY PortIs
    <3> QED
      BY <3>1 DEF Handlers
  <2> HIDE DEF x
  <2>3. /\ Len(q.handlers) = Len(p.handlers) + 1 /\ q.handlers[Len(p.handlers) + 1] = x
        /\ \A i \in 1..Len(p.handlers) : q.handlers[i] = p.handlers[i]
    BY <1>0, <2>1, <2>2, Appended DEF x
  <2>4. ASSUME NEW i \in 1..Len(q.handlers)
        PROVE  CASE q.handlers[i].of = "timer" -> ~q.timer
                 [] q.handlers[i].of = "read" ->
                      LET n == q.handlers[i].taken
                      IN q.reads = << >> /\ n \in 1..Len(q.data) /\ Delim(q.data[n]) = d
    <3>1. CASE i = Len(p.handlers) + 1
      <4>1. q.handlers[i].of = "read" /\ q.handlers[i].taken = m
        BY <2>2, <2>3, <3>1
      <4> QED
        BY <2>0, <2>1, <4>1
    <3>2. CASE i # Len(p.handlers) + 1
      <4>1. i \in 1..Len(p.handlers)
        BY <1>0, <2>3, <3>2
      <4> QED
        BY <1>1, <2>3, <4>1
    <3> QED
      BY <3>1, <3>2
  <2> QED
    BY <2>0, <2>4 DEF Single
<1> QED
  BY <1>2, <1>3

-----------------------------------------------------------------------------
(* One handler                                                             *)

LEMMA TextType ==
  ASSUME NEW x \in Texts
  PROVE  /\ x.says \in {"Login:", "+>", "->", "table"}
         /\ x.says = "table" => x.volts \in [Channels -> Volts] /\ x.for \in Nat
BY DEF Texts

\* the voltages in x are those that were read
Tells(x) ==
  /\ x.says = "table" /\ voltages' = x.volts
  /\ unread' = IF x.for = calls THEN {} ELSE Channels

LEMMA TableIs ==
  ASSUME NEW text \in Seq(Texts), HasTable(text)
  PROVE  \E i \in 1..Len(text) : text[i] = TableOf(text) /\ text[i].says = "table"
<1> DEFINE P == {i \in 1..Len(text) : text[i].says = "table"}
<1>1. P # {} /\ Len(text) \in Nat /\ P \in SUBSET (1..Len(text))
  BY DEF HasTable
<1>2. PICK i \in P : \A j \in 1..i - 1 : j \notin P
  <2> HIDE DEF P
  <2> QED
    BY <1>1, FirstOf
<1>3. \A j \in 1..i - 1 : text[j].says # "table"
  <2>1. \A j \in 1..i - 1 : j \in 1..Len(text)
    BY <1>1
  <2> QED
    BY <1>2, <2>1
<1> DEFINE k == CHOOSE k \in 1..Len(text) :
                  text[k].says = "table" /\ \A j \in 1..k - 1 : text[j].says # "table"
<1>4. k \in 1..Len(text) /\ text[k].says = "table"
  BY <1>2, <1>3
<1>5. text[k] = TableOf(text)
  BY DEF TableOf
<1> QED
  BY <1>4, <1>5

LEMMA ParsedIs ==
  ASSUME NEW v \in [Channels -> Volts] PROVE Parsed(v) = v
BY DEF Parsed

\* What a handler does, whatever was read.
Handled(text, next) ==
  /\ Failing(at, next) \/ (Passing(at, next) /\ (Seen(text) \/ at.pc = "table"))
  /\ at' = next.at /\ sent' = sent \o next.writes
  /\ io' \in Ports /\ Among(io'.data, io.data)
  /\ \/ voltages' = voltages /\ unread' = unread
     \/ /\ at.op = "get" /\ next.at = Idle /\ next.writes = << >> /\ ~next.success
        /\ \E i \in 1..Len(io.data) : Tells(io.data[i])
  /\ unsure' = IF next.success THEN unsure \ {at.chan} ELSE unsure

LEMMA RunOneIs ==
  ASSUME Types, PlaceInv, RunOne
  PROVE  \E text \in Seq(Texts) : Among(text, io.data) /\ \E next : Handled(text, next)
<1> DEFINE ok == Head(io.handlers).of = "read"
           text == IF ok THEN Text(io) ELSE << >>
           rest == IF ok THEN Completed(io) ELSE TimedOut(io)
<1>1. PICK again \in BOOLEAN :
        LET next == Reply(at, text, again)
            done == next.at.op = "none"
            table == TableOf(text)
        IN /\ at' = next.at /\ sent' = sent \o next.writes
           /\ io' = IF done THEN rest ELSE Started(rest, DelimAt(next.at))
           /\ voltages' = IF Reads(text) THEN Parsed(table.volts) ELSE voltages
           /\ unread' = CASE Reads(text) /\ table.for = calls -> {}
                          [] Reads(text) /\ table.for # calls -> Channels
                          [] OTHER -> unread
           /\ unsure' = IF next.success THEN unsure \ {at.chan} ELSE unsure
  BY DEF RunOne
<1>2. io \in Ports /\ io.handlers # << >> /\ at \in Places /\ at.pc # "idle" /\ at.op # "none"
  BY DEF RunOne, Types, PlaceInv, Reading
<1>3. text \in Seq(Texts) /\ Among(text, io.data)
  BY <1>2, TextIs, EmptyAmong
<1>4. rest \in Ports /\ Among(rest.data, io.data)
  BY <1>2, CompletedIs, TimedOutIs, PortIs, AmongItself
<1> DEFINE next == Reply(at, text, again)
           table == TableOf(text)
<1>5. /\ Failing(at, next) \/ (Passing(at, next) /\ (Seen(text) \/ at.pc = "table"))
      /\ at.pc = "table" /\ HasTable(text) => next = Return
  <2>1. (at.pc = "table" => at.op = "get") /\ calls \in Nat
    BY DEF PlaceInv, Types
  <2> HIDE DEF text
  <2> QED
    BY <1>2, <1>3, <2>1, ReplyIs
<1>6. /\ at' = next.at /\ sent' = sent \o next.writes
      /\ io' = IF next.at.op = "none" THEN rest ELSE Started(rest, DelimAt(next.at))
      /\ voltages' = IF Reads(text) THEN Parsed(table.volts) ELSE voltages
      /\ unread' = CASE Reads(text) /\ table.for = calls -> {}
                     [] Reads(text) /\ table.for # calls -> Channels
                     [] OTHER -> unread
      /\ unsure' = IF next.success THEN unsure \ {at.chan} ELSE unsure
  BY <1>1
<1> HIDE DEF ok, text, rest, next, table
<1>7. io' \in Ports /\ Among(io'.data, io.data)
  <2>1. CASE next.at.op = "none"
    BY <1>4, <1>6, <2>1
  <2>2. CASE next.at.op # "none"
    <3>1. io' = Started(rest, DelimAt(next.at)) /\ DelimAt(next.at) \in {">", ":"}
      BY <1>6, <2>2, DelimIs
    <3>2. io' \in Ports /\ io'.data = rest.data
      BY <1>4, <3>1, StartedIs
    <3> QED
      BY <1>4, <3>2
  <2> QED
    BY <2>1, <2>2
<1>8. CASE ~Reads(text)
  <2>1. voltages' = voltages /\ unread' = unread
    BY <1>6, <1>8
  <2> QED
    BY <1>3, <1>5, <1>6, <1>7, <2>1 DEF Handled
<1>9. CASE Reads(text)
  <2>1. at.pc = "table" /\ HasTable(text) /\ at.op = "get"
    BY <1>9 DEF Reads, PlaceInv
  <2>2. PICK i \in 1..Len(text) : text[i] = table /\ text[i].says = "table"
    BY <1>3, <2>1, TableIs DEF table
  <2>3. table \in Texts /\ table.says = "table" /\ table.volts \in [Channels -> Volts]
    <3>1. table \in Texts
      BY <1>3, <2>2
    <3> QED
      BY <2>2, <3>1, TextType
  <2>4. voltages' = table.volts
    BY <1>6, <1>9, <2>3, ParsedIs
  <2>5. unread' = IF table.for = calls THEN {} ELSE Channels
    BY <1>6, <1>9
  <2>6. PICK j \in 1..Len(io.data) : text[i] = io.data[j]
    BY <1>3 DEF Among
  <2>7. Tells(io.data[j])
    BY <2>2, <2>3, <2>4, <2>5, <2>6 DEF Tells
  <2>8. next = Return /\ next.at = Idle /\ next.writes = << >> /\ ~next.success
    BY <1>5, <2>1 DEF Return, Go
  <2>9. \/ voltages' = voltages /\ unread' = unread
        \/ /\ at.op = "get" /\ next.at = Idle /\ next.writes = << >> /\ ~next.success
           /\ \E k \in 1..Len(io.data) : Tells(io.data[k])
    BY <2>1, <2>7, <2>8
  <2>10. Handled(text, next)
    BY <1>5, <1>6, <1>7, <2>9 DEF Handled
  <2> QED
    BY <1>3, <2>10
<1> QED
  BY <1>8, <1>9

-----------------------------------------------------------------------------
(* Types and places are kept                                               *)

LEMMA WritesAre ==
  ASSUME NEW a \in Places, a.op = "set" => a.chan \in Channels, calls \in Nat, NEW next,
         Failing(a, next) \/ Passing(a, next)
  PROVE  next.writes \in Seq(Commands) /\ next.at \in Places
<1>1. next.at \in Places
  BY DEF Failing, Passing
<1>2. ASSUME NEW x \in Plain PROVE <<[does |-> x]>> \in Seq(Commands)
  BY DEF Commands
<1>3. << >> \in Seq(Commands)
  OBVIOUS
<1>4. Harmless(next.writes) => next.writes \in Seq(Commands)
  BY <1>2, <1>3 DEF Harmless
<1>5. CASE Failing(a, next)
  BY <1>1, <1>4, <1>5 DEF Failing, GivesUp, Stays, Restarts
<1>6. CASE GoesOn(a, next)
  <2>1. a.step \in {0, 1, 2} /\ a.chan \in Channels /\ a.volt \in Volts
    BY <1>6, PlaceType DEF GoesOn
  <2>2. CASE a.step = 0
    BY <1>1, <1>3, <1>6, <2>2 DEF GoesOn
  <2>3. CASE a.step = 1
    <3> DEFINE x == [does |-> "s", chan |-> a.chan]
    <3>1. x \in Commands
      BY <2>1 DEF Commands
    <3>2. next.writes = <<x>>
      BY <1>6, <2>3 DEF GoesOn
    <3> HIDE DEF x
    <3> QED
      BY <1>1, <3>1, <3>2
  <2>4. CASE a.step = 2
    <3> DEFINE x == [does |-> "v", volt |-> a.volt]
    <3>1. x \in Commands
      BY <2>1 DEF Commands
    <3>2. next.writes = <<x>>
      BY <1>6, <2>4 DEF GoesOn
    <3> HIDE DEF x
    <3> QED
      BY <1>1, <3>1, <3>2
  <2> QED
    BY <2>1, <2>2, <2>3, <2>4
<1>7. CASE Succeeds(a, next) \/ BootDone(a, next)
  BY <1>1, <1>3, <1>7 DEF Succeeds, BootDone
<1>8. CASE Asks(a, next)
  <2>1. [does |-> "R", for |-> calls] \in Commands /\ [does |-> "return"] \in Commands
    BY DEF Commands, Plain
  <2> QED
    BY <1>1, <1>8, <2>1 DEF Asks
<1> QED
  BY <1>5, <1>6, <1>7, <1>8 DEF Passing

LEMMA AnswerIs ==
  ASSUME supply \in Supplies, NEW x \in Commands
  PROVE  /\ Answers(x) \in Texts
         /\ Answers(x).says = "table" =>
              x.does = "R" /\ Answers(x).for = x.for /\ Answers(x).volts = supply.volts
         /\ Answers(x).says \in {"+>", "table"} =>
              supply.mode = "in" \/ (supply.mode = "login" /\ x.does = "HV8")
<1>1. CASE x.does = "R" /\ supply.mode = "in"
  <2>1. Answers(x) = [says |-> "table", volts |-> supply.volts, for |-> x.for]
    BY <1>1 DEF Answers
  <2>2. x.for \in Nat /\ supply.volts \in [Channels -> Volts]
    BY <1>1, CommandIs, SupplyIs
  <2> QED
    BY <1>1, <2>1, <2>2 DEF Texts
<1>2. CASE ~(x.does = "R" /\ supply.mode = "in")
  <2>1. \/ Answers(x) = [says |-> "Login:"]
        \/ Answers(x) = [says |-> "+>"] /\ supply.mode = "login" /\ x.does = "HV8"
        \/ Answers(x) = Prompting(supply.mode)
    BY <1>2 DEF Answers
  <2>2. Prompting(supply.mode) = IF supply.mode = "in" THEN [says |-> "+>"] ELSE [says |-> "->"]
    BY DEF Prompting
  <2> QED
    BY <2>1, <2>2 DEF Texts
<1> QED
  BY <1>1, <1>2

\* a place a call begins at
LEMMA BeginsAt ==
  ASSUME NEW op \in {"boot", "get"}, NEW a, a = [Idle EXCEPT !.op = op, !.pc = "prompt"]
  PROVE  a \in Places /\ a.op = op /\ a.pc = "prompt" /\ a.step = 0
<1>1. Idle \in Places /\ Idle.step = 0
  BY IdleIs DEF Idle
<1> QED
  BY <1>1 DEF Places

LEMMA PlaceNext ==
  ASSUME Types, PlaceInv, Reading, NEW text, NEW next, Handled(text, next)
  PROVE  PlaceInv' /\ sent' \in Seq(Commands) /\ at' \in Places
<1>1. at \in Places /\ calls \in Nat /\ sent \in Seq(Commands) /\ (at.op = "set" => at.chan \in Channels)
  BY DEF Types, PlaceInv
<1>2. next.writes \in Seq(Commands) /\ next.at \in Places /\ at' = next.at /\ sent' = sent \o next.writes
  BY <1>1, WritesAre DEF Handled
<1>3. sent' \in Seq(Commands)
  BY <1>1, <1>2
<1>4. PlaceInv'
  <2>1. CASE next.at = Idle
    BY <1>2, <2>1 DEF PlaceInv, Idle
  <2>2. CASE Stays(at, next)
    BY <1>1, <1>2, <2>2 DEF PlaceInv, Stays, Same, Reading, Idle
  <2>3. CASE Restarts(at, next) \/ GoesOn(at, next)
    BY <1>1, <1>2, <2>3 DEF PlaceInv, Restarts, GoesOn, Same
  <2>4. CASE Asks(at, next) \/ BootDone(at, next)
    BY <1>1, <1>2, <2>4 DEF PlaceInv, Asks, BootDone, Same
  <2> QED
    BY <2>1, <2>2, <2>3, <2>4 DEF Handled, Failing, Passing, GivesUp, Succeeds
<1> QED
  BY <1>2, <1>3, <1>4

-----------------------------------------------------------------------------
(* A read returns its own answer                                           *)

LEMMA StartSingle ==
  ASSUME NEW p \in Ports, NEW d \in {">", ":"}, p.reads = << >>, p.handlers = << >>,
         NEW q, q = Started(p, d)
  PROVE  q \in Ports /\ q.data = p.data /\ Single(q, d)
<1>1. q \in Ports /\ q.data = p.data /\ Setup(p, d, q)
  BY StartedIs
<1>2. \A i \in 1..Len(p.handlers) : p.handlers[i].of = "timer" /\ ~p.timer
  OBVIOUS
<1>3. Single(q, d)
  BY <1>1, <1>2, SetupSingle
<1> QED
  BY <1>1, <1>3

LEMMA RunOnePort ==
  ASSUME IInv, RunOne
  PROVE  PortInv' /\ stale' \in BOOLEAN /\ torn' \in BOOLEAN
<1> DEFINE ok == Head(io.handlers).of = "read"
           text == IF ok THEN Text(io) ELSE << >>
           rest == IF ok THEN Completed(io) ELSE TimedOut(io)
<1>1. PICK again \in BOOLEAN :
        LET next == Reply(at, text, again)
            done == next.at.op = "none"
        IN /\ at' = next.at
           /\ io' = IF done THEN rest ELSE Started(rest, DelimAt(next.at))
           /\ stale' = (stale \/ rest.handlers # << >>)
           /\ torn' = (torn \/ (ok /\ (text = << >> \/ Delim(Last(text)) # DelimAt(at))))
  BY DEF RunOne
<1>2. /\ at' = Reply(at, text, again).at
      /\ io' = IF at'.op = "none" THEN rest ELSE Started(rest, DelimAt(at'))
      /\ stale' = (stale \/ rest.handlers # << >>)
      /\ torn' = (torn \/ (ok /\ (text = << >> \/ Delim(Last(text)) # DelimAt(at))))
  BY <1>1
<1>3. io \in Ports /\ io.handlers # << >>
  BY DEF RunOne, IInv, Types
<1>4. io.handlers \in Seq(Handlers) /\ Head(io.handlers) = io.handlers[1]
      /\ Len(io.handlers) > 0 /\ Len(io.handlers) \in Nat /\ 1 \in 1..Len(io.handlers)
      /\ Tail(io.handlers) \in Seq(Handlers) /\ io.handlers[1] \in Handlers
  <2>1. io.handlers \in Seq(Handlers)
    BY <1>3, PortIs
  <2> QED
    BY <1>3, <2>1
<1>5. stale' \in BOOLEAN /\ torn' \in BOOLEAN
  BY <1>2
<1>6. PlaceInv'
  <2>1. Types /\ PlaceInv /\ Reading
    BY DEF IInv, RunOne
  <2>2. \E t \in Seq(Texts) : \E next : Handled(t, next)
    BY <2>1, RunOneIs
  <2> QED
    BY <2>1, <2>2, PlaceNext
<1>7. ASSUME ~stale' PROVE /\ ~torn' /\ Single(io', DelimAt(at'))
                           /\ at'.pc = "idle" =>
                                io'.reads = << >> /\ io'.handlers = << >> /\ ~io'.timer
  <2>1. ~stale /\ rest.handlers = << >>
    BY <1>2, <1>7
  <2>2. ~torn /\ Single(io, DelimAt(at))
    BY <2>1 DEF IInv, PortInv
  <2>3. ASSUME ok
        PROVE  ~torn' /\ rest \in Ports /\ rest.reads = << >> /\ ~rest.timer
    <3>1. LET n == io.handlers[1].taken
          IN io.reads = << >> /\ n \in 1..Len(io.data) /\ Delim(io.data[n]) = DelimAt(at)
      BY <1>4, <2>2, <2>3 DEF Single
    <3>2. text # << >> /\ Last(text) = io.data[io.handlers[1].taken]
      BY <1>3, <1>4, <2>3, <3>1, TextIs
    <3>3. ~torn'
      BY <1>2, <2>2, <3>1, <3>2
    <3>4. rest \in Ports /\ rest.reads = << >> /\ ~rest.timer
      BY <1>3, <2>3, <3>1, CompletedIs
    <3> QED
      BY <3>3, <3>4
  <2>4. ASSUME ~ok
        PROVE  ~torn' /\ rest \in Ports /\ rest.reads = << >> /\ ~rest.timer
    <3>1. io.handlers[1].of = "timer"
      BY <1>4, <2>4 DEF Handlers
    <3>2. ~io.timer
      BY <1>4, <2>2, <3>1 DEF Single
    <3>3. ~torn'
      BY <1>2, <2>2, <2>4
    <3>4. rest \in Ports /\ rest.reads = << >> /\ ~rest.timer
      BY <1>3, <2>4, <3>2, TimedOutIs
    <3> QED
      BY <3>3, <3>4
  <2>5. ~torn' /\ rest \in Ports /\ rest.reads = << >> /\ ~rest.timer
    BY <2>3, <2>4
  <2> HIDE DEF rest, text, ok
  <2>6. CASE at'.op = "none"
    <3>1. io' = rest
      BY <1>2, <2>6
    <3>2. rest.handlers \in Seq(Handlers) /\ Len(rest.handlers) = 0
      BY <2>1, <2>5, PortIs
    <3>3. Single(rest, DelimAt(at'))
      BY <2>5, <3>2 DEF Single
    <3> QED
      BY <2>1, <2>5, <3>1, <3>3
  <2>7. CASE at'.op # "none"
    <3>1. io' = Started(rest, DelimAt(at')) /\ DelimAt(at') \in {">", ":"}
      BY <1>2, <2>7, DelimIs
    <3>2. Single(io', DelimAt(at'))
      BY <2>1, <2>5, <3>1, StartSingle
    <3>3. at'.pc # "idle"
      BY <1>6, <2>7 DEF PlaceInv
    <3> QED
      BY <2>5, <3>2, <3>3
  <2> QED
    BY <2>6, <2>7
<1> QED
  BY <1>5, <1>7 DEF PortInv

LEMMA ReceivePort ==
  ASSUME IInv, Receive
  PROVE  PortInv' /\ io' \in Ports /\ io'.data = io.data \o line
<1> DEFINE d == Head(io.reads)
           w == io.data \o line
           r == Tail(io.reads)
           more == [io EXCEPT !.data = w, !.reads = r]
<1>1. /\ io \in Ports /\ line \in Seq(Texts) /\ io.reads # << >> /\ Reading
      /\ io' = performReadSetup(more, d)
  BY DEF IInv, Types, Receive
<1>2. /\ io.data \in Seq(Texts) /\ io.reads \in Seq({">", ":"}) /\ io.handlers \in Seq(Handlers)
      /\ Len(io.data) \in Nat /\ Len(line) \in Nat
  BY <1>1, PortIs
<1>3. w \in Seq(Texts) /\ r \in Seq({">", ":"}) /\ d \in {">", ":"}
  BY <1>1, <1>2
<1> HIDE DEF w, r, d
<1>4. /\ more \in Ports /\ more.data = w /\ more.reads = r /\ more.timer = io.timer
      /\ more.handlers = io.handlers
  BY <1>1, <1>3 DEF Ports
<1> HIDE DEF more
<1>5. io' \in Ports /\ io'.data = more.data /\ io'.timer = more.timer /\ Setup(more, d, io')
  BY <1>1, <1>3, <1>4, SetupIs
<1>6. ASSUME ~stale PROVE Single(io', DelimAt(at))
  <2>1. Single(io, DelimAt(at))
    BY <1>6 DEF IInv, PortInv
  <2>2. io.reads = <<DelimAt(at)>>
    BY <1>1, <2>1 DEF Single
  <2>3. d = DelimAt(at) /\ r = << >>
    BY <2>2 DEF d, r
  <2>4. \A i \in 1..Len(io.handlers) : io.handlers[i].of = "timer" /\ ~io.timer
    <3> SUFFICES ASSUME NEW i \in 1..Len(io.handlers)
                 PROVE  io.handlers[i].of = "timer" /\ ~io.timer
      OBVIOUS
    <3>1. io.handlers[i] \in Handlers
      BY <1>2
    <3>2. io.handlers[i].of \in {"read", "timer"}
      BY <3>1 DEF Handlers
    <3> QED
      BY <1>1, <2>1, <3>2 DEF Single
  <2> QED
    BY <1>3, <1>4, <1>5, <2>3, <2>4, SetupSingle
<1>7. stale' = stale /\ torn' = torn /\ at' = at /\ at.pc # "idle"
  BY <1>1 DEF Receive, Reading, driver
<1>8. PortInv'
  BY <1>6, <1>7 DEF IInv, PortInv
<1> QED
  BY <1>4, <1>5, <1>8 DEF w

LEMMA ExpirePort ==
  ASSUME IInv, Expire
  PROVE  PortInv' /\ io' \in Ports /\ io'.data = io.data
<1> DEFINE x == [of |-> "timer", taken |-> 0]
           h == Append(io.handlers, x)
<1>1. io \in Ports /\ Reading /\ io.timer /\ io' = [io EXCEPT !.timer = FALSE, !.handlers = h]
  BY DEF IInv, Types, Expire
<1>2. x \in Handlers /\ x.of = "timer" /\ io.handlers \in Seq(Handlers)
  BY <1>1, PortIs DEF Handlers
<1> HIDE DEF x
<1>3. /\ h \in Seq(Handlers) /\ Len(h) = Len(io.handlers) + 1 /\ h[Len(io.handlers) + 1] = x
      /\ \A i \in 1..Len(io.handlers) : h[i] = io.handlers[i]
  BY <1>2, Appended
<1> HIDE DEF h
<1>4. /\ io' \in Ports /\ io'.data = io.data /\ io'.reads = io.reads /\ ~io'.timer
      /\ io'.handlers = h
  BY <1>1, <1>3 DEF Ports
<1>5. ASSUME ~stale PROVE Single(io', DelimAt(at))
  <2>1. Single(io, DelimAt(at))
    BY <1>5 DEF IInv, PortInv
  <2>2. ASSUME NEW i \in 1..Len(h)
        PROVE  CASE h[i].of = "timer" -> ~io'.timer
                 [] h[i].of = "read" ->
                      LET n == h[i].taken
                      IN io'.reads = << >> /\ n \in 1..Len(io'.data)
                           /\ Delim(io'.data[n]) = DelimAt(at)
    <3>1. CASE i = Len(io.handlers) + 1
      BY <1>2, <1>3, <1>4, <3>1
    <3>2. CASE i # Len(io.handlers) + 1
      <4>1. i \in 1..Len(io.handlers) /\ h[i] = io.handlers[i]
        BY <1>2, <1>3, <3>2
      <4>2. io.handlers[i].of \in {"read", "timer"}
        <5>1. io.handlers[i] \in Handlers
          BY <1>2, <4>1
        <5> QED
          BY <5>1 DEF Handlers
      <4> QED
        BY <1>4, <2>1, <4>1, <4>2 DEF Single
    <3> QED
      BY <3>1, <3>2
  <2> QED
    BY <1>4, <2>1, <2>2 DEF Single
<1>6. stale' = stale /\ torn' = torn /\ at' = at /\ at.pc # "idle"
  BY <1>1 DEF Expire, Reading, driver
<1>7. PortInv'
  BY <1>5, <1>6 DEF IInv, PortInv
<1> QED
  BY <1>4, <1>7

-----------------------------------------------------------------------------
(* The supply and what the driver knows of it                              *)

LEMMA LoggedAmong ==
  ASSUME NEW s, NEW t, Among(s, t), LoggedIn(s)
  PROVE  LoggedIn(t)
BY DEF Among, LoggedIn

\* The commands t go on where w ends.
Longer(f, w, g, t) ==
  /\ Course(g, t, supply) /\ t \in Seq(Commands) /\ Len(t) >= Len(w)
  /\ \A i \in 1..Len(w) : t[i] = w[i]
  /\ \A i \in 0..Len(w) : g[i] = f[i]

LongerBy(f, w, x, g, t) ==
  /\ Longer(f, w, g, t) /\ Len(t) = Len(w) + 1 /\ t[Len(w) + 1] = x
  /\ g[Len(w) + 1] = Does(f[Len(w)], x)

LEMMA LongerOne ==
  ASSUME NEW w \in Seq(Commands), NEW f, Course(f, w, supply), NEW x \in Commands,
         NEW t, t = w \o <<x>>
  PROVE  \E g : LongerBy(f, w, x, g, t)
<1> DEFINE n == Len(w)
<1>1. t = Append(w, x)
  BY AppendedOne
<1>2. /\ n \in Nat /\ t \in Seq(Commands) /\ Len(t) = n + 1 /\ t[n + 1] = x
      /\ \A i \in 1..n : t[i] = w[i]
  BY <1>1, Appended
<1>3. PICK g : /\ Course(g, t, supply) /\ g[n + 1] = Does(f[n], x)
               /\ \A i \in 0..n : g[i] = f[i]
  <2>1. \E g : OneMore(f, g, w, x, supply)
    BY <1>1, CourseLonger
  <2> QED
    BY <1>1, <2>1 DEF OneMore
<1>4. Longer(f, w, g, t)
  <2>1. Len(t) >= n
    BY <1>2
  <2> QED
    BY <1>2, <1>3, <2>1 DEF Longer
<1> QED
  BY <1>2, <1>3, <1>4 DEF LongerBy

LEMMA EndOf ==
  ASSUME NEW w \in Seq(Commands), NEW f, Course(f, w, supply)
  PROVE  /\ f[Len(w)] \in Supplies /\ Len(w) \in Nat /\ f[0] = supply
         /\ supply.mode = "in" => f[Len(w)].mode = "in"
<1>1. Len(w) \in Nat /\ 0 \in 0..Len(w) /\ Len(w) \in 0..Len(w) /\ 0 <= Len(w)
  OBVIOUS
<1> QED
  BY <1>1 DEF Course

\* These commands leave voltages and the chosen channel alone.
Quiet(g, t, w, end) ==
  /\ g[Len(t)].volts = end.volts /\ g[Len(t)].chosen = end.chosen
  /\ \A i \in 1..Len(t) :
       t[i].does = "R" => i <= Len(w) \/ (t[i].for = calls /\ g[i].volts = end.volts)

\* No question is among the new commands.
Silent(t, w) == \A i \in 1..Len(t) : t[i].does = "R" => i <= Len(w)

LEMMA PlainWrites ==
  ASSUME NEW w \in Seq(Commands), NEW f, Course(f, w, supply), NEW writes, Harmless(writes)
  PROVE  \E g : Longer(f, w, g, w \o writes) /\ Quiet(g, w \o writes, w, f[Len(w)])
               /\ Silent(w \o writes, w)
<1>0. f[Len(w)] \in Supplies /\ Len(w) \in Nat
  BY EndOf
<1>1. CASE writes = << >>
  <2>1. w \o writes = w
    BY <1>1, AppendedNone
  <2>2. Longer(f, w, f, w)
    BY <1>0 DEF Longer
  <2>3. Quiet(f, w, w, f[Len(w)])
    BY <1>0 DEF Quiet
  <2>4. Silent(w, w)
    BY <1>0 DEF Silent
  <2> QED
    BY <2>1, <2>2, <2>3, <2>4
<1>2. ASSUME NEW y \in Plain, writes = <<[does |-> y]>>
      PROVE  \E g : Longer(f, w, g, w \o writes) /\ Quiet(g, w \o writes, w, f[Len(w)])
               /\ Silent(w \o writes, w)
  <2> DEFINE x == [does |-> y]
             t == w \o <<x>>
             n == Len(w)
  <2>1. x \in Commands /\ x.does \notin {"R", "s", "v"}
    BY <1>2 DEF Commands, Plain
  <2> HIDE DEF x
  <2>a. \E g : LongerBy(f, w, x, g, t)
    BY <2>1, LongerOne
  <2> HIDE DEF t
  <2>2. PICK g : /\ Longer(f, w, g, t) /\ Len(t) = n + 1 /\ t[n + 1] = x
                 /\ g[n + 1] = Does(f[n], x)
    BY <2>a DEF LongerBy
  <2>3. g[n + 1].volts = f[n].volts /\ g[n + 1].chosen = f[n].chosen
    BY <1>0, <2>1, <2>2, DoesNothing
  <2>4. \A i \in 1..Len(t) : t[i].does = "R" => i <= n
    BY <1>0, <2>1, <2>2
  <2>5. Quiet(g, t, w, f[n])
    BY <2>2, <2>3, <2>4 DEF Quiet
  <2>6. Silent(t, w)
    BY <2>4 DEF Silent
  <2> QED
    BY <1>2, <2>2, <2>5, <2>6 DEF x, t
<1> QED
  BY <1>1, <1>2 DEF Harmless

LEMMA AskWrites ==
  ASSUME calls \in Nat, NEW w \in Seq(Commands), NEW f, Course(f, w, supply), NEW writes,
         writes = <<[does |-> "R", for |-> calls], [does |-> "return"]>>
  PROVE  \E g : Longer(f, w, g, w \o writes) /\ Quiet(g, w \o writes, w, f[Len(w)])
<1> DEFINE x == [does |-> "R", for |-> calls]
           y == [does |-> "return"]
           n == Len(w)
           t == w \o <<x>>
           u == t \o <<y>>
<1>1. /\ x \in Commands /\ x.does = "R" /\ x.for = calls
      /\ y \in Commands /\ y.does = "return"
  BY DEF Commands, Plain
<1>2. writes = <<x, y>>
  OBVIOUS
<1> HIDE DEF x, y
<1>3. w \o writes = u
  <2>1. w \o <<x, y>> = Append(Append(w, x), y)
    BY <1>1, AppendedTwo
  <2>2. t = Append(w, x) /\ t \in Seq(Commands)
    BY <1>1, AppendedOne, Appended
  <2>3. u = Append(t, y)
    <3> HIDE DEF t
    <3> QED
      BY <1>1, <2>2, AppendedOne
  <2> QED
    BY <1>2, <2>1, <2>2, <2>3
<1>4. f[n] \in Supplies /\ n \in Nat
  BY EndOf
<1>5. PICK g : /\ Longer(f, w, g, t) /\ Len(t) = n + 1 /\ t[n + 1] = x
               /\ g[n + 1] = Does(f[n], x)
  <2>1. \E g : LongerBy(f, w, x, g, t)
    BY <1>1, LongerOne
  <2> HIDE DEF t
  <2> QED
    BY <2>1 DEF LongerBy
<1>6. g[n + 1].volts = f[n].volts /\ g[n + 1].chosen = f[n].chosen /\ g[n + 1] \in Supplies
  <2>1. x.does \notin {"s", "v"}
    BY <1>1
  <2>2. f[n] \in Supplies /\ x \in Commands
    BY <1>1, <1>4
  <2>3. g[n + 1] = Does(f[n], x)
    BY <1>5
  <2> HIDE DEF t
  <2> QED
    BY <2>1, <2>2, <2>3, DoesNothing
<1> HIDE DEF t
<1>7. t \in Seq(Commands) /\ Course(g, t, supply)
  BY <1>5 DEF Longer
<1>8. PICK h : /\ Longer(g, t, h, u) /\ Len(u) = Len(t) + 1 /\ u[Len(t) + 1] = y
               /\ h[Len(t) + 1] = Does(g[Len(t)], y)
  <2>1. \E h : LongerBy(g, t, y, h, u)
    BY <1>1, <1>7, LongerOne
  <2> HIDE DEF u
  <2> QED
    BY <2>1 DEF LongerBy
<1> HIDE DEF u
<1>9. h[n + 2] = Does(g[n + 1], y) /\ Len(u) = n + 2 /\ u[n + 2] = y
  BY <1>4, <1>5, <1>8
<1>10. h[n + 2].volts = f[n].volts /\ h[n + 2].chosen = f[n].chosen
  <2>1. /\ Does(g[n + 1], y).volts = g[n + 1].volts
        /\ Does(g[n + 1], y).chosen = g[n + 1].chosen
    <3>1. y.does \notin {"s", "v"}
      BY <1>1
    <3> QED
      BY <1>1, <1>6, <3>1, DoesNothing
  <2> QED
    BY <1>6, <1>9, <2>1
<1>11. /\ \A i \in 0..n + 1 : h[i] = g[i]
       /\ \A i \in 1..n + 1 : u[i] = t[i]
       /\ Course(h, u, supply) /\ u \in Seq(Commands)
  BY <1>5, <1>8 DEF Longer
<1>12. Longer(f, w, h, u)
  <2>1. ASSUME NEW i \in 0..n PROVE h[i] = f[i]
    <3>1. i \in 0..n + 1
      BY <1>4
    <3> QED
      BY <1>5, <1>11, <3>1 DEF Longer
  <2>2. ASSUME NEW i \in 1..n PROVE u[i] = w[i]
    <3>1. i \in 1..n + 1
      BY <1>4
    <3> QED
      BY <1>5, <1>11, <3>1 DEF Longer
  <2>3. Len(u) >= n
    BY <1>4, <1>9
  <2> QED
    BY <1>11, <2>1, <2>2, <2>3 DEF Longer
<1>13. ASSUME NEW i \in 1..Len(u), u[i].does = "R"
       PROVE  i <= n \/ (u[i].for = calls /\ h[i].volts = f[n].volts)
  <2>1. CASE i = n + 1
    <3>1. i \in 0..n + 1 /\ i \in 1..n + 1
      BY <1>4, <2>1
    <3> QED
      BY <1>1, <1>5, <1>6, <1>11, <2>1, <3>1
  <2>2. CASE i = n + 2
    BY <1>1, <1>9, <1>13, <2>2
  <2> QED
    BY <1>4, <1>9, <2>1, <2>2
<1>14. Quiet(h, u, w, f[n])
  BY <1>9, <1>10, <1>13 DEF Quiet
<1> QED
  BY <1>3, <1>12, <1>14

\* What was fresh is so after a handler: the voltages stay, or a set is under
\* way and none was.
LEMMA TablesKept ==
  ASSUME Types, NEW f, NEW g, NEW end, NEW e, TableInv(f, end), Longer(f, sent, g, sent'),
         Among(io'.data, io.data), line' = line, calls' = calls,
         \/ at.op = "set"
         \/ e.volts = end.volts /\ (at.op # "set" => at'.op # "set"),
         \A i \in 1..Len(sent') :
           sent'[i].does = "R" =>
             i <= Len(sent)
               \/ (sent'[i].for = calls /\ g[i].volts = e.volts /\ at'.op # "set")
  PROVE  TableInv(g, e)'
<1>1. ASSUME NEW n, NEW v, n <= calls /\ (n = calls => end.volts = v /\ at.op # "set")
      PROVE  n <= calls' /\ (n = calls' => e.volts = v /\ at'.op # "set")
  BY <1>1
<1>2. ASSUME NEW i \in 1..Len(io'.data), io'.data[i].says = "table"
      PROVE  io'.data[i].for <= calls' /\ (io'.data[i].for = calls' => e.volts = io'.data[i].volts /\ at'.op # "set")
  <2>1. PICK j \in 1..Len(io.data) : io'.data[i] = io.data[j]
    BY DEF Among
  <2>2. Fresh(io.data[j], end.volts)
    BY <1>2, <2>1 DEF TableInv
  <2> QED
    BY <1>1, <2>1, <2>2 DEF Fresh
<1>3. ASSUME NEW i \in 1..Len(line'), line'[i].says = "table"
      PROVE  line'[i].for <= calls' /\ (line'[i].for = calls' => e.volts = line'[i].volts /\ at'.op # "set")
  <2>1. Fresh(line[i], end.volts)
    BY <1>3 DEF TableInv
  <2> QED
    BY <1>1, <2>1 DEF Fresh
<1>4. ASSUME NEW i \in 1..Len(sent'), sent'[i].does = "R"
      PROVE  sent'[i].for <= calls' /\ (sent'[i].for = calls' => e.volts = g[i].volts /\ at'.op # "set")
  <2>0. sent \in Seq(Commands) /\ Len(sent) \in Nat /\ Len(sent') \in Nat /\ calls \in Nat
    BY DEF Types, Longer
  <2>1. CASE i <= Len(sent)
    <3>1. i \in 1..Len(sent) /\ i \in 0..Len(sent)
      BY <2>0, <2>1
    <3>2. sent'[i] = sent[i] /\ g[i] = f[i]
      BY <3>1 DEF Longer
    <3>3. Fresh([for |-> sent[i].for, volts |-> f[i].volts], end.volts)
      BY <1>4, <3>1, <3>2 DEF TableInv
    <3>4. /\ sent[i].for <= calls
          /\ sent[i].for = calls => end.volts = f[i].volts /\ at.op # "set"
      BY <3>3 DEF Fresh
    <3>5. /\ sent[i].for <= calls'
          /\ sent[i].for = calls' => e.volts = f[i].volts /\ at'.op # "set"
      BY <1>1, <3>4
    <3> QED
      BY <3>2, <3>5
  <2>2. CASE ~(i <= Len(sent))
    <3>1. sent'[i].for = calls /\ g[i].volts = e.volts /\ at'.op # "set"
      BY <1>4, <2>2
    <3> QED
      BY <2>0, <3>1
  <2> QED
    BY <2>1, <2>2
<1> QED
  BY <1>2, <1>3, <1>4 DEF TableInv, Fresh

LEMMA RunOneSupply ==
  ASSUME IInv, RunOne, ~mishap'
  PROVE  SupplyInv'
<1>1. /\ line' = line /\ supply' = supply /\ calls' = calls /\ wanted' = wanted
      /\ ~mishap /\ Reading
  BY DEF RunOne
<1>2. Types /\ PlaceInv /\ ModeInv
  BY <1>1 DEF IInv, SupplyInv
<1>3. PICK f : Course(f, sent, supply) /\ SetInv(f[Len(sent)]) /\ TableInv(f, f[Len(sent)])
  BY <1>1 DEF IInv, SupplyInv
<1>4. PICK text \in Seq(Texts) : Among(text, io.data) /\ \E next : Handled(text, next)
  BY <1>2, RunOneIs
<1>5. PICK next : Handled(text, next)
  BY <1>4
<1>6. /\ at' = next.at /\ sent' = sent \o next.writes /\ Among(io'.data, io.data)
      /\ unsure' = IF next.success THEN unsure \ {at.chan} ELSE unsure
      /\ at.op # "none" /\ at.pc # "idle" /\ at \in Places
      /\ sent \in Seq(Commands) /\ supply \in Supplies /\ sent' \in Seq(Commands)
      /\ at.op = "set" => at.chan \in Channels
  BY <1>1, <1>2, <1>5, PlaceNext DEF Handled, PlaceInv, Types, Reading
<1>7. PICK end : end = f[Len(sent)]
  OBVIOUS
<1>8. /\ end \in Supplies /\ (supply.mode = "in" => end.mode = "in")
      /\ SetInv(end) /\ TableInv(f, end)
  BY <1>3, <1>6, <1>7, EndOf
<1>9. LoggedIn(io'.data) => LoggedIn(io.data)
  BY <1>6, LoggedAmong
<1>10. Seen(text) => supply.mode = "in"
  <2> SUFFICES ASSUME Seen(text) PROVE LoggedIn(io.data)
    BY <1>2 DEF ModeInv
  <2>1. Len(text) \in 1..Len(text) /\ text[Len(text)].says = "+>"
    BY DEF Seen, Last
  <2>2. LoggedIn(text)
    BY <2>1 DEF LoggedIn
  <2> QED
    BY <1>4, <2>2, LoggedAmong
<1>11. ASSUME ModeInv', NEW g, NEW e, e = g[Len(sent')], Longer(f, sent, g, sent'),
              SetInv(e)', TableInv(g, e)'
       PROVE  SupplyInv'
  <2>1. Course(g, sent', supply')
    BY <1>1, <1>11 DEF Longer
  <2> QED
    BY <1>11, <2>1 DEF SupplyInv
<1>12. /\ \A c \in Channels \ unread' : end.volts[c] = voltages'[c]
       /\ at.op # "get" \/ next.at # Idle => voltages' = voltages /\ unread' = unread
  <2>1. CASE voltages' = voltages /\ unread' = unread
    BY <1>8, <2>1 DEF SetInv
  <2>2. CASE /\ at.op = "get" /\ next.at = Idle
             /\ \E i \in 1..Len(io.data) : Tells(io.data[i])
    <3>1. PICK i \in 1..Len(io.data) : Tells(io.data[i])
      BY <2>2
    <3>2. Fresh(io.data[i], end.volts)
      BY <1>8, <3>1 DEF TableInv, Tells
    <3> QED
      BY <2>2, <3>1, <3>2 DEF Fresh, Tells
  <2> QED
    BY <1>5, <2>1, <2>2 DEF Handled
<1>13. ASSUME Harmless(next.writes), ModeInv',
              at'.op = "set" => /\ at.op = "set" /\ Same(at, at') /\ ~next.success
                                /\ at'.step <= at.step \/ at'.step <= 1,
              \A c \in Channels \ unsure' : end.volts[c] = wanted[c]
       PROVE  SupplyInv'
  <2>1. PICK g : /\ Longer(f, sent, g, sent') /\ Quiet(g, sent', sent, end)
                 /\ Silent(sent', sent)
    BY <1>3, <1>6, <1>7, <1>13, PlainWrites
  <2>2. PICK e : e = g[Len(sent')]
    OBVIOUS
  <2>3. e.volts = end.volts /\ e.chosen = end.chosen
    BY <2>1, <2>2 DEF Quiet
  <2>4. SetInv(e)'
    <3>1. at'.op = "set" =>
            /\ at'.chan \in unsure' \cap unread' /\ at'.volt = wanted'[at'.chan]
            /\ at'.step > 1 => e.chosen = at'.chan
            /\ at'.step > 2 => e.volts[at'.chan] = at'.volt
      <4> SUFFICES ASSUME at'.op = "set"
                   PROVE  /\ at'.chan \in unsure' \cap unread' /\ at'.volt = wanted'[at'.chan]
                          /\ at'.step > 1 => e.chosen = at'.chan
                          /\ at'.step > 2 => e.volts[at'.chan] = at'.volt
        OBVIOUS
      <4>1. /\ at.op = "set" /\ at'.chan = at.chan /\ at'.volt = at.volt
            /\ at'.step <= at.step \/ at'.step <= 1
        BY <1>13 DEF Same
      <4>2. unsure' = unsure /\ unread' = unread
        BY <1>6, <1>12, <1>13, <4>1
      <4>3. /\ at.chan \in unsure \cap unread /\ at.volt = wanted[at.chan]
            /\ at.step > 1 => end.chosen = at.chan
            /\ at.step > 2 => end.volts[at.chan] = at.volt
        BY <1>8, <4>1 DEF SetInv
      <4>4. at.step \in Int /\ at'.step \in Int
        BY <1>2, <1>1, <1>5, <1>6, PlaceNext, PlaceType
      <4>5. (at'.step > 1 => at.step > 1) /\ (at'.step > 2 => at.step > 2)
        BY <4>1, <4>4
      <4> QED
        BY <1>1, <2>3, <4>1, <4>2, <4>3, <4>5
    <3> QED
      BY <1>1, <1>12, <1>13, <2>3, <3>1 DEF SetInv
  <2>5. TableInv(g, e)'
    <3>1. at.op # "set" => at'.op # "set"
      BY <1>13
    <3>2. \A i \in 1..Len(sent') : sent'[i].does = "R" => i <= Len(sent)
      BY <2>1 DEF Silent
    <3> QED
      BY <1>1, <1>2, <1>6, <1>8, <2>1, <2>3, <3>1, <3>2, TablesKept
  <2> QED
    BY <1>11, <1>13, <2>1, <2>2, <2>4, <2>5
<1>14. ~next.success => \A c \in Channels \ unsure' : end.volts[c] = wanted[c]
  BY <1>6, <1>8 DEF SetInv
<1>15. CASE Failing(at, next)
  <2>1. /\ Harmless(next.writes) /\ ~next.success
        /\ at'.step > 0 => at.step > 0
        /\ at'.pc = "table" => at.pc = "table"
        /\ at'.op = "set" => at.op = "set" /\ Same(at, at') /\ at'.step <= at.step
    <3>0. at.step \in 0..3
      BY <1>6, PlaceType
    <3>1. at.step \in Nat /\ Idle.step = 0 /\ Idle.pc = "idle" /\ Idle.op = "none"
      BY <3>0 DEF Idle
    <3>2. CASE GivesUp(at, next)
      BY <1>6, <3>1, <3>2 DEF GivesUp
    <3>3. CASE Stays(at, next)
      BY <1>6, <3>1, <3>3 DEF Stays, Same
    <3>4. CASE Restarts(at, next)
      BY <1>6, <3>1, <3>4 DEF Restarts, Same
    <3> QED
      BY <1>15, <3>2, <3>3, <3>4 DEF Failing
  <2>2. ModeInv'
    BY <1>1, <1>2, <1>9, <2>1 DEF ModeInv
  <2> QED
    BY <1>13, <1>14, <2>1, <2>2
<1>16. CASE Passing(at, next) /\ (Seen(text) \/ at.pc = "table")
  <2>1. supply.mode = "in" /\ end.mode = "in"
    BY <1>2, <1>8, <1>10, <1>16 DEF ModeInv
  <2>2. ModeInv'
    BY <1>1, <2>1 DEF ModeInv
  <2>3. CASE Succeeds(at, next)
    <3>1. at'.op # "set" /\ Harmless(next.writes) /\ unsure' = unsure \ {at.chan}
      BY <1>6, <2>3 DEF Succeeds, Idle, Harmless
    <3>2. end.volts[at.chan] = wanted[at.chan]
      BY <1>8, <2>3 DEF SetInv, Succeeds
    <3>3. \A c \in Channels \ unsure' : end.volts[c] = wanted[c]
      BY <1>8, <3>1, <3>2 DEF SetInv
    <3> QED
      BY <1>13, <2>2, <3>1, <3>3
  <2>4. CASE BootDone(at, next)
    <3>1. at'.op # "set" /\ Harmless(next.writes) /\ ~next.success
      BY <1>6, <2>4 DEF BootDone, Harmless
    <3> QED
      BY <1>13, <1>14, <2>2, <3>1
  <2>5. CASE GoesOn(at, next) /\ at.step = 0
    <3>1. /\ Harmless(next.writes) /\ ~next.success /\ at'.step = 1
          /\ at.op = "set" /\ Same(at, at')
      BY <1>6, <2>5 DEF GoesOn, Harmless
    <3>2. at'.step <= 1
      BY <3>1
    <3> QED
      BY <1>13, <1>14, <2>2, <3>1, <3>2
  <2>6. CASE Asks(at, next)
    <3>1. /\ next.writes = <<[does |-> "R", for |-> calls], [does |-> "return"]>>
          /\ at.op = "get" /\ at'.op = "get" /\ ~next.success
      BY <1>6, <2>6 DEF Asks, Same
    <3>2. PICK g : Longer(f, sent, g, sent') /\ Quiet(g, sent', sent, end)
      <4>1. calls \in Nat
        BY <1>2 DEF Types
      <4>2. \E g : /\ Longer(f, sent, g, sent \o next.writes)
                   /\ Quiet(g, sent \o next.writes, sent, f[Len(sent)])
        BY <1>3, <1>6, <3>1, <4>1, AskWrites
      <4> QED
        BY <1>6, <1>7, <4>2
    <3>3. PICK e : e = g[Len(sent')]
      OBVIOUS
    <3>4. e.volts = end.volts
      BY <3>2, <3>3 DEF Quiet
    <3>5. SetInv(e)'
      BY <1>1, <1>12, <1>14, <3>1, <3>4 DEF SetInv
    <3>6. TableInv(g, e)'
      <4>1. \A i \in 1..Len(sent') :
              sent'[i].does = "R" =>
                i <= Len(sent)
                  \/ (sent'[i].for = calls /\ g[i].volts = e.volts /\ at'.op # "set")
        BY <3>1, <3>2, <3>4 DEF Quiet
      <4> QED
        BY <1>1, <1>2, <1>6, <1>8, <3>1, <3>2, <3>4, <4>1, TablesKept
    <3> QED
      BY <1>11, <2>2, <3>2, <3>3, <3>5, <3>6
  <2>7. ASSUME GoesOn(at, next), NEW x \in Commands, x.does # "R", next.writes = <<x>>,
               NEW e, e = Does(end, x),
               at'.step > 1 => e.chosen = at.chan,
               at'.step > 2 => e.volts[at.chan] = at.volt,
               \A c \in Channels : c # at.chan => e.volts[c] = end.volts[c]
        PROVE  SupplyInv'
    <3>1. /\ at.op = "set" /\ at'.op = "set" /\ Same(at, at') /\ at'.step = at.step + 1
          /\ ~next.success
      BY <1>6, <2>7 DEF GoesOn, Same
    <3>2. /\ at.chan \in unsure \cap unread /\ at.volt = wanted[at.chan]
          /\ unsure' = unsure /\ unread' = unread /\ voltages' = voltages
      BY <1>6, <1>8, <1>12, <3>1 DEF SetInv
    <3>3. PICK g : /\ Longer(f, sent, g, sent') /\ Len(sent') = Len(sent) + 1
                   /\ sent'[Len(sent) + 1] = x /\ g[Len(sent) + 1] = e
      <4>1. sent' = sent \o <<x>>
        BY <1>6, <1>7, <2>7
      <4>2. \E g : LongerBy(f, sent, x, g, sent')
        BY <1>3, <1>6, <4>1, LongerOne
      <4> QED
        BY <1>6, <1>7, <2>7, <4>2 DEF LongerBy
    <3>4. SetInv(e)'
      <4>1. /\ at'.chan \in unsure' \cap unread' /\ at'.volt = wanted'[at'.chan]
            /\ at'.step > 1 => e.chosen = at'.chan
            /\ at'.step > 2 => e.volts[at'.chan] = at'.volt
        BY <1>1, <2>7, <3>1, <3>2 DEF Same
      <4>2. \A c \in Channels \ unsure' : e.volts[c] = wanted'[c]
        BY <1>1, <1>8, <2>7, <3>2 DEF SetInv
      <4>3. \A c \in Channels \ unread' : e.volts[c] = voltages'[c]
        BY <1>8, <2>7, <3>2 DEF SetInv
      <4> QED
        BY <4>1, <4>2, <4>3 DEF SetInv
    <3>5. TableInv(g, e)'
      <4>1. \A i \in 1..Len(sent') : sent'[i].does = "R" => i <= Len(sent)
        <5>1. Len(sent) \in Nat
          BY <1>6
        <5> QED
          BY <2>7, <3>3, <5>1
      <4> QED
        BY <1>1, <1>2, <1>6, <1>8, <3>1, <3>3, <4>1, TablesKept
    <3> QED
      BY <1>11, <2>2, <3>3, <3>4, <3>5
  <2>8. CASE GoesOn(at, next) /\ at.step = 1
    <3> DEFINE x == [does |-> "s", chan |-> at.chan]
    <3>1. /\ next.writes = <<x>> /\ at.chan \in Channels /\ at'.step = 2
      BY <1>6, <2>8 DEF GoesOn
    <3>2. x \in Commands /\ x.does = "s" /\ x.chan = at.chan
      BY <3>1 DEF Commands
    <3> HIDE DEF x
    <3>3. PICK e : e = Does(end, x)
      OBVIOUS
    <3>4. e.chosen = at.chan /\ e.volts = end.volts
      BY <1>8, <2>1, <3>2, <3>3, DoesIs
    <3>5. ~(at'.step > 2) /\ x.does # "R"
      BY <3>1, <3>2
    <3> QED
      BY <2>7, <2>8, <3>1, <3>2, <3>3, <3>4, <3>5
  <2>9. CASE GoesOn(at, next) /\ at.step = 2
    <3> DEFINE x == [does |-> "v", volt |-> at.volt]
    <3>1. next.writes = <<x>> /\ at.chan \in Channels /\ at.volt \in Volts
      BY <1>6, <2>9, PlaceType DEF GoesOn
    <3>2. x \in Commands /\ x.does = "v" /\ x.volt = at.volt
      BY <3>1 DEF Commands
    <3> HIDE DEF x
    <3>3. PICK e : e = Does(end, x)
      OBVIOUS
    <3>4. end.chosen = at.chan
      BY <1>8, <2>9 DEF SetInv, GoesOn
    <3>5. e.volts = [end.volts EXCEPT ![at.chan] = at.volt] /\ e.chosen = at.chan
      BY <1>8, <2>1, <3>1, <3>2, <3>3, <3>4, DoesIs
    <3>6. end.volts \in [Channels -> Volts]
      BY <1>8, SupplyIs
    <3>7. /\ e.volts[at.chan] = at.volt /\ x.does # "R" /\ e.chosen = at.chan
          /\ \A c \in Channels : c # at.chan => e.volts[c] = end.volts[c]
      BY <3>1, <3>2, <3>5, <3>6
    <3> QED
      BY <2>7, <2>9, <3>1, <3>2, <3>3, <3>7
  <2> QED
    BY <1>6, <1>16, <2>3, <2>4, <2>5, <2>6, <2>8, <2>9, PlaceType DEF Passing, GoesOn
<1> QED
  BY <1>5, <1>15, <1>16 DEF Handled

\* x had arrived before
Arrived(x) == \/ \E j \in 1..Len(io.data) : x = io.data[j]
              \/ \E j \in 1..Len(line) : x = line[j]

\* Tables stay what they were, or are of an earlier call.
LEMMA TablesCarried ==
  ASSUME Types, NEW f, NEW end, TableInv(f, end), sent' = sent,
         \A i \in 1..Len(io'.data) : Arrived(io'.data[i]),
         \A i \in 1..Len(line') : Arrived(line'[i]),
         (at' = at /\ calls' = calls) \/ calls' = calls + 1
  PROVE  TableInv(f, end)'
<1>0. calls \in Nat /\ io.data \in Seq(Texts) /\ line \in Seq(Texts) /\ sent \in Seq(Commands)
  BY PortIs DEF Types
<1>1. ASSUME NEW n \in Nat, NEW v, n <= calls /\ (n = calls => end.volts = v /\ at.op # "set")
      PROVE  n <= calls' /\ (n = calls' => end.volts = v /\ at'.op # "set")
  BY <1>0, <1>1
<1>2. ASSUME NEW x \in Texts, Arrived(x), x.says = "table"
      PROVE  x.for <= calls' /\ (x.for = calls' => end.volts = x.volts /\ at'.op # "set")
  <2>1. Fresh(x, end.volts)
    BY <1>2 DEF Arrived, TableInv
  <2>2. x.for \in Nat
    BY <1>2, TextType
  <2> QED
    BY <1>1, <2>1, <2>2 DEF Fresh
<1>3. \A x : Arrived(x) => x \in Texts
  BY <1>0 DEF Arrived
<1>4. ASSUME NEW i \in 1..Len(sent'), sent'[i].does = "R"
      PROVE  sent'[i].for <= calls' /\ (sent'[i].for = calls' => end.volts = f[i].volts /\ at'.op # "set")
  <2>1. Fresh([for |-> sent[i].for, volts |-> f[i].volts], end.volts)
    BY <1>4 DEF TableInv
  <2>2. sent[i].for <= calls /\ (sent[i].for = calls => end.volts = f[i].volts /\ at.op # "set")
    BY <2>1 DEF Fresh
  <2>3. sent[i] \in Commands
    BY <1>0
  <2>4. sent[i].for \in Nat
    BY <1>4, <2>3, CommandIs
  <2> QED
    BY <1>1, <2>2, <2>4
<1> QED
  BY <1>2, <1>3, <1>4 DEF TableInv, Fresh

LEMMA LoggedArrived ==
  ASSUME NEW s, \A i \in 1..Len(s) : Arrived(s[i]), LoggedIn(s)
  PROVE  LoggedIn(io.data) \/ LoggedIn(line)
BY DEF LoggedIn, Arrived

\* Steps that touch neither the supply nor what the driver holds of it.
LEMMA SupplyCarried ==
  ASSUME Types, SupplyInv, ~mishap, sent' = sent, supply' = supply, voltages' = voltages,
         wanted' = wanted, unsure' = unsure, unread' = unread,
         \A i \in 1..Len(io'.data) : Arrived(io'.data[i]),
         \A i \in 1..Len(line') : Arrived(line'[i]),
         \/ at' = at /\ calls' = calls
         \/ at'.step = 0 /\ at'.pc # "table" /\ at'.op # "set" /\ calls' = calls + 1
  PROVE  SupplyInv'
<1>1. PICK f : Course(f, sent, supply) /\ SetInv(f[Len(sent)]) /\ TableInv(f, f[Len(sent)])
  BY DEF SupplyInv
<1>2. ModeInv
  BY DEF SupplyInv
<1>3. PICK end : end = f[Len(sent)]
  OBVIOUS
<1>4. TableInv(f, end)'
  BY <1>1, <1>3, TablesCarried
<1>5. SetInv(end)'
  BY <1>1, <1>3 DEF SetInv
<1>6. ModeInv'
  <2>1. (LoggedIn(io'.data) \/ LoggedIn(line')) => (LoggedIn(io.data) \/ LoggedIn(line))
    BY LoggedArrived
  <2>2. ~(0 > 0)
    OBVIOUS
  <2> QED
    BY <1>2, <2>1, <2>2 DEF ModeInv
<1> QED
  BY <1>1, <1>3, <1>4, <1>5, <1>6 DEF SupplyInv

LEMMA SetStarts ==
  ASSUME Types, SupplyInv, ~mishap, NEW c \in Channels, NEW v \in Volts,
         sent' = sent, supply' = supply, voltages' = voltages, line' = line, io'.data = io.data,
         calls' = calls + 1, wanted' = [wanted EXCEPT ![c] = v],
         \/ /\ at'.op = "set" /\ at'.chan = c /\ at'.volt = v /\ at'.step = 0 /\ at'.pc = "prompt"
            /\ unread' = unread \cup {c} /\ unsure' = unsure \cup {c}
         \/ /\ at' = at /\ at.op # "set" /\ unread' = unread
            /\ unsure' = IF v # voltages[c] \/ c \in unread THEN unsure \cup {c} ELSE unsure \ {c}
  PROVE  SupplyInv'
<1>1. PICK f : Course(f, sent, supply) /\ SetInv(f[Len(sent)]) /\ TableInv(f, f[Len(sent)])
  BY DEF SupplyInv
<1>2. ModeInv /\ wanted \in [Channels -> Volts]
  BY DEF SupplyInv, Types
<1>3. PICK end : end = f[Len(sent)]
  OBVIOUS
<1>4. TableInv(f, end)'
  <2>1. /\ \A i \in 1..Len(io'.data) : Arrived(io'.data[i])
        /\ \A i \in 1..Len(line') : Arrived(line'[i])
    BY DEF Arrived
  <2> QED
    BY <1>1, <1>3, <2>1, TablesCarried
<1>5. wanted'[c] = v /\ \A d \in Channels : d # c => wanted'[d] = wanted[d]
  BY <1>2
<1>6. ModeInv'
  <2>1. ~(0 > 0)
    OBVIOUS
  <2> QED
    BY <1>2, <2>1 DEF ModeInv
<1>7. /\ \A d \in Channels \ unsure : end.volts[d] = wanted[d]
      /\ \A d \in Channels \ unread : end.volts[d] = voltages[d]
  BY <1>1, <1>3 DEF SetInv
<1>8. CASE /\ at'.op = "set" /\ at'.chan = c /\ at'.volt = v /\ at'.step = 0
           /\ unread' = unread \cup {c} /\ unsure' = unsure \cup {c}
  <2>1. ~(0 > 1) /\ ~(0 > 2)
    OBVIOUS
  <2>2. \A d \in Channels \ unsure' : end.volts[d] = wanted'[d]
    BY <1>5, <1>7, <1>8
  <2>3. SetInv(end)'
    BY <1>5, <1>7, <1>8, <2>1, <2>2 DEF SetInv
  <2> QED
    BY <1>1, <1>3, <1>4, <1>6, <2>3 DEF SupplyInv
<1>9. CASE /\ at' = at /\ at.op # "set" /\ unread' = unread
           /\ unsure' = IF v # voltages[c] \/ c \in unread THEN unsure \cup {c} ELSE unsure \ {c}
  <2>1. \A d \in Channels \ unsure' : end.volts[d] = wanted'[d]
    BY <1>5, <1>7, <1>9
  <2>2. SetInv(end)'
    BY <1>7, <1>9, <2>1 DEF SetInv
  <2> QED
    BY <1>1, <1>3, <1>4, <1>6, <2>2 DEF SupplyInv
<1> QED
  BY <1>8, <1>9

LEMMA AnswerSupply ==
  ASSUME Types, SupplyInv, ~mishap, Answer
  PROVE  SupplyInv' /\ line' \in Seq(Texts) /\ sent' \in Seq(Commands) /\ supply' \in Supplies
<1> DEFINE x == Head(sent)
           y == Answers(x)
<1>1. PICK f : Course(f, sent, supply) /\ SetInv(f[Len(sent)]) /\ TableInv(f, f[Len(sent)])
  BY DEF SupplyInv
<1>2. ModeInv
  BY DEF SupplyInv
<1>3. PICK end : end = f[Len(sent)]
  OBVIOUS
<1>4. /\ sent # << >> /\ sent' = Tail(sent) /\ supply' = Does(supply, x)
      /\ line' = Append(line, y) /\ io' = io /\ at' = at /\ calls' = calls
      /\ wanted' = wanted /\ unsure' = unsure /\ unread' = unread /\ voltages' = voltages
  BY DEF Answer, driver, story
<1>5. /\ sent \in Seq(Commands) /\ line \in Seq(Texts) /\ supply \in Supplies /\ calls \in Nat
  BY DEF Types
<1>6. /\ x = sent[1] /\ x \in Commands /\ sent' \in Seq(Commands) /\ Len(sent) \in Nat
      /\ Len(sent) > 0 /\ Len(sent') = Len(sent) - 1
      /\ \A i \in 1..Len(sent) - 1 : sent'[i] = sent[i + 1]
  BY <1>4, <1>5, Behind
<1> HIDE DEF x
<1>7. /\ y \in Texts
      /\ y.says = "table" => x.does = "R" /\ y.for = x.for /\ y.volts = supply.volts
      /\ y.says \in {"+>", "table"} => supply.mode = "in" \/ (supply.mode = "login" /\ x.does = "HV8")
  BY <1>5, <1>6, AnswerIs
<1> HIDE DEF y
<1>8. supply' \in Supplies /\ (supply.mode = "in" => supply'.mode = "in")
      /\ (supply.mode = "login" /\ x.does = "HV8" => supply'.mode = "in")
      /\ (x.does = "R" => supply'.volts = supply.volts)
  <2>1. supply' = Does(supply, x) /\ supply \in Supplies /\ x \in Commands
    BY <1>4, <1>5, <1>6
  <2>2. x.does = "R" => x.does \notin {"s", "v"}
    OBVIOUS
  <2> QED
    BY <2>1, <2>2, DoesIs
<1>9. /\ line' \in Seq(Texts) /\ Len(line') = Len(line) + 1 /\ line'[Len(line) + 1] = y
      /\ \A i \in 1..Len(line) : line'[i] = line[i]
  BY <1>4, <1>5, <1>7, Appended
<1>10. PICK g : OneLess(f, g, sent, supply)
  BY <1>1, <1>4, <1>5, CourseShorter
<1>11. /\ Course(g, sent', supply') /\ g[Len(sent')] = end
       /\ \A i \in 0..Len(sent) - 1 : g[i] = f[i + 1]
  BY <1>3, <1>4, <1>6, <1>10 DEF OneLess, x
<1>12. ModeInv'
  <2>1. ASSUME LoggedIn(line') PROVE LoggedIn(line) \/ supply'.mode = "in"
    <3>1. PICK i \in 1..Len(line') : line'[i].says \in {"+>", "table"}
      BY <2>1 DEF LoggedIn
    <3>2. CASE i = Len(line) + 1
      BY <1>7, <1>8, <1>9, <3>1, <3>2
    <3>3. CASE i # Len(line) + 1
      <4>1. i \in 1..Len(line)
        BY <1>5, <1>9, <3>3
      <4> QED
        BY <1>9, <3>1, <4>1 DEF LoggedIn
    <3> QED
      BY <3>2, <3>3
  <2> QED
    BY <1>2, <1>4, <1>8, <2>1 DEF ModeInv
<1>13. SetInv(end)'
  BY <1>1, <1>3, <1>4 DEF SetInv
<1>14. TableInv(f, end)
  BY <1>1, <1>3
<1>15. f[1].volts = supply.volts \/ x.does # "R"
  <2>1. 1 \in 1..Len(sent) /\ 1 - 1 = 0
    BY <1>6
  <2>2. f[1] = Does(supply, x)
    BY <1>1, <1>6, <2>1 DEF Course
  <2> QED
    BY <1>4, <1>8, <2>2
<1>16. ASSUME NEW i \in 1..Len(line'), line'[i].says = "table"
       PROVE  /\ line'[i].for <= calls'
              /\ line'[i].for = calls' => end.volts = line'[i].volts /\ at'.op # "set"
  <2>1. CASE i = Len(line) + 1
    <3>1. line'[i] = y /\ y.for = x.for /\ y.volts = supply.volts /\ x.does = "R"
      BY <1>7, <1>9, <1>16, <2>1
    <3>2. Fresh([for |-> sent[1].for, volts |-> f[1].volts], end.volts)
      <4>1. 1 \in 1..Len(sent)
        BY <1>6
      <4> QED
        BY <1>6, <1>14, <3>1, <4>1 DEF TableInv
    <3>3. /\ x.for <= calls
          /\ x.for = calls => end.volts = f[1].volts /\ at.op # "set"
      BY <1>6, <3>2 DEF Fresh
    <3> QED
      BY <1>4, <1>15, <3>1, <3>3
  <2>2. CASE i # Len(line) + 1
    <3>1. i \in 1..Len(line)
      BY <1>5, <1>9, <2>2
    <3>2. Fresh(line[i], end.volts)
      BY <1>9, <1>14, <1>16, <3>1 DEF TableInv
    <3> QED
      BY <1>4, <1>9, <3>1, <3>2 DEF Fresh
  <2> QED
    BY <2>1, <2>2
<1>17. ASSUME NEW i \in 1..Len(sent'), sent'[i].does = "R"
       PROVE  /\ sent'[i].for <= calls'
              /\ sent'[i].for = calls' => end.volts = g[i].volts /\ at'.op # "set"
  <2>1. i + 1 \in 1..Len(sent) /\ i \in 0..Len(sent) - 1 /\ i \in 1..Len(sent) - 1
    BY <1>6
  <2>2. sent'[i] = sent[i + 1] /\ g[i] = f[i + 1]
    BY <1>6, <1>11, <2>1
  <2>3. Fresh([for |-> sent[i + 1].for, volts |-> f[i + 1].volts], end.volts)
    BY <1>14, <1>17, <2>1, <2>2 DEF TableInv
  <2> QED
    BY <1>4, <2>2, <2>3 DEF Fresh
<1>18. TableInv(g, end)'
  <2>1. \A i \in 1..Len(io.data) : io.data[i].says = "table" => Fresh(io.data[i], end.volts)
    BY <1>14 DEF TableInv
  <2> QED
    BY <1>4, <1>16, <1>17, <2>1 DEF TableInv, Fresh
<1>19. SupplyInv'
  BY <1>11, <1>12, <1>13, <1>18 DEF SupplyInv
<1> QED
  BY <1>6, <1>8, <1>9, <1>19

LEMMA NewSupply ==
  [mode |-> "out", chosen |-> 0, volts |-> [c \in Channels |-> 0]] \in Supplies
<1>1. [c \in Channels |-> 0] \in [Channels -> Volts]
  BY Constants
<1> QED
  BY <1>1 DEF Supplies

\* Nothing is under way and nothing is known.
LEMMA FromScratch ==
  ASSUME NEW s \in Supplies, s.volts = [c \in Channels |-> 0]
  PROVE  \E f : Course(f, << >>, s) /\ f[Len(<< >>)] = s
<1>1. Len(<< >>) = 0
  OBVIOUS
<1> QED
  BY <1>1, CourseNone

LEMMA RestartSupply ==
  ASSUME Types, PlaceInv, Restart
  PROVE  SupplyInv' /\ supply' \in Supplies
<1>1. /\ supply' = [mode |-> "out", chosen |-> 0, volts |-> [c \in Channels |-> 0]]
      /\ sent' = << >> /\ line' = line /\ io' = io /\ at' = at
      /\ wanted' = [c \in Channels |-> 0] /\ unread' = Channels
      /\ ~mishap' => ~Reading /\ line = << >> /\ io.data = << >>
  BY DEF Restart, port, driver
<1>2. supply' \in Supplies /\ supply'.volts = [c \in Channels |-> 0]
  BY <1>1, NewSupply
<1> SUFFICES ASSUME ~mishap' PROVE SupplyInv'
  BY <1>2 DEF SupplyInv
<1>3. at' = Idle /\ Idle.step = 0 /\ Idle.pc = "idle" /\ Idle.op = "none"
  BY <1>1 DEF PlaceInv, Idle, Reading
<1>4. Len(<< >>) = 0 /\ ~(0 > 0)
  OBVIOUS
<1>5. ModeInv'
  BY <1>1, <1>3, <1>4 DEF ModeInv, LoggedIn
<1>6. PICK f : Course(f, sent', supply') /\ f[Len(sent')] = supply'
  <2>1. \E f : Course(f, << >>, supply') /\ f[Len(<< >>)] = supply'
    BY <1>2, FromScratch
  <2> QED
    BY <1>1, <2>1
<1>7. PICK end : end = f[Len(sent')]
  OBVIOUS
<1>8. SetInv(end)'
  BY <1>1, <1>2, <1>3, <1>6, <1>7 DEF SetInv
<1>9. TableInv(f, end)'
  BY <1>1, <1>4 DEF TableInv
<1> QED
  BY <1>5, <1>6, <1>7, <1>8, <1>9 DEF SupplyInv

-----------------------------------------------------------------------------
(* Every step keeps the invariant                                          *)

LEMMA ClearedIs ==
  ASSUME io \in Ports
  PROVE  LET p == [io EXCEPT !.reads = << >>]
         IN /\ p \in Ports /\ p.data = io.data /\ p.handlers = io.handlers
            /\ p.reads = << >> /\ p.timer = io.timer
<1>1. << >> \in Seq({">", ":"})
  OBVIOUS
<1> QED
  BY <1>1 DEF Ports

LEMMA BeginPort ==
  ASSUME PortInv, at.pc = "idle", at'.pc = "prompt", stale' = stale, torn' = torn,
         NEW p \in Ports, p.data = io.data, p.handlers = io.handlers,
         p.reads = io.reads \/ p.reads = << >>, io' = Started(p, ">")
  PROVE  PortInv' /\ io' \in Ports /\ io'.data = io.data
<1>1. DelimAt(at') = ">" /\ ">" \in {">", ":"}
  BY DEF DelimAt
<1>2. io' \in Ports /\ io'.data = p.data
  BY <1>1, StartedIs
<1>3. ASSUME ~stale PROVE Single(io', DelimAt(at'))
  <2>1. p.reads = << >> /\ p.handlers = << >>
    BY <1>3 DEF PortInv
  <2> QED
    BY <1>1, <2>1, StartSingle
<1> QED
  BY <1>2, <1>3 DEF PortInv

LEMMA EmptyLen == Len(<< >>) = 0 /\ 1..0 = {}
OBVIOUS

LEMMA IdlePort ==
  ASSUME PortInv, io \in Ports, at.pc = "idle", at' = at, stale' = stale, torn' = torn,
         io' = [io EXCEPT !.reads = << >>]
  PROVE  PortInv' /\ io' \in Ports /\ io'.data = io.data
<1>1. /\ io' \in Ports /\ io'.data = io.data /\ io'.handlers = io.handlers
      /\ io'.reads = << >> /\ io'.timer = io.timer
  BY ClearedIs
<1>2. ASSUME ~stale PROVE Single(io', DelimAt(at')) /\ io'.handlers = << >> /\ ~io'.timer
  <2>1. io.handlers = << >> /\ ~io.timer
    BY <1>2 DEF PortInv
  <2> QED
    BY <1>1, <2>1, EmptyLen DEF Single
<1> QED
  BY <1>1, <1>2 DEF PortInv

LEMMA ArrivedAll ==
  ASSUME io'.data = io.data, line' = line
  PROVE  /\ \A i \in 1..Len(io'.data) : Arrived(io'.data[i])
         /\ \A i \in 1..Len(line') : Arrived(line'[i])
BY DEF Arrived

LEMMA CallNext ==
  ASSUME IInv, boot \/ BootFails \/ die \/ get_all_settings
  PROVE  IInv'
<1>1. /\ Types /\ PlaceInv /\ PortInv /\ SupplyInv
      /\ at.pc = "idle" /\ calls' = calls + 1
      /\ line' = line /\ sent' = sent /\ supply' = supply /\ voltages' = voltages
      /\ wanted' = wanted /\ unsure' = unsure /\ unread' = unread
      /\ stale' = stale /\ torn' = torn /\ mishap' = mishap
  BY DEF IInv, boot, BootFails, die, get_all_settings, Call, story
<1>2. io \in Ports /\ at \in Places /\ at = Idle /\ calls' \in Nat
  BY <1>1 DEF Types, PlaceInv
<1>3. open' \in BOOLEAN /\ booted' \in BOOLEAN
  BY <1>1 DEF Types, boot, BootFails, die, get_all_settings
<1>4. PlaceInv' /\ at' \in Places /\ at'.step = 0 /\ at'.pc # "table" /\ at'.op # "set"
      /\ PortInv' /\ io' \in Ports /\ io'.data = io.data
  <2>1. CASE boot
    <3>1. at' = [Idle EXCEPT !.op = "boot", !.pc = "prompt"]
          /\ io' = Started([io EXCEPT !.reads = << >>], ">")
      BY <2>1 DEF boot
    <3>2. at' \in Places /\ at'.op = "boot" /\ at'.pc = "prompt" /\ at'.step = 0
      BY <3>1, BeginsAt
    <3>3. PortInv' /\ io' \in Ports /\ io'.data = io.data
      BY <1>1, <1>2, <3>1, <3>2, ClearedIs, BeginPort
    <3>4. PlaceInv'
      BY <3>2 DEF PlaceInv
    <3> QED
      BY <3>2, <3>3, <3>4
  <2>2. CASE get_all_settings
    <3>1. at' = [Idle EXCEPT !.op = "get", !.pc = "prompt"] /\ io' = Started(io, ">")
      <4>1. Begin([Idle EXCEPT !.op = "get"])
        BY <2>2 DEF get_all_settings
      <4> QED
        BY <4>1 DEF Begin, Idle
    <3>2. at' \in Places /\ at'.op = "get" /\ at'.pc = "prompt" /\ at'.step = 0
      BY <3>1, BeginsAt
    <3>3. PortInv' /\ io' \in Ports /\ io'.data = io.data
      BY <1>1, <1>2, <3>1, <3>2, BeginPort
    <3>4. PlaceInv'
      BY <3>2 DEF PlaceInv
    <3> QED
      BY <3>2, <3>3, <3>4
  <2>3. CASE BootFails \/ die
    <3>1. at' = at /\ io' = [io EXCEPT !.reads = << >>]
      BY <2>3 DEF BootFails, die
    <3>2. PortInv' /\ io' \in Ports /\ io'.data = io.data
      BY <1>1, <1>2, <3>1, IdlePort
    <3>3. PlaceInv'
      BY <1>1, <3>1 DEF PlaceInv
    <3> QED
      BY <1>2, <3>1, <3>2, <3>3 DEF Idle
  <2> QED
    BY <2>1, <2>2, <2>3
<1>5. Types'
  BY <1>1, <1>2, <1>3, <1>4 DEF Types
<1>6. SupplyInv'
  <2>1. CASE mishap
    BY <1>1, <2>1 DEF SupplyInv
  <2>2. CASE ~mishap
    BY <1>1, <1>4, <2>2, ArrivedAll, SupplyCarried
  <2> QED
    BY <2>1, <2>2
<1> QED
  BY <1>4, <1>5, <1>6 DEF IInv

LEMMA WriteNext ==
  ASSUME IInv, NEW c \in Channels, NEW v \in Volts, write_settings_bulk(c, v)
  PROVE  IInv'
<1>1. /\ Types /\ PlaceInv /\ PortInv /\ SupplyInv
      /\ at.pc = "idle" /\ calls' = calls + 1 /\ wanted' = [wanted EXCEPT ![c] = v]
      /\ line' = line /\ sent' = sent /\ supply' = supply /\ voltages' = voltages
      /\ open' = open /\ booted' = booted
      /\ stale' = stale /\ torn' = torn /\ mishap' = mishap
  BY DEF IInv, write_settings_bulk, Call
<1>2. io \in Ports /\ at \in Places /\ at = Idle /\ calls' \in Nat /\ wanted' \in [Channels -> Volts]
  BY <1>1 DEF Types, PlaceInv
<1>3. /\ PlaceInv' /\ at' \in Places /\ PortInv' /\ io' \in Ports /\ io'.data = io.data
      /\ \/ /\ at'.op = "set" /\ at'.chan = c /\ at'.volt = v /\ at'.step = 0 /\ at'.pc = "prompt"
            /\ unread' = unread \cup {c} /\ unsure' = unsure \cup {c}
         \/ /\ at' = at /\ at.op # "set" /\ unread' = unread
            /\ unsure' = IF v # voltages[c] \/ c \in unread THEN unsure \cup {c} ELSE unsure \ {c}
  <2>1. CASE v # voltages[c] /\ open
    <3>1. /\ Begin([Idle EXCEPT !.op = "set", !.chan = c, !.volt = v])
          /\ unread' = unread \cup {c} /\ unsure' = unsure \cup {c}
      BY <2>1 DEF write_settings_bulk
    <3>2. /\ at' = [Idle EXCEPT !.op = "set", !.chan = c, !.volt = v, !.pc = "prompt"]
          /\ io' = Started(io, ">")
      BY <3>1 DEF Begin, Idle
    <3>3. /\ at' \in Places /\ at'.op = "set" /\ at'.pc = "prompt" /\ at'.step = 0
          /\ at'.chan = c /\ at'.volt = v
      <4>1. Idle \in Places /\ Idle.step = 0
        BY IdleIs DEF Idle
      <4> QED
        BY <3>2, <4>1 DEF Places
    <3>4. PortInv' /\ io' \in Ports /\ io'.data = io.data
      BY <1>1, <1>2, <3>2, <3>3, BeginPort
    <3>5. PlaceInv'
      BY <3>3 DEF PlaceInv
    <3> QED
      BY <3>1, <3>3, <3>4, <3>5
  <2>2. CASE ~(v # voltages[c] /\ open)
    <3>1. /\ at' = at /\ io' = io /\ unread' = unread
          /\ unsure' = IF v # voltages[c] \/ c \in unread THEN unsure \cup {c} ELSE unsure \ {c}
      BY <2>2 DEF write_settings_bulk
    <3>2. PortInv'
      BY <1>1, <3>1 DEF PortInv
    <3>3. PlaceInv'
      BY <1>1, <3>1 DEF PlaceInv
    <3> QED
      BY <1>2, <3>1, <3>2, <3>3 DEF Idle
  <2> QED
    BY <2>1, <2>2
<1>4. unsure' \subseteq Channels /\ unread' \subseteq Channels
  BY <1>1, <1>3 DEF Types
<1>5. Types'
  BY <1>1, <1>2, <1>3, <1>4 DEF Types
<1>6. SupplyInv'
  <2>1. CASE mishap
    BY <1>1, <2>1 DEF SupplyInv
  <2>2. CASE ~mishap
    BY <1>1, <1>3, <2>2, SetStarts
  <2> QED
    BY <2>1, <2>2
<1> QED
  BY <1>3, <1>5, <1>6 DEF IInv

LEMMA InvInit == Init => IInv
<1> SUFFICES ASSUME Init PROVE IInv
  OBVIOUS
<1>1. /\ io = [data |-> << >>, reads |-> << >>, timer |-> FALSE, handlers |-> << >>]
      /\ line = << >> /\ sent = << >> /\ at = Idle /\ open = FALSE /\ booted = FALSE
      /\ voltages = [c \in Channels |-> 0]
      /\ supply = [mode |-> "out", chosen |-> 0, volts |-> [c \in Channels |-> 0]]
      /\ calls = 0 /\ wanted = [c \in Channels |-> 0] /\ unsure = {} /\ unread = {}
      /\ stale = FALSE /\ torn = FALSE /\ mishap = FALSE
  BY DEF Init
<1>2. << >> \in Seq(Texts) /\ << >> \in Seq(Commands) /\ << >> \in Seq({">", ":"})
      /\ << >> \in Seq(Handlers)
  OBVIOUS
<1>3. io \in Ports
  BY <1>1, <1>2 DEF Ports
<1>4. [c \in Channels |-> 0] \in [Channels -> Volts]
  BY Constants
<1>5. supply \in Supplies /\ supply.volts = [c \in Channels |-> 0]
  BY <1>1, NewSupply
<1>6. Types
  BY <1>1, <1>2, <1>3, <1>4, <1>5, IdleIs DEF Types
<1>7. PlaceInv
  BY <1>1 DEF PlaceInv, Idle
<1>8. PortInv
  BY <1>1, EmptyLen DEF PortInv, Single
<1>9. SupplyInv
  <2>1. ModeInv
    BY <1>1, EmptyLen DEF ModeInv, LoggedIn, Idle
  <2>2. PICK f : Course(f, sent, supply) /\ f[Len(sent)] = supply
    <3>1. \E f : Course(f, << >>, supply) /\ f[Len(<< >>)] = supply
      BY <1>5, FromScratch
    <3> QED
      BY <1>1, <3>1
  <2>3. PICK end : end = f[Len(sent)]
    OBVIOUS
  <2>4. SetInv(end)
    BY <1>1, <1>5, <2>2, <2>3 DEF SetInv, Idle
  <2>5. TableInv(f, end)
    BY <1>1, EmptyLen DEF TableInv
  <2> QED
    BY <2>1, <2>2, <2>3, <2>4, <2>5 DEF SupplyInv
<1> QED
  BY <1>6, <1>7, <1>8, <1>9 DEF IInv

LEMMA ReadNext ==
  ASSUME IInv, Receive \/ Expire
  PROVE  IInv'
<1>1. /\ Types /\ PlaceInv /\ SupplyInv
      /\ at' = at /\ calls' = calls /\ open' = open /\ booted' = booted
      /\ sent' = sent /\ supply' = supply /\ voltages' = voltages
      /\ wanted' = wanted /\ unsure' = unsure /\ unread' = unread
      /\ stale' = stale /\ torn' = torn /\ mishap' = mishap
  BY DEF IInv, Receive, Expire, driver, story
<1>2. /\ PortInv' /\ io' \in Ports /\ line' \in Seq(Texts)
      /\ \A i \in 1..Len(io'.data) : Arrived(io'.data[i])
      /\ \A i \in 1..Len(line') : Arrived(line'[i])
  <2>1. CASE Receive
    <3>1. PortInv' /\ io' \in Ports /\ io'.data = io.data \o line /\ line' = << >>
      BY <2>1, ReceivePort DEF Receive
    <3>2. io.data \in Seq(Texts) /\ line \in Seq(Texts)
      BY <1>1, PortIs DEF Types
    <3>3. ASSUME NEW i \in 1..Len(io'.data) PROVE Arrived(io'.data[i])
      <4>1. \/ i \in 1..Len(io.data) /\ io'.data[i] = io.data[i]
            \/ i - Len(io.data) \in 1..Len(line) /\ io'.data[i] = line[i - Len(io.data)]
        BY <3>1, <3>2
      <4> QED
        BY <4>1 DEF Arrived
    <3>4. line' \in Seq(Texts) /\ \A i \in 1..Len(line') : Arrived(line'[i])
      BY <3>1, EmptyLen
    <3> QED
      BY <3>1, <3>3, <3>4
  <2>2. CASE Expire
    <3>1. PortInv' /\ io' \in Ports /\ io'.data = io.data /\ line' = line
      BY <2>2, ExpirePort DEF Expire
    <3> QED
      BY <1>1, <3>1, ArrivedAll DEF Types
  <2> QED
    BY <2>1, <2>2
<1>3. Types'
  BY <1>1, <1>2 DEF Types
<1>4. PlaceInv'
  BY <1>1 DEF PlaceInv
<1>5. SupplyInv'
  <2>1. CASE mishap
    BY <1>1, <2>1 DEF SupplyInv
  <2>2. CASE ~mishap
    BY <1>1, <1>2, <2>2, SupplyCarried
  <2> QED
    BY <2>1, <2>2
<1> QED
  BY <1>2, <1>3, <1>4, <1>5 DEF IInv

LEMMA RunOneNext ==
  ASSUME IInv, RunOne
  PROVE  IInv'
<1>1. /\ Types /\ PlaceInv /\ Reading
      /\ line' = line /\ open' = open /\ supply' = supply /\ calls' = calls
      /\ wanted' = wanted /\ mishap' = mishap
  BY DEF IInv, RunOne
<1>2. PICK text \in Seq(Texts) : Among(text, io.data) /\ \E next : Handled(text, next)
  BY <1>1, RunOneIs
<1>3. PICK next : Handled(text, next)
  BY <1>2
<1>4. PlaceInv' /\ sent' \in Seq(Commands) /\ at' \in Places
  BY <1>1, <1>3, PlaceNext
<1>5. PortInv' /\ stale' \in BOOLEAN /\ torn' \in BOOLEAN
  BY RunOnePort
<1>6. SupplyInv'
  <2>1. CASE mishap
    BY <1>1, <2>1 DEF SupplyInv
  <2>2. CASE ~mishap
    BY <1>1, <2>2, RunOneSupply
  <2> QED
    BY <2>1, <2>2
<1>7. booted' \in BOOLEAN
  BY DEF RunOne
<1>8. voltages' \in [Channels -> Volts] /\ unread' \subseteq Channels
  <2>1. CASE voltages' = voltages /\ unread' = unread
    BY <1>1, <2>1 DEF Types
  <2>2. CASE \E i \in 1..Len(io.data) : Tells(io.data[i])
    <3>1. PICK i \in 1..Len(io.data) : Tells(io.data[i])
      BY <2>2
    <3>2. io.data[i] \in Texts
      BY <1>1, PortIs DEF Types
    <3> QED
      BY <3>1, <3>2, TextType DEF Tells
  <2> QED
    BY <1>3, <2>1, <2>2 DEF Handled
<1>9. unsure' \subseteq Channels /\ io' \in Ports
  BY <1>1, <1>3 DEF Handled, Types
<1>10. Types'
  BY <1>1, <1>4, <1>5, <1>7, <1>8, <1>9 DEF Types
<1> QED
  BY <1>4, <1>5, <1>6, <1>10 DEF IInv

LEMMA OutsideNext ==
  ASSUME IInv, Answer \/ LoseCommand \/ Restart
  PROVE  IInv'
<1>1. /\ Types /\ PlaceInv /\ PortInv /\ SupplyInv
      /\ io' = io /\ at' = at /\ calls' = calls /\ open' = open /\ booted' = booted
      /\ voltages' = voltages /\ stale' = stale /\ torn' = torn
  BY DEF IInv, Answer, LoseCommand, Restart, driver, port
<1>2. PortInv' /\ PlaceInv'
  BY <1>1 DEF PortInv, PlaceInv
<1>3. CASE Answer
  <2>1. /\ mishap' = mishap /\ wanted' = wanted /\ unsure' = unsure /\ unread' = unread
        /\ sent # << >> /\ sent' = Tail(sent) /\ supply' = Does(supply, Head(sent))
        /\ line' = Append(line, Answers(Head(sent)))
    BY <1>3 DEF Answer, story
  <2>2. line' \in Seq(Texts) /\ sent' \in Seq(Commands) /\ supply' \in Supplies
    <3>1. sent \in Seq(Commands) /\ line \in Seq(Texts) /\ supply \in Supplies
      BY <1>1 DEF Types
    <3>2. Head(sent) \in Commands /\ sent' \in Seq(Commands)
      BY <2>1, <3>1, Behind
    <3>3. Answers(Head(sent)) \in Texts
      BY <3>1, <3>2, AnswerIs
    <3> QED
      BY <2>1, <3>1, <3>2, <3>3, DoesIs, Appended
  <2>3. Types'
    BY <1>1, <2>1, <2>2 DEF Types
  <2>4. SupplyInv'
    <3>1. CASE mishap
      BY <2>1, <3>1 DEF SupplyInv
    <3>2. CASE ~mishap
      BY <1>1, <1>3, <3>2, AnswerSupply
    <3> QED
      BY <3>1, <3>2
  <2> QED
    BY <1>2, <2>3, <2>4 DEF IInv
<1>4. CASE LoseCommand
  <2>1. /\ mishap' = TRUE /\ wanted' = wanted /\ unsure' = unsure /\ unread' = unread
        /\ sent # << >> /\ sent' = Tail(sent) /\ supply' = supply /\ line' = line
    BY <1>4 DEF LoseCommand, story, port
  <2>2. sent' \in Seq(Commands)
    BY <1>1, <2>1, Behind DEF Types
  <2>3. Types'
    BY <1>1, <2>1, <2>2 DEF Types
  <2> QED
    BY <1>2, <2>1, <2>3 DEF IInv, SupplyInv
<1>5. CASE Restart
  <2>1. /\ sent' = << >> /\ line' = line /\ wanted' = [c \in Channels |-> 0] /\ unsure' = {}
        /\ unread' = Channels /\ mishap' \in BOOLEAN
    BY <1>5 DEF Restart, port
  <2>2. SupplyInv' /\ supply' \in Supplies
    BY <1>1, <1>5, RestartSupply
  <2>3. sent' \in Seq(Commands) /\ wanted' \in [Channels -> Volts]
    BY <2>1, Constants
  <2>4. Types'
    BY <1>1, <2>1, <2>2, <2>3 DEF Types
  <2> QED
    BY <1>2, <2>2, <2>4 DEF IInv
<1> QED
  BY <1>3, <1>4, <1>5

LEMMA InvNext == IInv /\ [Next]_vars => IInv'
<1>1. ASSUME IInv, UNCHANGED vars PROVE IInv'
  BY <1>1 DEF IInv, Types, PlaceInv, PortInv, SupplyInv, ModeInv, SetInv, TableInv, Fresh, vars,
     port, driver, story
<1> QED
  BY <1>1, CallNext, WriteNext, ReadNext, RunOneNext, OutsideNext DEF Next

-----------------------------------------------------------------------------
(* What holds in every reachable state                                     *)

\* For any channels, voltages and number of attempts: what is in the port,
\* what is on its way to the supply and what the driver knows fit together.
THEOREM Invariance == Spec => []IInv
<1>1. Init => IInv
  BY InvInit
<1>2. IInv /\ [Next]_vars => IInv'
  BY InvNext
<1> QED
  BY <1>1, <1>2, PTL DEF Spec

\* A read that returns has read to its own delimiter, unless a handler was
\* left in the queue (TimeoutSerial::readStringUntil).
THEOREM ReadsAreOwn == Spec => []ReadIsItsOwn
<1>1. IInv => ReadIsItsOwn
  BY DEF IInv, PortInv, ReadIsItsOwn
<1> QED
  BY Invariance, <1>1, PTL

\* When the driver has returned each output has the voltage last asked for,
\* unless its setting failed or a command was lost
\* (QpxHV8Plugin::set_voltage).
THEOREM WantedVoltageIsSet == Spec => []WantedIsSet
<1>1. IInv => TypeOK
  <2> SUFFICES ASSUME IInv PROVE TypeOK
    OBVIOUS
  <2>1. Types
    BY DEF IInv
  <2>2. /\ io.reads \in Seq({">", ":"}) /\ io.handlers \in Seq(Handlers) /\ io.timer \in BOOLEAN
    BY <2>1, PortIs DEF Types
  <2>3. \A i \in 1..Len(io.handlers) : io.handlers[i].of \in {"read", "timer"}
    <3> SUFFICES ASSUME NEW i \in 1..Len(io.handlers)
                 PROVE  io.handlers[i].of \in {"read", "timer"}
      OBVIOUS
    <3>1. io.handlers[i] \in Handlers
      BY <2>2
    <3> QED
      BY <3>1 DEF Handlers
  <2>4. \A i \in 1..Len(io.reads) : io.reads[i] \in {">", ":"}
    BY <2>2
  <2>5. /\ at.pc \in {"idle", "prompt", "login", "password", "table"}
        /\ at.step \in 0..3 /\ at.tries \in 0..Attempts - 1 /\ at.rounds \in 0..Attempts - 1
    BY <2>1, PlaceType DEF Types
  <2>6. supply.volts \in [Channels -> Volts] /\ supply.mode \in {"out", "login", "in"}
    BY <2>1, SupplyIs DEF Types
  <2> QED
    BY <2>1, <2>2, <2>3, <2>4, <2>5, <2>6 DEF TypeOK, Types
<1>2. IInv => WantedIsSet
  <2> SUFFICES ASSUME IInv, sent = << >>, ~mishap
               PROVE  \A c \in Channels \ unsure : supply.volts[c] = wanted[c]
    BY <1>1 DEF WantedIsSet
  <2>1. PICK f : Course(f, sent, supply) /\ SetInv(f[Len(sent)])
    BY DEF IInv, SupplyInv
  <2>2. f[Len(sent)] = supply
    BY <2>1, EmptyLen DEF Course
  <2> QED
    BY <2>1, <2>2 DEF SetInv
<1> QED
  BY Invariance, <1>2, PTL

\* The voltages the driver has read are those of the outputs until one is set
\* (QpxHV8Plugin::get_all_settings).
THEOREM ReadVoltagesAreTrue == Spec => []VoltagesAreTrue
<1>1. IInv => VoltagesAreTrue
  <2> SUFFICES ASSUME IInv, sent = << >>, ~mishap
               PROVE  \A c \in Channels \ unread : voltages[c] = supply.volts[c]
    BY DEF VoltagesAreTrue
  <2>1. PICK f : Course(f, sent, supply) /\ SetInv(f[Len(sent)])
    BY DEF IInv, SupplyInv
  <2>2. f[Len(sent)] = supply
    BY <2>1, EmptyLen DEF Course
  <2> QED
    BY <2>1, <2>2 DEF SetInv
<1> QED
  BY Invariance, <1>1, PTL
=============================================================================
