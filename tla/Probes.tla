------------------------------- MODULE Probes -------------------------------
(***************************************************************************)
(* The probes of internal/probe/linux.go that run commands, in the order   *)
(* the checks call them: TimeSync asks timedatectl and falls back to       *)
(* chronyc, Nofile asks systemctl, XRPLDVersion asks the xrpld found in    *)
(* PATH.  Every command goes through runCommand, whose promise is          *)
(* BoundedCall: CommandRunner is shown to implement it.  The command may   *)
(* print anything of Prints and exit, or not, as it likes.                 *)
(*                                                                         *)
(* A piece of output is a line, reduced to what the probe looks for:       *)
(*   timedatectl, xrpld   a word, "" for a blank line                      *)
(*   chronyc              the set of phrases in the line                   *)
(*   systemctl            [key, value], key "" without an equals sign      *)
(***************************************************************************)
EXTENDS Verdicts, SequencesExt

CONSTANTS SystemdTimeout, XrpldTimeout,  \* the two timeouts, in ticks
          Grace,       \* what a call may take beyond its timeout
          MaxOutput,   \* maxCommandOutput, in lines
          Prints,      \* what each command may print
          MaxPrints,   \* bound: how many lines a command prints
          Number       \* strconv.ParseUint, on the spellings it accepts

Commands == {"timedatectl", "chronyc", "systemctl", "xrpld"}

ASSUME TimeoutAssumption == {SystemdTimeout, XrpldTimeout, Grace} \subseteq Nat
ASSUME OutputAssumption ==
  /\ {MaxOutput, MaxPrints} \subseteq Nat
  /\ DOMAIN Prints = Commands
  /\ DOMAIN Number \cap {"", "infinity", "infinite"} = {}
  /\ \A s \in DOMAIN Number : Number[s] \in Nat

VARIABLES pc,      \* the command being run, "rlimit", "lookpath" or "done"
          time,    \* TimeSyncInfo
          nofile,  \* NofileInfo
          binary,  \* BinaryInfo, as BinaryCheck reads it
          status, exited, printed, elapsed, answer, text,  \* the call
          spent,   \* history: ticks the calls before this one took
          heard    \* history: what the commands of the latest probe printed

call == <<status, exited, printed, elapsed, answer, text>>
results == <<time, nofile, binary>>
vars == <<pc, results, call, spent, heard>>

Timeout(command) == IF command = "xrpld" THEN XrpldTimeout ELSE SystemdTimeout

Call(command) ==
  INSTANCE BoundedCall WITH Bound <- Timeout(command) + Grace, Pieces <- Prints[command]

FirstOf(n, s) == IF Len(s) <= n THEN s ELSE SubSeq(s, 1, n)

TimeSyncInfo ==
  [state : {"none", "synchronized", "unsynchronized", "unknown"},
   source : {"", "timedatectl", "chronyc"}]

Limits == [infinite : BOOLEAN, limit : Nat, ok : BOOLEAN]
NofileInfo ==
  [process : BOOLEAN, verified : BOOLEAN, infinite : BOOLEAN, soft : Nat, hard : Limits]

NoLimit == [infinite |-> FALSE, limit |-> 0, ok |-> FALSE]
NotRun == [answer |-> "none", printed |-> << >>]
Silence == [c \in Commands |-> NotRun]

Init ==
  /\ pc = "timedatectl"
  /\ time = [state |-> "none", source |-> ""]
  /\ nofile = [process |-> FALSE, verified |-> FALSE, infinite |-> FALSE, soft |-> 0,
               hard |-> NoLimit]
  /\ binary = "none"
  /\ Call("timedatectl")!CallInit
  /\ spent = 0 /\ heard = Silence

-----------------------------------------------------------------------------
(* runCommand                                                              *)

Running(command) == pc = command /\ status = "running" /\ UNCHANGED <<pc, results, spent, heard>>

Starts ==
  \E c \in Commands : pc = c /\ Call(c)!CallStarts /\ UNCHANGED <<pc, results, spent, heard>>

Output ==
  \E c \in Commands : /\ Running(c) /\ Len(printed) < MaxPrints
                      /\ \E piece \in Prints[c] : Call(c)!CommandPrints(piece)

Exits == \E c \in Commands, how \in {"ok", "bad"} : Running(c) /\ Call(c)!CommandExits(how)

Ticks == \E c \in Commands : Running(c) /\ Call(c)!CallTicks

Returns ==
  \E c \in Commands : pc = c /\ Call(c)!CallReturns /\ UNCHANGED <<pc, results, spent, heard>>

\* The probe looks at the answer, and the next call has not been made.
Answered(command) ==
  /\ pc = command /\ status = "done"
  /\ status' = "ready" /\ exited' = "no" /\ printed' = << >>
  /\ elapsed' = 0 /\ answer' = "none" /\ text' = << >>
  /\ spent' = spent + elapsed
  /\ heard' = [heard EXCEPT ![command] = [answer |-> answer, printed |-> printed]]

-----------------------------------------------------------------------------
(* TimeSync                                                                *)

\* TrimSpace: what is left of the lines is this word, or nothing.
Alone(lines, word) ==
  \E i \in DOMAIN lines : lines[i] = word /\ \A j \in DOMAIN lines : j # i => lines[j] = ""
Blank(lines) == \A i \in DOMAIN lines : lines[i] = ""

Known(state, source) == time' = [state |-> state, source |-> source] /\ pc' = "rlimit"

Decisive(lines) == Alone(lines, "yes") \/ Alone(lines, "no")

\* Seeded fault: a call that gave no answer is made again.
BrokenReadTimedatectl ==
  /\ Answered("timedatectl")
  /\ \/ answer = "ok" /\ Alone(text, "yes") /\ Known("synchronized", "timedatectl")
     \/ answer = "ok" /\ Alone(text, "no") /\ Known("unsynchronized", "timedatectl")
     \/ answer = "error" /\ UNCHANGED <<pc, time>>
     \/ answer = "ok" /\ ~Decisive(text) /\ pc' = "chronyc" /\ UNCHANGED time
  /\ UNCHANGED <<nofile, binary>>

\* One word alone is an answer; an error or anything else is not.
ReadTimedatectl ==
  /\ Answered("timedatectl")
  /\ \/ answer = "ok" /\ Alone(text, "yes") /\ Known("synchronized", "timedatectl")
     \/ answer = "ok" /\ Alone(text, "no") /\ Known("unsynchronized", "timedatectl")
     \/ ~(answer = "ok" /\ Decisive(text)) /\ pc' = "chronyc" /\ UNCHANGED time
  /\ UNCHANGED <<nofile, binary>>

Says(lines, phrase) == \E i \in DOMAIN lines : phrase \in lines[i]

\* Seeded fault: the text is read without looking at the error.
BrokenReadChronyc ==
  /\ Answered("chronyc")
  /\ CASE Says(text, "not synchronised") -> Known("unsynchronized", "chronyc")
       [] ~Says(text, "not synchronised") /\ Says(text, "leap status") /\ Says(text, "normal") ->
            Known("synchronized", "chronyc")
       [] OTHER -> Known("unknown", "")
  /\ UNCHANGED <<nofile, binary>>

\* Seeded fault: with no answer, the first daemon may be ready by now.
BrokenReadChronycAgain ==
  /\ Answered("chronyc")
  /\ IF answer = "ok" THEN Known("unknown", "") ELSE pc' = "timedatectl" /\ UNCHANGED time
  /\ UNCHANGED <<nofile, binary>>

Normal(lines) == Says(lines, "leap status") /\ Says(lines, "normal")

ReadChronyc ==
  /\ Answered("chronyc")
  /\ \/ answer = "ok" /\ Says(text, "not synchronised") /\ Known("unsynchronized", "chronyc")
     \/ /\ answer = "ok" /\ ~Says(text, "not synchronised") /\ Normal(text)
        /\ Known("synchronized", "chronyc")
     \/ /\ ~(answer = "ok" /\ (Says(text, "not synchronised") \/ Normal(text)))
        /\ Known("unknown", "")
  /\ UNCHANGED <<nofile, binary>>

-----------------------------------------------------------------------------
(* Nofile                                                                  *)

\* The limit of this process is an indication, and may not be readable.
Getrlimit ==
  /\ pc = "rlimit"
  /\ pc' = "systemctl" /\ heard' = Silence
  /\ \E known \in BOOLEAN : nofile' = [nofile EXCEPT !.process = known]
  /\ UNCHANGED <<time, binary, call, spent>>

Infinite == {"infinity", "infinite"}

parseLimit(value) ==
  IF value \in Infinite THEN [infinite |-> TRUE, limit |-> 0, ok |-> TRUE]
  ELSE IF value \in DOMAIN Number THEN [infinite |-> FALSE, limit |-> Number[value], ok |-> TRUE]
  ELSE NoLimit

\* The value of the last line with this key, "" without one.
Property(lines, key) ==
  LET given == {i \in DOMAIN lines : lines[i].key = key}
  IN  IF given = {} THEN "" ELSE lines[Max(given)].value

\* Seeded fault: the hard limit stands in for a soft one that is missing.
BrokenServiceLimits(lines) ==
  LET soft == parseLimit(Property(lines, "LimitNOFILESoft"))
      hard == parseLimit(Property(lines, "LimitNOFILE"))
      used == IF soft.ok THEN soft ELSE hard
  IN  [nofile EXCEPT !.hard = hard, !.verified = used.ok, !.infinite = used.infinite,
                     !.soft = used.limit]

ServiceLimits(lines) ==
  LET soft == parseLimit(Property(lines, "LimitNOFILESoft"))
  IN  [nofile EXCEPT !.hard = parseLimit(Property(lines, "LimitNOFILE")),
                     !.verified = soft.ok, !.infinite = soft.infinite, !.soft = soft.limit]

ReadSystemctl ==
  /\ Answered("systemctl")
  /\ pc' = "lookpath"
  /\ nofile' = IF answer = "ok" /\ Property(text, "LoadState") = "loaded"
               THEN ServiceLimits(text) ELSE nofile
  /\ UNCHANGED <<time, binary>>

-----------------------------------------------------------------------------
(* XRPLDVersion                                                            *)

LookPath ==
  /\ pc = "lookpath" /\ heard' = Silence
  /\ \/ pc' = "done" /\ binary' = "absent"
     \/ pc' = "xrpld" /\ UNCHANGED binary
  /\ UNCHANGED <<time, nofile, call, spent>>

\* Seeded fault: the state of a command with no answer is left out.
BrokenReadVersion ==
  /\ Answered("xrpld")
  /\ pc' = "done"
  /\ binary' = IF answer = "ok" THEN IF Blank(text) THEN "silent" ELSE "versioned"
               ELSE binary
  /\ UNCHANGED <<time, nofile>>

\* The first line with something to display is the version.
ReadVersion ==
  /\ Answered("xrpld")
  /\ pc' = "done"
  /\ binary' = IF answer # "ok" THEN "error" ELSE IF Blank(text) THEN "silent" ELSE "versioned"
  /\ UNCHANGED <<time, nofile>>

-----------------------------------------------------------------------------

Probe == ReadTimedatectl \/ ReadChronyc \/ Getrlimit \/ ReadSystemctl \/ LookPath \/ ReadVersion

Next == Starts \/ Output \/ Exits \/ Ticks \/ Returns \/ Probe

(***************************************************************************)
(* The probes run, and a call that was made returns (CommandRunner's       *)
(* CallReturns).  No command has to print or to exit.                      *)
(***************************************************************************)
Spec == Init /\ [][Next]_vars /\ WF_vars(Starts) /\ WF_vars(Returns) /\ WF_vars(Probe)

-----------------------------------------------------------------------------
(* Properties                                                              *)

Levels == {"production", "minimum"}

\* Each variable holds a value the code can give it; once the probes are over
\* every one of them has an answer.
TypeOK ==
  /\ pc \in Commands \cup {"rlimit", "lookpath", "done"}
  /\ time \in TimeSyncInfo /\ nofile \in NofileInfo
  /\ binary \in {"none", "absent", "error", "silent", "versioned"}
  /\ pc = "done" => time.state # "none" /\ binary # "none"
  /\ answer \in {"none", "ok", "error"} /\ spent \in Nat

\* What a command said: with an error it said nothing.
Kept(command) ==
  IF heard[command].answer = "ok" THEN FirstOf(MaxOutput, heard[command].printed) ELSE << >>

TimeIsWitnessed ==
  pc = "rlimit" =>
    LET daemon == Kept("timedatectl")
        chrony == Kept("chronyc")
    IN  /\ time.source = "timedatectl" =>
             Alone(daemon, IF time.state = "synchronized" THEN "yes" ELSE "no")
        /\ time.source = "chronyc" =>
             /\ ~Decisive(daemon)
             /\ time.state = "unsynchronized" <=> Says(chrony, "not synchronised")
             /\ time.state = "synchronized" => Normal(chrony)
        /\ time.source = "" => time.state = "unknown"

LimitIsWitnessed ==
  pc = "lookpath" =>
    LET lines == Kept("systemctl")
        soft == {lines[i] : i \in {j \in DOMAIN lines : lines[j].key = "LimitNOFILESoft"}}
        loads == {i \in DOMAIN lines : lines[i].key = "LoadState"}
    IN  nofile.verified =>
          /\ \E line \in soft :
               IF nofile.infinite THEN line.value \in Infinite
               ELSE line.value \in DOMAIN Number /\ nofile.soft = Number[line.value]
          /\ \E i \in loads : lines[i].value = "loaded" /\ \A j \in loads : j <= i

VersionIsWitnessed == pc = "done" => (binary = "versioned" <=> ~Blank(Kept("xrpld")))

\* Every verdict goes back to a complete answer of the command it names: one
\* word of timedatectl, or, only when there was none, a line of chronyc that no
\* other contradicts; for the service a soft limit that systemctl printed, and
\* that the service is loaded; for the version a line of xrpld.  Text of a
\* command that failed or was killed, and the answer of one command under the
\* name of another, never decide.
VerdictIsWitnessed == TimeIsWitnessed /\ LimitIsWitnessed /\ VersionIsWitnessed

NoAnswer == \A c \in Commands : heard[c].answer # "ok"

\* SECURITY.md:43: a probe that cannot answer produces a warning.  When no
\* command of a probe exited with status 0, its check warns at every level.
NoAnswerIsAWarning ==
  NoAnswer => \A level \in Levels :
    /\ pc = "rlimit" => TimeCheck(time.state, level) = "warn"
    /\ pc = "lookpath" => NofileCheck(nofile, level) = "warn"
    /\ pc = "done" => BinaryCheck(binary) = "warn"

\* ... rather than a hang: with every command of the run hanging, fallback
\* included, the three probes take no more than four timeouts and what it
\* takes to end four commands.
RunIsBounded == spent + elapsed <= 3 * SystemdTimeout + XrpldTimeout + 4 * Grace

\* The probes come to an end, whatever the commands do.
ProbesEnd == <>(pc = "done")

=============================================================================
