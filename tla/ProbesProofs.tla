---------------------------- MODULE ProbesProofs ----------------------------
(***************************************************************************)
(* Theorems about Probes, for any timeouts, any cap on the output and      *)
(* anything the commands may print.  The argument: a call that has         *)
(* returned without an error holds the beginning of what was printed       *)
(* (CallKept), what was heard is what the finished calls of the probe at   *)
(* hand printed (HeardSoFar), no result is there before its probe          *)
(* (ResultsInOrder), and each command run so far is worth one timeout      *)
(* (TimeSpent).                                                            *)
(***************************************************************************)
EXTENDS Probes, SequenceTheorems, WellFoundedInduction, TLAPS

-----------------------------------------------------------------------------
(* The inductive invariant                                                 *)

\* A call is answered once, and a nil error comes with the output.
CallKept ==
  /\ status \in {"ready", "running", "done"}
  /\ pc \notin Commands => status = "ready"
  /\ status = "ready" => printed = << >> /\ elapsed = 0
  /\ status # "done" => answer = "none"
  /\ status = "done" => answer \in {"ok", "error"}
  /\ answer = "ok" => text = FirstOf(MaxOutput, printed)
  /\ pc \in Commands => printed \in Seq(Prints[pc])
  /\ elapsed \in Nat
  /\ pc \in Commands => elapsed <= Timeout(pc) + Grace

\* What was heard, between the calls of a probe and at its end.
HeardSoFar ==
  /\ heard = [c \in Commands |-> heard[c]]
  /\ pc \in {"timedatectl", "systemctl", "xrpld"} => heard = Silence
  /\ pc = "chronyc" => heard["chronyc"] = NotRun /\ ~Decisive(Kept("timedatectl"))
  /\ TimeIsWitnessed
  /\ LimitIsWitnessed
  /\ VersionIsWitnessed

\* No result is there before its probe, and none without an answer.
ResultsInOrder ==
  /\ pc \in {"timedatectl", "chronyc"} <=> time.state = "none"
  /\ pc \notin {"lookpath", "xrpld", "done"} => ~nofile.verified
  /\ pc = "done" <=> binary # "none"
  /\ pc = "rlimit" /\ NoAnswer => time.state = "unknown"
  /\ pc = "lookpath" /\ NoAnswer => ~nofile.verified

\* Each command that has been run took no more than its timeout and the grace.
TimeSpent ==
  /\ pc = "timedatectl" => spent = 0
  /\ pc = "chronyc" => spent <= SystemdTimeout + Grace
  /\ pc \in {"rlimit", "systemctl"} => spent <= 2 * SystemdTimeout + 2 * Grace
  /\ pc \in {"lookpath", "xrpld"} => spent <= 3 * SystemdTimeout + 3 * Grace
  /\ pc = "done" => spent <= 3 * SystemdTimeout + XrpldTimeout + 4 * Grace

IInv == TypeOK /\ CallKept /\ HeardSoFar /\ ResultsInOrder /\ TimeSpent

-----------------------------------------------------------------------------
(* The lines of systemctl                                                  *)

\* A set of numbers has a least one.
LEMMA LeastExists ==
  ASSUME NEW S \in SUBSET Nat, S # {}
  PROVE  \E x \in S : \A y \in S : x <= y
<1>1. PICK x \in S : \A y \in S : ~ (<<y, x>> \in OpToRel(<, Nat))
  BY NatLessThanWellFounded, WFMin
<1>2. \A y \in S : ~(y < x)
  BY <1>1 DEF OpToRel
<1> QED BY <1>2

\* A bounded set of numbers has a greatest one, and Max is that.
LEMMA MaxIsGreatest ==
  ASSUME NEW n \in Nat, NEW S \in SUBSET (1 .. n), S # {}
  PROVE  Max(S) \in S /\ \A y \in S : y <= Max(S)
<1> DEFINE T == {m \in Nat : \E s \in S : m = n - s}
<1>1. T \in SUBSET Nat /\ T # {}
  <2>1. PICK s \in S : TRUE
    OBVIOUS
  <2>2. n - s \in T
    OBVIOUS
  <2> QED BY <2>2
<1>2. PICK t \in T : \A u \in T : t <= u
  <2> HIDE DEF T
  <2> QED BY <1>1, LeastExists
<1>3. \E x \in S : \A y \in S : x >= y
  <2>1. PICK x \in S : t = n - x
    OBVIOUS
  <2>2. \A y \in S : n - x <= n - y
    BY <1>2, <2>1
  <2> QED BY <2>2
<1> QED BY <1>3 DEF Max

\* A property that is not empty is the value of the last line with its key.
LEMMA PropertyIsLast ==
  ASSUME NEW lines, NEW n \in Nat, DOMAIN lines = 1 .. n, NEW key
  PROVE  Property(lines, key) # "" =>
           \E i \in DOMAIN lines :
             /\ lines[i].key = key /\ lines[i].value = Property(lines, key)
             /\ \A j \in DOMAIN lines : lines[j].key = key => j <= i
<1> DEFINE given == {i \in DOMAIN lines : lines[i].key = key}
<1>1. Property(lines, key) = IF given = {} THEN "" ELSE lines[Max(given)].value
  BY Zenon DEF Property
<1>2. given # {} => Max(given) \in given /\ \A j \in given : j <= Max(given)
  <2>1. given \in SUBSET (1 .. n)
    OBVIOUS
  <2> HIDE DEF given
  <2> QED BY <2>1, MaxIsGreatest
<1> SUFFICES ASSUME Property(lines, key) # ""
             PROVE  \E i \in DOMAIN lines :
                      /\ lines[i].key = key /\ lines[i].value = Property(lines, key)
                      /\ \A j \in DOMAIN lines : lines[j].key = key => j <= i
  OBVIOUS
<1>3. given # {}
  BY <1>1, Zenon
<1> QED BY <1>1, <1>2, <1>3, Zenon

\* A limit that was read is one of the spellings of infinity, or a number.
LEMMA LimitCases ==
  ASSUME NEW value
  PROVE  /\ parseLimit(value) \in Limits
         /\ parseLimit(value).ok =>
              /\ value # ""
              /\ IF parseLimit(value).infinite THEN value \in Infinite
                 ELSE value \in DOMAIN Number /\ parseLimit(value).limit = Number[value]
<1>1. CASE value \in Infinite
  <2>1. parseLimit(value) = [infinite |-> TRUE, limit |-> 0, ok |-> TRUE]
    BY <1>1, Zenon DEF parseLimit
  <2>2. value # ""
    BY <1>1 DEF Infinite
  <2>3. /\ parseLimit(value) \in Limits
        /\ parseLimit(value).infinite
    BY <2>1 DEF Limits
  <2> QED BY <1>1, <2>2, <2>3, Zenon
<1>2. CASE value \notin Infinite /\ value \in DOMAIN Number
  <2> DEFINE k == Number[value]
  <2>1. parseLimit(value) = [infinite |-> FALSE, limit |-> k, ok |-> TRUE]
    BY <1>2, Zenon DEF parseLimit
  <2>2. value # "" /\ k \in Nat
    BY <1>2, OutputAssumption, Zenon
  <2> HIDE DEF k
  <2>3. /\ parseLimit(value) \in Limits
        /\ ~parseLimit(value).infinite /\ parseLimit(value).limit = k
    <3>1. [infinite |-> FALSE, limit |-> k, ok |-> TRUE] \in Limits
      BY <2>2 DEF Limits
    <3> QED BY <2>1, <3>1
  <2> QED BY <1>2, <2>2, <2>3, Zenon DEF k
<1>3. CASE value \notin Infinite /\ value \notin DOMAIN Number
  <2>1. parseLimit(value) = NoLimit
    BY <1>3, Zenon DEF parseLimit
  <2> QED BY <2>1 DEF NoLimit, Limits
<1> QED BY <1>1, <1>2, <1>3

-----------------------------------------------------------------------------
(* A call, and the answer it gave                                          *)

\* Silence says nothing, and nothing decides.
LEMMA SilenceIsNothing ==
  /\ ~Decisive(<< >>) /\ Blank(<< >>)
  /\ \A c \in Commands : Silence[c] = NotRun
<1>1. ~Alone(<< >>, "yes") /\ ~Alone(<< >>, "no")
  BY DEF Alone
<1> QED BY <1>1 DEF Decisive, Blank, Silence

\* The beginning of a sequence is a sequence.
LEMMA FirstIsSequence ==
  ASSUME NEW S, NEW s \in Seq(S), NEW n \in Nat
  PROVE  FirstOf(n, s) \in Seq(S)
BY DEF FirstOf

\* What moves a call on moves nothing else, and keeps it a call.
LEMMA CallMoves ==
  ASSUME IInv, Starts \/ Output \/ Exits \/ Ticks \/ Returns
  PROVE  /\ UNCHANGED <<pc, time, nofile, binary, spent, heard>>
         /\ CallKept' /\ answer' \in {"none", "ok", "error"}
<1> USE DEF IInv
<1>1. PICK c \in Commands :
        /\ pc = c /\ UNCHANGED <<pc, time, nofile, binary, spent, heard>>
        /\ \/ Call(c)!CallStarts \/ (\E piece \in Prints[c] : Call(c)!CommandPrints(piece))
           \/ (\E how \in {"ok", "bad"} : Call(c)!CommandExits(how))
           \/ Call(c)!CallTicks \/ Call(c)!CallReturns
  BY Zenon DEF Starts, Output, Exits, Ticks, Returns, Running, results
<1>2. Timeout(c) \in Nat /\ Grace \in Nat
  BY TimeoutAssumption DEF Timeout
<1>3. pc \in Commands /\ pc' = pc
  BY <1>1
<1>4. CASE Call(c)!CallStarts
  BY <1>1, <1>4 DEF Call!CallStarts, CallKept, TypeOK
<1>5. CASE \E piece \in Prints[c] : Call(c)!CommandPrints(piece)
  <2>1. PICK piece \in Prints[c] : Call(c)!CommandPrints(piece)
    BY <1>5
  <2>2. printed' \in Seq(Prints[c])
    BY <1>1, <2>1 DEF Call!CommandPrints, CallKept
  <2> QED BY <1>1, <2>1, <2>2 DEF Call!CommandPrints, CallKept, TypeOK
<1>6. CASE \E how \in {"ok", "bad"} : Call(c)!CommandExits(how)
  BY <1>1, <1>6 DEF Call!CommandExits, CallKept, TypeOK
<1>7. CASE Call(c)!CallTicks
  <2>1. elapsed < Timeout(c) + Grace /\ elapsed' = elapsed + 1 /\ status = "running"
        /\ UNCHANGED <<status, exited, printed, answer, text>>
    BY <1>7 DEF Call!CallTicks
  <2>2. elapsed' \in Nat /\ elapsed' <= Timeout(c) + Grace
    BY <1>2, <2>1 DEF CallKept
  <2> QED BY <1>1, <2>1, <2>2 DEF CallKept, TypeOK
<1>8. CASE Call(c)!CallReturns
  <2>1. CASE Call(c)!CallFails
    BY <1>1, <2>1 DEF Call!CallFails, CallKept, TypeOK
  <2>2. CASE Call(c)!CallSucceeds
    BY <1>1, <2>2 DEF Call!CallSucceeds, Call!FirstOf, FirstOf, CallKept, TypeOK
  <2>3. CASE Call(c)!CallGivesUp
    BY <1>1, <2>3 DEF Call!CallGivesUp, CallKept, TypeOK
  <2> QED BY <1>8, <2>1, <2>2, <2>3 DEF Call!CallReturns
<1> QED BY <1>1, <1>4, <1>5, <1>6, <1>7, <1>8

\* The answer of a command joins what was heard, and the call is made ready.
LEMMA AnswerIsHeard ==
  ASSUME IInv, NEW c \in Commands, Answered(c)
  PROVE  /\ pc = c /\ answer \in {"ok", "error"} /\ heard'[c].answer = answer
         /\ Kept(c)' = IF answer = "ok" THEN text ELSE << >>
         /\ \A d \in Commands \ {c} : heard'[d] = heard[d] /\ Kept(d)' = Kept(d)
         /\ heard' = [d \in Commands |-> heard'[d]]
         /\ spent' \in Nat /\ spent' <= spent + Timeout(c) + Grace
         /\ status' = "ready" /\ printed' = << >> /\ elapsed' = 0 /\ answer' = "none"
<1> USE DEF IInv
<1>1. /\ pc = c /\ status = "done" /\ spent' = spent + elapsed
      /\ status' = "ready" /\ printed' = << >> /\ elapsed' = 0 /\ answer' = "none"
      /\ heard' = [heard EXCEPT ![c] = [answer |-> answer, printed |-> printed]]
  BY DEF Answered
<1>2. answer \in {"ok", "error"} /\ (answer = "ok" => text = FirstOf(MaxOutput, printed))
  BY <1>1 DEF CallKept
<1>3. /\ heard'[c] = [answer |-> answer, printed |-> printed]
      /\ \A d \in Commands \ {c} : heard'[d] = heard[d]
      /\ heard' = [d \in Commands |-> heard'[d]]
  <2>1. heard = [d \in Commands |-> heard[d]]
    BY DEF HeardSoFar
  <2> QED BY <1>1, <2>1
<1>4. heard'[c].answer = answer /\ heard'[c].printed = printed
  BY <1>3
<1>5. Kept(c)' = IF answer = "ok" THEN text ELSE << >>
  BY <1>2, <1>4, Zenon DEF Kept
<1>6. \A d \in Commands \ {c} : Kept(d)' = Kept(d)
  BY <1>3, Zenon DEF Kept
<1>7. spent' \in Nat /\ spent' <= spent + Timeout(c) + Grace
  <2>1. Timeout(c) \in Nat /\ Grace \in Nat
    BY TimeoutAssumption DEF Timeout
  <2>2. elapsed \in Nat /\ elapsed <= Timeout(c) + Grace /\ spent \in Nat
    BY <1>1 DEF CallKept, TypeOK
  <2> QED BY <1>1, <2>1, <2>2
<1> QED BY <1>1, <1>2, <1>3, <1>4, <1>5, <1>6, <1>7, Zenon

\* A call that has not been made is a call.
LEMMA ReadyIsKept ==
  ASSUME status' = "ready", printed' = << >>, elapsed' = 0, answer' = "none"
  PROVE  CallKept'
<1>1. << >> \in Seq(Prints[pc'])
  BY EmptySeq, Zenon
<1>2. \A c : Timeout(c) \in Nat /\ Grace \in Nat
  BY TimeoutAssumption DEF Timeout
<1>3. elapsed' \in Nat /\ elapsed' <= Timeout(pc') + Grace
  BY <1>2
<1> QED BY <1>1, <1>3 DEF CallKept

\* The timeouts are numbers, one for three of the commands.
LEMMA Timeouts ==
  /\ SystemdTimeout \in Nat /\ XrpldTimeout \in Nat /\ Grace \in Nat
  /\ Timeout("timedatectl") = SystemdTimeout /\ Timeout("chronyc") = SystemdTimeout
  /\ Timeout("systemctl") = SystemdTimeout /\ Timeout("xrpld") = XrpldTimeout
BY TimeoutAssumption DEF Timeout

-----------------------------------------------------------------------------
(* The invariant is inductive                                              *)

\* The invariant holds before the first command.
LEMMA InitIInv == Init => IInv
<1> SUFFICES ASSUME Init PROVE IInv
  OBVIOUS
<1>1. status = "ready" /\ printed = << >> /\ elapsed = 0 /\ answer = "none"
  BY DEF Init, Call!CallInit
<1>2. pc = "timedatectl" /\ binary = "none" /\ spent = 0 /\ heard = Silence
      /\ time.state = "none" /\ ~nofile.verified
  BY DEF Init
<1>3. TypeOK
  <2>1. time \in TimeSyncInfo /\ nofile \in NofileInfo
    BY DEF Init, TimeSyncInfo, NofileInfo, NoLimit, Limits
  <2> QED BY <1>1, <1>2, <2>1 DEF TypeOK, Commands
<1>4. CallKept
  <2>1. << >> \in Seq(Prints[pc])
    BY EmptySeq, Zenon
  <2> QED BY <1>1, <2>1, Timeouts, <1>2 DEF CallKept, Commands
<1>5. HeardSoFar
  <2>1. Silence = [c \in Commands |-> Silence[c]]
    BY DEF Silence
  <2> QED BY <1>2, <2>1 DEF HeardSoFar, TimeIsWitnessed, LimitIsWitnessed, VersionIsWitnessed
<1>6. ResultsInOrder /\ TimeSpent
  BY <1>2 DEF ResultsInOrder, TimeSpent
<1> QED BY <1>3, <1>4, <1>5, <1>6 DEF IInv

\* A call that moves on changes nothing that was heard.
LEMMA CallKeepsIInv ==
  ASSUME IInv, UNCHANGED <<pc, time, nofile, binary, spent, heard>>,
         CallKept', answer' \in {"none", "ok", "error"}
  PROVE  IInv'
<1>1. /\ UNCHANGED <<pc, time, nofile, binary, spent, heard>>
      /\ CallKept' /\ answer' \in {"none", "ok", "error"}
  OBVIOUS
<1>2. TypeOK'
  BY <1>1 DEF IInv, TypeOK, Commands
<1>3. /\ \A c : Kept(c)' = Kept(c)
      /\ NoAnswer' = NoAnswer
  BY <1>1, Zenon DEF Kept, NoAnswer
<1>4. TimeIsWitnessed' /\ LimitIsWitnessed' /\ VersionIsWitnessed'
  <2>1. TimeIsWitnessed /\ LimitIsWitnessed /\ VersionIsWitnessed
    BY DEF IInv, HeardSoFar
  <2>2. TimeIsWitnessed'
    BY <1>1, <1>3, <2>1, Zenon DEF TimeIsWitnessed
  <2>3. LimitIsWitnessed'
    <3>1. pc' = pc /\ nofile' = nofile /\ Kept("systemctl")' = Kept("systemctl")
      BY <1>1, <1>3, Zenon
    <3> QED BY <2>1, <3>1 DEF LimitIsWitnessed
  <2>4. VersionIsWitnessed'
    BY <1>1, <1>3, <2>1, Zenon DEF VersionIsWitnessed
  <2> QED BY <2>2, <2>3, <2>4
<1>5. HeardSoFar'
  BY <1>1, <1>3, <1>4 DEF IInv, HeardSoFar
<1>6. ResultsInOrder' /\ TimeSpent'
  BY <1>1, <1>3 DEF IInv, ResultsInOrder, TimeSpent
<1> QED BY <1>1, <1>2, <1>5, <1>6 DEF IInv

\* timedatectl decides with one word alone, or the question goes to chronyc.
LEMMA TimedatectlKeepsIInv ==
  ASSUME IInv, ReadTimedatectl
  PROVE  IInv'
<1> USE DEF IInv
<1> DEFINE c == "timedatectl"
<1>1. c \in Commands /\ Answered(c) /\ nofile' = nofile /\ binary' = binary
  BY DEF ReadTimedatectl, Commands
<1>2. /\ pc = c /\ answer \in {"ok", "error"} /\ heard'[c].answer = answer
      /\ Kept(c)' = (IF answer = "ok" THEN text ELSE << >>)
      /\ heard'["chronyc"] = heard["chronyc"]
      /\ heard' = [d \in Commands |-> heard'[d]]
      /\ spent' \in Nat /\ spent' <= spent + Timeout(c) + Grace
      /\ status' = "ready" /\ printed' = << >> /\ elapsed' = 0 /\ answer' = "none"
  <2>1. "chronyc" \in Commands \ {c}
    BY DEF Commands
  <2> QED BY <1>1, <2>1, AnswerIsHeard, Zenon
<1>3. time.state = "none" /\ ~nofile.verified /\ binary = "none" /\ spent = 0 /\ heard = Silence
  BY <1>2 DEF ResultsInOrder, TimeSpent, HeardSoFar
<1>4. CallKept'
  BY <1>2, ReadyIsKept
<1>5. spent' <= SystemdTimeout + Grace /\ spent' <= 2 * SystemdTimeout + 2 * Grace
  BY <1>2, <1>3, Timeouts
<1>6. CASE \/ answer = "ok" /\ Alone(text, "yes") /\ Known("synchronized", "timedatectl")
           \/ answer = "ok" /\ Alone(text, "no") /\ Known("unsynchronized", "timedatectl")
  <2>1. /\ pc' = "rlimit" /\ time'.source = "timedatectl"
        /\ time'.state \in {"synchronized", "unsynchronized"}
        /\ time' \in TimeSyncInfo
    <3>1. /\ pc' = "rlimit"
          /\ \/ time' = [state |-> "synchronized", source |-> "timedatectl"]
             \/ time' = [state |-> "unsynchronized", source |-> "timedatectl"]
      BY <1>6, Zenon DEF Known
    <3>2. CASE time' = [state |-> "synchronized", source |-> "timedatectl"]
      BY <3>1, <3>2 DEF TimeSyncInfo
    <3>3. CASE time' = [state |-> "unsynchronized", source |-> "timedatectl"]
      BY <3>1, <3>3 DEF TimeSyncInfo
    <3> QED BY <3>1, <3>2, <3>3, Zenon
  <2>2. Alone(text, IF time'.state = "synchronized" THEN "yes" ELSE "no")
    BY <1>6 DEF Known
  <2>3. Kept(c)' = text
    BY <1>2, <1>6
  <2>4. TimeIsWitnessed' /\ LimitIsWitnessed' /\ VersionIsWitnessed'
    <3>1. TimeIsWitnessed'
      BY <2>1, <2>2, <2>3 DEF TimeIsWitnessed
    <3> QED BY <2>1, <3>1 DEF LimitIsWitnessed, VersionIsWitnessed
  <2>5. ~NoAnswer'
    BY <1>1, <1>2, <1>6 DEF NoAnswer
  <2>6. TypeOK'
    BY <1>1, <1>2, <2>1 DEF TypeOK
  <2>7. HeardSoFar' /\ ResultsInOrder' /\ TimeSpent'
    BY <1>1, <1>2, <1>3, <1>5, <2>1, <2>4, <2>5 DEF HeardSoFar, ResultsInOrder, TimeSpent
  <2> QED BY <1>4, <2>6, <2>7
<1>7. CASE ~(answer = "ok" /\ Decisive(text)) /\ pc' = "chronyc" /\ UNCHANGED time
  <2>1. ~Decisive(Kept(c)')
    BY <1>2, <1>7, SilenceIsNothing
  <2>2. heard'["chronyc"] = NotRun
    BY <1>2, <1>3, SilenceIsNothing DEF Commands
  <2>3. TypeOK'
    BY <1>1, <1>2, <1>7 DEF TypeOK, Commands
  <2>4. TimeIsWitnessed' /\ LimitIsWitnessed' /\ VersionIsWitnessed'
    BY <1>7 DEF TimeIsWitnessed, LimitIsWitnessed, VersionIsWitnessed
  <2>5. HeardSoFar'
    <3>1. ~Decisive(Kept(c))'
      BY <2>1 DEF Decisive, Alone
    <3> QED BY <1>2, <1>7, <2>2, <2>4, <3>1 DEF HeardSoFar
  <2>6. ResultsInOrder' /\ TimeSpent'
    BY <1>1, <1>2, <1>3, <1>5, <1>7 DEF ResultsInOrder, TimeSpent
  <2> QED BY <1>4, <2>3, <2>5, <2>6
<1> QED BY <1>6, <1>7 DEF ReadTimedatectl

\* chronyc decides with what it says of the clock, or nothing is known.
LEMMA ChronycKeepsIInv ==
  ASSUME IInv, ReadChronyc
  PROVE  IInv'
<1> USE DEF IInv
<1> DEFINE c == "chronyc"
           said == Kept(c)'
<1>1. c \in Commands /\ Answered(c) /\ nofile' = nofile /\ binary' = binary
  BY DEF ReadChronyc, Commands
<1>2. /\ pc = c /\ answer \in {"ok", "error"} /\ heard'[c].answer = answer
      /\ said = (IF answer = "ok" THEN text ELSE << >>)
      /\ Kept("timedatectl")' = Kept("timedatectl")
      /\ heard' = [d \in Commands |-> heard'[d]]
      /\ spent' \in Nat /\ spent' <= spent + Timeout(c) + Grace
      /\ status' = "ready" /\ printed' = << >> /\ elapsed' = 0 /\ answer' = "none"
  <2>1. "timedatectl" \in Commands \ {c}
    BY DEF Commands
  <2> QED BY <1>1, <2>1, AnswerIsHeard, Zenon
<1>3. /\ ~nofile.verified /\ binary = "none" /\ spent <= SystemdTimeout + Grace /\ spent \in Nat
      /\ ~Decisive(Kept("timedatectl"))
  BY <1>2 DEF ResultsInOrder, TimeSpent, HeardSoFar, TypeOK
<1>4. CallKept'
  BY <1>2, ReadyIsKept
<1>5. spent' <= 2 * SystemdTimeout + 2 * Grace
  BY <1>2, <1>3, Timeouts
<1>6. \/ /\ answer = "ok" /\ Says(said, "not synchronised")
         /\ time' = [state |-> "unsynchronized", source |-> "chronyc"]
      \/ /\ answer = "ok" /\ ~Says(said, "not synchronised") /\ Normal(said)
         /\ time' = [state |-> "synchronized", source |-> "chronyc"]
      \/ time' = [state |-> "unknown", source |-> ""]
  BY <1>2, Zenon DEF ReadChronyc, Known
<1>7. pc' = "rlimit"
  BY Zenon DEF ReadChronyc, Known
<1> HIDE DEF said
<1>8. /\ time' \in TimeSyncInfo /\ time'.state # "none"
      /\ time'.source \in {"", "chronyc"} /\ (time'.source = "" => time'.state = "unknown")
      /\ time'.source = "chronyc" =>
           /\ answer = "ok"
           /\ time'.state = "unsynchronized" <=> Says(said, "not synchronised")
           /\ time'.state = "synchronized" => Normal(said)
      /\ answer # "ok" => time'.state = "unknown"
  <2>1. CASE /\ answer = "ok" /\ Says(said, "not synchronised")
             /\ time' = [state |-> "unsynchronized", source |-> "chronyc"]
    BY <2>1 DEF TimeSyncInfo
  <2>2. CASE /\ answer = "ok" /\ ~Says(said, "not synchronised") /\ Normal(said)
             /\ time' = [state |-> "synchronized", source |-> "chronyc"]
    BY <2>2 DEF TimeSyncInfo
  <2>3. CASE time' = [state |-> "unknown", source |-> ""]
    BY <2>3 DEF TimeSyncInfo
  <2> QED BY <1>6, <2>1, <2>2, <2>3
<1>9. TimeIsWitnessed'
  <2>1. ~Decisive(Kept("timedatectl")')
    BY <1>2, <1>3
  <2> QED BY <1>8, <2>1 DEF TimeIsWitnessed, said
<1>10. TypeOK'
  BY <1>1, <1>2, <1>7, <1>8 DEF TypeOK
<1>11. HeardSoFar'
  BY <1>2, <1>7, <1>9 DEF HeardSoFar, LimitIsWitnessed, VersionIsWitnessed
<1>12. NoAnswer' => time'.state = "unknown"
  BY <1>1, <1>2, <1>8 DEF NoAnswer
<1>13. ResultsInOrder' /\ TimeSpent'
  BY <1>1, <1>3, <1>5, <1>7, <1>8, <1>12 DEF ResultsInOrder, TimeSpent
<1> QED BY <1>4, <1>10, <1>11, <1>13

\* The process limit and the search of PATH begin a probe: nothing is heard yet.
LEMMA BeginningKeepsIInv ==
  ASSUME IInv, Getrlimit \/ LookPath
  PROVE  IInv'
<1> USE DEF IInv
<1>1. /\ UNCHANGED <<time, status, exited, printed, elapsed, answer, text, spent>>
      /\ heard' = Silence /\ status = "ready"
  BY DEF Getrlimit, LookPath, call, CallKept, Commands
<1>2. CallKept'
  BY <1>1, ReadyIsKept DEF CallKept
<1>3. /\ heard' = [c \in Commands |-> heard'[c]]
      /\ \A c \in Commands : heard'[c] = NotRun
  BY <1>1 DEF Silence
<1>4. CASE Getrlimit
  <2>1. pc = "rlimit" /\ pc' = "systemctl" /\ binary' = binary
    BY <1>4 DEF Getrlimit
  <2>2. nofile' \in NofileInfo /\ nofile'.verified = nofile.verified
    BY <1>4 DEF Getrlimit, TypeOK, NofileInfo
  <2>3. TypeOK'
    BY <1>1, <2>1, <2>2 DEF TypeOK, Commands
  <2>4. HeardSoFar'
    BY <1>1, <1>3, <2>1 DEF HeardSoFar, TimeIsWitnessed, LimitIsWitnessed, VersionIsWitnessed
  <2>5. ResultsInOrder' /\ TimeSpent'
    BY <1>1, <2>1, <2>2 DEF ResultsInOrder, TimeSpent
  <2> QED BY <1>2, <2>3, <2>4, <2>5
<1>5. CASE LookPath
  <2>1. /\ pc = "lookpath" /\ nofile' = nofile
        /\ \/ pc' = "done" /\ binary' = "absent"
           \/ pc' = "xrpld" /\ binary' = binary
    BY <1>5 DEF LookPath
  <2>2. TypeOK'
    <3>1. time.state # "none"
      BY <2>1 DEF ResultsInOrder
    <3>2. binary' \in {"none", "absent", "error", "silent", "versioned"}
          /\ (pc' = "done" => binary' # "none")
      BY <2>1 DEF TypeOK
    <3>3. pc' \in Commands \cup {"rlimit", "lookpath", "done"}
      BY <2>1 DEF Commands
    <3>4. answer' \in {"none", "ok", "error"} /\ spent' \in Nat /\ time' \in TimeSyncInfo
      BY <1>1 DEF TypeOK
    <3>5. nofile' \in NofileInfo /\ time'.state # "none"
      BY <1>1, <2>1, <3>1 DEF TypeOK
    <3> QED BY <3>2, <3>3, <3>4, <3>5, Zenon DEF TypeOK
  <2>3. Blank(Kept("xrpld")')
    <3>1. heard'["xrpld"].answer # "ok"
      BY <1>3 DEF Commands, NotRun
    <3>2. Kept("xrpld")' = << >>
      BY <3>1, Zenon DEF Kept
    <3> QED BY <3>2, SilenceIsNothing, Zenon
  <2>4. VersionIsWitnessed'
    BY <2>1, <2>3, <1>1 DEF VersionIsWitnessed, ResultsInOrder
  <2>5. HeardSoFar'
    BY <1>1, <1>3, <2>1, <2>4 DEF HeardSoFar, TimeIsWitnessed, LimitIsWitnessed
  <2>6. ResultsInOrder'
    BY <1>1, <2>1 DEF ResultsInOrder
  <2>7. TimeSpent'
    BY <1>1, <2>1, Timeouts DEF TimeSpent, TypeOK
  <2> QED BY <1>2, <2>2, <2>5, <2>6, <2>7
<1> QED BY <1>4, <1>5

\* systemctl sets the limits of a service that is loaded, and no others.
LEMMA SystemctlKeepsIInv ==
  ASSUME IInv, ReadSystemctl
  PROVE  IInv'
<1> USE DEF IInv
<1> DEFINE c == "systemctl"
           said == Kept(c)'
           soft == parseLimit(Property(said, "LimitNOFILESoft"))
           hard == parseLimit(Property(said, "LimitNOFILE"))
           served == answer = "ok" /\ Property(said, "LoadState") = "loaded"
<1>1. c \in Commands /\ Answered(c) /\ time' = time /\ binary' = binary /\ pc' = "lookpath"
  BY DEF ReadSystemctl, Commands
<1>2. /\ pc = c /\ answer \in {"ok", "error"} /\ heard'[c].answer = answer
      /\ said = (IF answer = "ok" THEN text ELSE << >>)
      /\ heard' = [d \in Commands |-> heard'[d]]
      /\ spent' \in Nat /\ spent' <= spent + Timeout(c) + Grace
      /\ status' = "ready" /\ printed' = << >> /\ elapsed' = 0 /\ answer' = "none"
  BY <1>1, AnswerIsHeard, Zenon
<1>3. /\ ~nofile.verified /\ binary = "none" /\ time.state # "none"
      /\ spent <= 2 * SystemdTimeout + 2 * Grace /\ spent \in Nat
  BY <1>2 DEF ResultsInOrder, TimeSpent, TypeOK
<1>4. CallKept'
  BY <1>2, ReadyIsKept
<1>5. spent' <= 3 * SystemdTimeout + 3 * Grace
  BY <1>2, <1>3, Timeouts
<1>6. \E n \in Nat : DOMAIN said = 1 .. n
  <2>1. said = << >> \/ said = FirstOf(MaxOutput, printed)
    BY <1>2, Zenon DEF CallKept
  <2>2. printed \in Seq(Prints[c]) /\ MaxOutput \in Nat
    BY <1>1, <1>2, OutputAssumption DEF CallKept
  <2>3. FirstOf(MaxOutput, printed) \in Seq(Prints[c])
    BY <2>2, FirstIsSequence
  <2> HIDE DEF said
  <2> QED BY <2>1, <2>3
<1>7. nofile' = IF served
                THEN [nofile EXCEPT !.hard = hard, !.verified = soft.ok, !.infinite = soft.infinite,
                                    !.soft = soft.limit]
                ELSE nofile
  BY <1>2, Zenon DEF ReadSystemctl, ServiceLimits
<1>8. /\ soft \in Limits /\ hard \in Limits
      /\ soft.ok => /\ Property(said, "LimitNOFILESoft") # ""
                    /\ IF soft.infinite THEN Property(said, "LimitNOFILESoft") \in Infinite
                       ELSE /\ Property(said, "LimitNOFILESoft") \in DOMAIN Number
                            /\ soft.limit = Number[Property(said, "LimitNOFILESoft")]
  BY LimitCases, Zenon
<1>9. /\ Property(said, "LimitNOFILESoft") # "" =>
           \E i \in DOMAIN said : /\ said[i].key = "LimitNOFILESoft"
                                  /\ said[i].value = Property(said, "LimitNOFILESoft")
      /\ Property(said, "LoadState") # "" =>
           \E i \in DOMAIN said : /\ said[i].key = "LoadState"
                                  /\ said[i].value = Property(said, "LoadState")
                                  /\ \A j \in DOMAIN said : said[j].key = "LoadState" => j <= i
  <2> HIDE DEF said
  <2> QED BY <1>6, PropertyIsLast, Zenon
<1> HIDE DEF soft, hard, said, served
<1>10. /\ nofile' \in NofileInfo
       /\ nofile'.verified => served /\ soft.ok /\ nofile'.infinite = soft.infinite
                              /\ nofile'.soft = soft.limit
  <2>1. CASE served
    BY <1>7, <1>8, <2>1 DEF TypeOK, NofileInfo, Limits
  <2>2. CASE ~served
    BY <1>3, <1>7, <2>2 DEF TypeOK
  <2> QED BY <2>1, <2>2
<1>11. LimitIsWitnessed'
  <2> SUFFICES ASSUME nofile'.verified
               PROVE  /\ \E i \in DOMAIN said :
                           /\ said[i].key = "LimitNOFILESoft"
                           /\ IF nofile'.infinite THEN said[i].value \in Infinite
                              ELSE /\ said[i].value \in DOMAIN Number
                                   /\ nofile'.soft = Number[said[i].value]
                      /\ \E i \in DOMAIN said :
                           /\ said[i].key = "LoadState" /\ said[i].value = "loaded"
                           /\ \A j \in DOMAIN said : said[j].key = "LoadState" => j <= i
    BY Zenon DEF LimitIsWitnessed, said
  <2>1. served /\ soft.ok /\ nofile'.infinite = soft.infinite /\ nofile'.soft = soft.limit
    BY <1>10
  <2>2. Property(said, "LoadState") = "loaded" /\ "loaded" # ""
    BY <2>1 DEF served
  <2>3. PICK i \in DOMAIN said : /\ said[i].key = "LimitNOFILESoft"
                                 /\ said[i].value = Property(said, "LimitNOFILESoft")
    BY <1>8, <1>9, <2>1, Zenon
  <2>4. IF nofile'.infinite THEN said[i].value \in Infinite
        ELSE said[i].value \in DOMAIN Number /\ nofile'.soft = Number[said[i].value]
    BY <1>8, <2>1, <2>3, Zenon
  <2>5. PICK k \in DOMAIN said : /\ said[k].key = "LoadState" /\ said[k].value = "loaded"
                                 /\ \A j \in DOMAIN said : said[j].key = "LoadState" => j <= k
    BY <1>9, <2>2, Zenon
  <2> QED BY <2>3, <2>4, <2>5, Zenon
<1>12. TypeOK'
  BY <1>1, <1>2, <1>10 DEF TypeOK
<1>13. HeardSoFar'
  BY <1>1, <1>2, <1>11 DEF HeardSoFar, TimeIsWitnessed, VersionIsWitnessed
<1>14. NoAnswer' => ~nofile'.verified
  BY <1>1, <1>2, <1>10 DEF NoAnswer, served
<1>15. ResultsInOrder' /\ TimeSpent'
  BY <1>1, <1>3, <1>5, <1>14 DEF ResultsInOrder, TimeSpent
<1> QED BY <1>4, <1>12, <1>13, <1>15

\* xrpld answers with a version, with silence, or not at all.
LEMMA VersionKeepsIInv ==
  ASSUME IInv, ReadVersion
  PROVE  IInv'
<1> USE DEF IInv
<1> DEFINE c == "xrpld"
           said == Kept(c)'
<1>1. /\ c \in Commands /\ Answered(c) /\ time' = time /\ nofile' = nofile /\ pc' = "done"
      /\ binary' = IF answer # "ok" THEN "error" ELSE IF Blank(text) THEN "silent" ELSE "versioned"
  BY DEF ReadVersion, Commands
<1>2. /\ pc = c /\ answer \in {"ok", "error"}
      /\ said = (IF answer = "ok" THEN text ELSE << >>)
      /\ heard' = [d \in Commands |-> heard'[d]]
      /\ spent' \in Nat /\ spent' <= spent + Timeout(c) + Grace
      /\ status' = "ready" /\ printed' = << >> /\ elapsed' = 0 /\ answer' = "none"
  BY <1>1, AnswerIsHeard, Zenon
<1>3. time.state # "none" /\ spent <= 3 * SystemdTimeout + 3 * Grace /\ spent \in Nat
  BY <1>2 DEF ResultsInOrder, TimeSpent, TypeOK
<1>4. CallKept'
  BY <1>2, ReadyIsKept
<1>5. spent' <= 3 * SystemdTimeout + XrpldTimeout + 4 * Grace
  BY <1>2, <1>3, Timeouts
<1>6. binary' = "versioned" <=> ~Blank(said)
  BY <1>1, <1>2, SilenceIsNothing
<1>7. VersionIsWitnessed'
  BY <1>6 DEF VersionIsWitnessed
<1>8. TypeOK'
  BY <1>1, <1>2, <1>3 DEF TypeOK
<1>9. HeardSoFar'
  BY <1>1, <1>2, <1>7 DEF HeardSoFar, TimeIsWitnessed, LimitIsWitnessed
<1>10. ResultsInOrder' /\ TimeSpent'
  BY <1>1, <1>3, <1>5 DEF ResultsInOrder, TimeSpent
<1> QED BY <1>4, <1>8, <1>9, <1>10

\* The inductive invariant holds in every reachable state.
THEOREM Invariance == Spec => []IInv
<1>1. ASSUME IInv, [Next]_vars PROVE IInv'
  <2>1. CASE Starts \/ Output \/ Exits \/ Ticks \/ Returns
    BY <1>1, <2>1, CallMoves, CallKeepsIInv
  <2>2. CASE Probe
    BY <1>1, <2>2, TimedatectlKeepsIInv, ChronycKeepsIInv, BeginningKeepsIInv, SystemctlKeepsIInv,
       VersionKeepsIInv DEF Probe
  <2>3. CASE UNCHANGED vars
    <3>1. UNCHANGED <<pc, time, nofile, binary, status, exited, printed, elapsed, answer, text, spent, heard>>
      BY <2>3 DEF vars, results, call
    <3>2. CallKept'
      BY <1>1, <3>1 DEF IInv, CallKept
    <3>3. answer' \in {"none", "ok", "error"}
      BY <1>1, <3>1 DEF IInv, TypeOK
    <3> QED BY <1>1, <3>1, <3>2, <3>3, CallKeepsIInv
  <2> QED BY <1>1, <2>1, <2>2, <2>3 DEF Next
<1> QED BY <1>1, InitIInv, PTL DEF Spec

-----------------------------------------------------------------------------
(* What follows from it                                                    *)

\* Each variable holds a value the code can give it.
THEOREM TypeCorrect == Spec => []TypeOK
<1>1. IInv => TypeOK
  BY DEF IInv
<1> QED BY <1>1, Invariance, PTL

\* TimeSync, Nofile and XRPLDVersion decide by what the command they name printed.
THEOREM VerdictsHaveWitnesses == Spec => []VerdictIsWitnessed
<1>1. IInv => VerdictIsWitnessed
  BY DEF IInv, HeardSoFar, VerdictIsWitnessed
<1> QED BY <1>1, Invariance, PTL

\* A probe none of whose commands answered ends in a warning at every level.
THEOREM SilenceIsAWarning == Spec => []NoAnswerIsAWarning
<1>1. ASSUME IInv, NoAnswer, NEW level \in Levels
      PROVE  /\ pc = "rlimit" => TimeCheck(time.state, level) = "warn"
             /\ pc = "lookpath" => NofileCheck(nofile, level) = "warn"
             /\ pc = "done" => BinaryCheck(binary) = "warn"
  <2>1. pc = "rlimit" => TimeCheck(time.state, level) = "warn"
    <3>1. pc = "rlimit" => time.state = "unknown"
      BY <1>1 DEF IInv, ResultsInOrder
    <3>2. TimeCheck("unknown", level) = "warn"
      BY Zenon DEF TimeCheck
    <3> QED BY <3>1, <3>2, Zenon
  <2>2. pc = "lookpath" => NofileCheck(nofile, level) = "warn"
    <3>1. pc = "lookpath" => ~nofile.verified
      BY <1>1 DEF IInv, ResultsInOrder
    <3>2. ~nofile.verified => NofileCheck(nofile, level) = "warn"
      BY Zenon DEF NofileCheck
    <3> QED BY <3>1, <3>2, Zenon
  <2>3. pc = "done" => BinaryCheck(binary) = "warn"
    <3>1. Blank(Kept("xrpld"))
      BY <1>1, SilenceIsNothing, Zenon DEF NoAnswer, Kept, Commands
    <3>2. pc = "done" => binary # "versioned"
      BY <1>1, <3>1 DEF IInv, HeardSoFar, VersionIsWitnessed
    <3> QED BY <3>2 DEF BinaryCheck
  <2> QED BY <2>1, <2>2, <2>3
<1>2. IInv => NoAnswerIsAWarning
  BY <1>1 DEF NoAnswerIsAWarning
<1> QED BY <1>2, Invariance, PTL

\* The three probes together take no more than their four commands may.
THEOREM ProbesAreBounded == Spec => []RunIsBounded
<1>1. ASSUME IInv PROVE RunIsBounded
  <2>1. /\ elapsed \in Nat /\ spent \in Nat
        /\ pc \notin Commands => elapsed = 0
        /\ pc \in Commands => elapsed <= Timeout(pc) + Grace
    BY <1>1 DEF IInv, CallKept, TypeOK
  <2>2. pc \in {"timedatectl", "chronyc", "systemctl", "xrpld", "rlimit", "lookpath", "done"}
    BY <1>1 DEF IInv, TypeOK, Commands
  <2>3. CASE pc \in {"timedatectl", "chronyc", "systemctl"}
    <3>1. elapsed <= SystemdTimeout + Grace
      BY <2>1, <2>3, Timeouts DEF Commands
    <3>2. spent <= 2 * SystemdTimeout + 2 * Grace
      BY <1>1, <2>1, <2>3, Timeouts DEF IInv, TimeSpent
    <3> QED BY <2>1, <3>1, <3>2, Timeouts DEF RunIsBounded
  <2>4. CASE pc = "xrpld"
    BY <1>1, <2>1, <2>4, Timeouts DEF IInv, TimeSpent, RunIsBounded, Commands
  <2>5. CASE pc \in {"rlimit", "lookpath", "done"}
    BY <1>1, <2>1, <2>5, Timeouts DEF IInv, TimeSpent, RunIsBounded, Commands
  <2> QED BY <2>2, <2>3, <2>4, <2>5
<1> QED BY <1>1, Invariance, PTL

=============================================================================
