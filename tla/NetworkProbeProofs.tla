------------------------- MODULE NetworkProbeProofs -------------------------
(***************************************************************************)
(* Theorems about NetworkProbe, for every route table of any length, every *)
(* set of interfaces and any number of changes of the one that is          *)
(* inspected.  The argument: after each line the scan holds the first of   *)
(* the lowest usable routes read so far (BestSoFar), the interface that is *)
(* inspected is the one that scan or the operator chose (NameKept), and    *)
(* each thing known of it is something it has been (Witnessed).            *)
(***************************************************************************)
EXTENDS NetworkProbe, SequenceTheorems, TLAPS

-----------------------------------------------------------------------------
(* The inductive invariant                                                 *)

\* i is the usable line with the lowest metric, the first of several.
Lowest(i) ==
  \A j \in Candidates :
    read[i].metric < read[j].metric \/ (read[i].metric = read[j].metric /\ i <= j)

\* What the scan keeps of the lines it has read.
BestSoFar ==
  /\ pc = "table" => read = << >>
  /\ best = Empty <=> Candidates = {}
  /\ best # Empty => \E i \in Candidates :
                    best = read[i].iface /\ bestMetric = read[i].metric /\ Lowest(i)

\* The interface named by the operator stays, otherwise it is that of the scan.
NameKept ==
  /\ pc \in {"table", "scan"} => name = option
  /\ option # Empty => name = option /\ pc # "scan"
  /\ Detected => name = best
  /\ pc \in {"lookup", "operstate", "speed"} => name # Empty

\* Nothing is known of the interface that it has not been.
Witnessed ==
  /\ info.ok => \E l \in was : l.present
  /\ pc \in {"table", "scan", "lookup"} => ~info.ok
  /\ pc \in {"operstate", "speed"} => info.ok
  /\ info.state # Empty => \E l \in was : l.present /\ l.state = info.state
  /\ info.speed # 0 => \E l \in was : l.present /\ l.speed = info.speed
  /\ pc \in {"judge", "done"} /\ name # Empty /\ ~info.ok => \E l \in was : ~l.present

\* The verdict is networkCheck's.
JudgedOnce ==
  /\ pc # "done" => verdict = "none"
  /\ pc = "done" => verdict = NetworkCheck(option # Empty, name # Empty, info, level)

IInv == TypeOK /\ BestSoFar /\ NameKept /\ Witnessed /\ JudgedOnce


-----------------------------------------------------------------------------
(* What the check answers                                                  *)

\* networkCheck: no interface, one that is not there, or its two halves.
LEMMA NetworkCases ==
  \A explicit, found, i, lev :
    NetworkCheck(explicit, found, i, lev) =
      IF ~found THEN "warn"
      ELSE IF ~i.ok THEN (IF explicit THEN "fail" ELSE "warn")
      ELSE Worst(LinkStateVerdict(i.state), LinkSpeedVerdict(i.speed, lev))
BY Zenon DEF NetworkCheck

\* The states and the speeds that fail, and the speed that passes.
Down(state) == state \in {"down", "dormant", "lowerlayerdown", "notpresent"}
Slow(speed) == speed \in 1 .. 999
Fast(speed) == speed >= 1000

\* The two halves pass, warn or fail, and on which states and speeds.
LEMMA LinkCases ==
  /\ \A state : /\ LinkStateVerdict(state) \in {"pass", "warn", "fail"}
                /\ LinkStateVerdict(state) = "pass" => state = "up"
                /\ LinkStateVerdict(state) = "fail" => Down(state)
  /\ \A speed \in Nat, lev \in {"production", "minimum"} :
       /\ LinkSpeedVerdict(speed, lev) \in {"pass", "warn", "fail"}
       /\ LinkSpeedVerdict(speed, lev) = "pass" => Fast(speed)
       /\ LinkSpeedVerdict(speed, lev) = "fail" => lev = "production" /\ Slow(speed)
<1>1. \A state : /\ LinkStateVerdict(state) \in {"pass", "warn", "fail"}
                 /\ LinkStateVerdict(state) = "pass" => state = "up"
                 /\ LinkStateVerdict(state) = "fail" => Down(state)
  BY Zenon DEF LinkStateVerdict, Down
<1>2. ASSUME NEW speed \in Nat, NEW lev \in {"production", "minimum"}
      PROVE  /\ LinkSpeedVerdict(speed, lev) \in {"pass", "warn", "fail"}
             /\ LinkSpeedVerdict(speed, lev) = "pass" => Fast(speed)
             /\ LinkSpeedVerdict(speed, lev) = "fail" => lev = "production" /\ Slow(speed)
  BY DEF LinkSpeedVerdict, Tolerated, Slow, Fast
<1> QED BY <1>1, <1>2

\* The worse of two answers.
LEMMA WorstCases ==
  ASSUME NEW a \in {"pass", "warn", "fail"}, NEW b \in {"pass", "warn", "fail"}
  PROVE  /\ Worst(a, b) \in {"pass", "warn", "fail"}
         /\ Worst(a, b) = "fail" => a = "fail" \/ b = "fail"
         /\ Worst(a, b) = "pass" => a = "pass" /\ b = "pass"
BY DEF Worst, Rank

\* Both together, for the interface the run knows.
LEMMA KnownLink ==
  ASSUME TypeOK
  PROVE  LET answer == Worst(LinkStateVerdict(info.state), LinkSpeedVerdict(info.speed, level))
         IN  /\ answer \in {"pass", "warn", "fail"}
             /\ answer = "fail" => Down(info.state) \/ (level = "production" /\ Slow(info.speed))
             /\ answer = "pass" => info.state = "up" /\ Fast(info.speed)
<1> DEFINE a == LinkStateVerdict(info.state)
           b == LinkSpeedVerdict(info.speed, level)
<1>1. info.speed \in Nat /\ level \in {"production", "minimum"}
  BY DEF TypeOK
<1>2. /\ a \in {"pass", "warn", "fail"} /\ (a = "pass" => info.state = "up")
      /\ a = "fail" => Down(info.state)
  BY LinkCases, Zenon
<1>3. /\ b \in {"pass", "warn", "fail"} /\ (b = "pass" => Fast(info.speed))
      /\ b = "fail" => level = "production" /\ Slow(info.speed)
  BY <1>1, LinkCases, Zenon
<1> HIDE DEF a, b
<1>4. /\ Worst(a, b) \in {"pass", "warn", "fail"}
      /\ Worst(a, b) = "fail" => a = "fail" \/ b = "fail"
      /\ Worst(a, b) = "pass" => a = "pass" /\ b = "pass"
  BY <1>2, <1>3, WorstCases
<1>5. /\ Worst(a, b) \in {"pass", "warn", "fail"}
      /\ Worst(a, b) = "fail" => Down(info.state) \/ (level = "production" /\ Slow(info.speed))
      /\ Worst(a, b) = "pass" => info.state = "up" /\ Fast(info.speed)
  BY <1>2, <1>3, <1>4, Zenon
<1> QED BY <1>5, Zenon DEF a, b

-----------------------------------------------------------------------------
(* The scan                                                                *)

\* One more line is one more candidate, if it is usable.
LEMMA CandidatesAfter ==
  ASSUME TypeOK, NEW line \in Lines, read' = Append(read, line)
  PROVE  /\ DOMAIN read = 1 .. Len(read) /\ Len(read) \in Nat
         /\ \A i \in DOMAIN read : read'[i] = read[i]
         /\ read'[Len(read) + 1] = line
         /\ Candidates' = Candidates \cup (IF Usable(line) THEN {Len(read) + 1} ELSE {})
<1>1. read \in Seq(Lines)
  BY DEF TypeOK
<1>2. DOMAIN read = 1 .. Len(read) /\ Len(read) \in Nat
  BY <1>1
<1>3. /\ DOMAIN read' = 1 .. Len(read) + 1
      /\ \A i \in 1 .. Len(read) : read'[i] = read[i]
      /\ read'[Len(read) + 1] = line
  <2>1. /\ Append(read, line) \in Seq(Lines) /\ Len(Append(read, line)) = Len(read) + 1
        /\ \A i \in 1 .. Len(read) : Append(read, line)[i] = read[i]
        /\ Append(read, line)[Len(read) + 1] = line
    BY <1>1, AppendProperties
  <2>2. DOMAIN Append(read, line) = 1 .. Len(Append(read, line))
    BY <2>1, LenProperties, Zenon
  <2> QED BY <2>1, <2>2, Zenon
<1>4. Candidates' = {i \in DOMAIN read' : Usable(read'[i])}
  BY DEF Candidates, Usable
<1> HIDE DEF Usable
<1> QED BY <1>2, <1>3, <1>4 DEF Candidates

\* A candidate's metric is a number.
LEMMA MetricsAreNumbers ==
  ASSUME TypeOK
  PROVE  /\ \A i \in Candidates : read[i].metric \in Int /\ i \in Nat /\ read[i].iface \in Interfaces
         /\ \A line \in Lines : Usable(line) => line.metric \in Int
<1>1. \A line \in Lines : Usable(line) => line.metric \in Int
  BY LineAssumption DEF Usable
<1>2. \A i \in DOMAIN read : read[i] \in Lines /\ i \in Nat
  BY DEF TypeOK
<1> QED BY <1>1, <1>2, LineAssumption DEF Candidates

-----------------------------------------------------------------------------
(* The invariant is inductive                                              *)

\* The invariant holds when the check starts.
LEMMA InitIInv == Init => IInv
<1> SUFFICES ASSUME Init PROVE IInv
  OBVIOUS
<1> USE DEF Init
<1>1. TypeOK
  <2>1. read \in Seq(Lines)
    BY EmptySeq, Zenon
  <2> QED BY <2>1 DEF TypeOK, States
<1>2. Candidates = {}
  BY DEF Candidates
<1>3. BestSoFar /\ NameKept /\ Witnessed /\ JudgedOnce
  BY <1>2 DEF BestSoFar, NameKept, Witnessed, JudgedOnce, Detected
<1> QED BY <1>1, <1>3 DEF IInv

\* Each step keeps the types.
LEMMA NextTypeOK ==
  ASSUME IInv, [Next]_vars
  PROVE  TypeOK'
<1> USE DEF IInv
<1>0. link \in Links => link.state \in States
  BY DEF States
<1>1. CASE \E line \in Lines : Ignore(line) \/ Take(line)
  <2>1. PICK line \in Lines : Ignore(line) \/ Take(line)
    BY <1>1
  <2>2. read' \in Seq(Lines)
    BY <2>1 DEF Ignore, Take, Scan, TypeOK
  <2>3. line.iface \in Interfaces /\ (Usable(line) => line.metric \in Int)
    BY LineAssumption, MetricsAreNumbers
  <2> QED BY <2>1, <2>2, <2>3 DEF Ignore, Take, Scan, TypeOK, worldVars
<1>2. CASE LookUp
  <2>1. link \in Links
    BY DEF TypeOK
  <2>2. info' \in [ok : BOOLEAN, speed : Nat, state : States]
    <3> DEFINE S == [ok : BOOLEAN, speed : Nat, state : States]
    <3>1. \A o \in BOOLEAN, sp \in Nat, st \in States : [ok |-> o, speed |-> sp, state |-> st] \in S
      OBVIOUS
    <3>2. link.present \in BOOLEAN /\ info.speed \in Nat /\ info.state \in States
      BY <2>1, LinkAssumption DEF TypeOK
    <3>3. info' = [ok |-> link.present, speed |-> info.speed, state |-> info.state]
      BY <1>2 DEF LookUp, TypeOK
    <3> HIDE DEF S
    <3>4. info' \in S
      BY <3>1, <3>2, <3>3, Zenon
    <3> QED BY <3>4 DEF S
  <2>3. info'.ok = link.present /\ info'.state = Empty /\ info'.speed = 0
    BY <1>2 DEF LookUp, TypeOK, Witnessed
  <2> QED BY <1>2, <2>2, <2>3 DEF LookUp, TypeOK, scanVars, worldVars, NameKept
<1>3. CASE ReadOperState \/ ReadSpeed
  <2>1. link \in Links
    BY DEF TypeOK
  <2>2. info' \in [ok : BOOLEAN, speed : Nat, state : States]
    BY <1>0, <1>3, <2>1, LinkAssumption DEF ReadOperState, ReadSpeed, TypeOK
  <2>3. info.ok /\ info'.ok = info.ok
    BY <1>3 DEF ReadOperState, ReadSpeed, TypeOK, Witnessed
  <2> QED BY <1>3, <2>2, <2>3 DEF ReadOperState, ReadSpeed, TypeOK, scanVars, worldVars
<1>4. CASE Judge
  <2>1. NetworkCheck(option # Empty, name # Empty, info, level) \in {"warn", "fail"}
          \/ NetworkCheck(option # Empty, name # Empty, info, level)
               = Worst(LinkStateVerdict(info.state), LinkSpeedVerdict(info.speed, level))
    BY NetworkCases, Zenon
  <2> QED BY <1>4, <2>1, KnownLink DEF Judge, TypeOK, scanVars, worldVars
<1>5. CASE LinkChanges
  BY <1>5 DEF LinkChanges, TypeOK, scanVars
<1>6. CASE ReadTable \/ ReadTableFails \/ EndOfTable \/ UNCHANGED vars
  BY <1>6 DEF ReadTable, ReadTableFails, EndOfTable, TypeOK, vars, scanVars, worldVars
<1> QED BY <1>1, <1>2, <1>3, <1>4, <1>5, <1>6 DEF Next

\* Each line leaves the first of the lowest routes, and no other step scans.
LEMMA NextBestSoFar ==
  ASSUME IInv, [Next]_vars
  PROVE  BestSoFar'
<1> USE DEF IInv
<1>1. ASSUME NEW line \in Lines, Take(line) PROVE BestSoFar'
  <2>1. read' = Append(read, line) /\ Usable(line) /\ Better(line) /\ pc' = "scan"
        /\ best' = line.iface /\ bestMetric' = line.metric
    BY <1>1 DEF Take, Scan
  <2>n. PICK n \in Nat : n = Len(read) + 1
    BY DEF TypeOK
  <2>2. /\ Candidates' = Candidates \cup {n} /\ n \in Nat
        /\ read'[n] = line /\ \A i \in Candidates : read'[i] = read[i] /\ i < n
    BY <2>1, <2>n, CandidatesAfter DEF Candidates
  <2>3. line.iface # Empty /\ line.metric \in Int
    BY <2>1, LineAssumption, NameAssumption, MetricsAreNumbers
  <2>4. \A j \in Candidates : line.metric < read[j].metric
    <3> SUFFICES ASSUME NEW j \in Candidates PROVE line.metric < read[j].metric
      OBVIOUS
    <3>1. best # Empty
      BY DEF BestSoFar
    <3>2. line.metric < bestMetric
      BY <2>1, <3>1, Zenon DEF Better
    <3>3. PICK i \in Candidates : bestMetric = read[i].metric /\ Lowest(i)
      BY <3>1, Zenon DEF BestSoFar
    <3>4. read[i].metric < read[j].metric \/ read[i].metric = read[j].metric
      BY <3>3, Zenon DEF Lowest
    <3>5. read[i].metric \in Int /\ read[j].metric \in Int
      BY MetricsAreNumbers, Zenon
    <3> QED BY <2>3, <3>2, <3>3, <3>4, <3>5
  <2>5. Lowest(n)'
    <3> SUFFICES ASSUME NEW j \in Candidates'
                 PROVE  \/ read'[n].metric < read'[j].metric
                        \/ read'[n].metric = read'[j].metric /\ n <= j
      BY DEF Lowest
    <3>1. CASE j = n
      BY <2>2, <3>1
    <3>2. CASE j \in Candidates
      BY <2>2, <2>4, <3>2
    <3> QED BY <2>2, <3>1, <3>2, Zenon
  <2>6. /\ best' # Empty /\ pc' # "table" /\ n \in Candidates'
        /\ best' = read'[n].iface /\ bestMetric' = read'[n].metric
    <3>1. /\ best' # Empty /\ pc' # "table"
      BY <2>1, <2>3
    <3> QED BY <2>1, <2>2, <3>1, Zenon
  <2> QED BY <2>5, <2>6, Zenon DEF BestSoFar
<1>2. ASSUME NEW line \in Lines, Ignore(line) PROVE BestSoFar'
  <2>1. /\ read' = Append(read, line) /\ ~(Usable(line) /\ Better(line)) /\ pc' = "scan"
        /\ best' = best /\ bestMetric' = bestMetric
    BY <1>2 DEF Ignore, Scan
  <2>n. PICK n \in Nat : n = Len(read) + 1
    BY DEF TypeOK
  <2>2. /\ Candidates' = Candidates \cup (IF Usable(line) THEN {n} ELSE {}) /\ n \in Nat
        /\ read'[n] = line /\ \A i \in Candidates : read'[i] = read[i] /\ i < n
    BY <2>1, <2>n, CandidatesAfter DEF Candidates
  <2>3. CASE best = Empty
    BY <2>1, <2>2, <2>3 DEF BestSoFar, Better
  <2>4. CASE best # Empty
    <3>1. PICK i \in Candidates : best = read[i].iface /\ bestMetric = read[i].metric /\ Lowest(i)
      BY <2>4 DEF BestSoFar
    <3>2. Usable(line) => read[i].metric <= line.metric
      BY <2>1, <2>4, <3>1, MetricsAreNumbers DEF Better
    <3>3. Lowest(i)'
      BY <2>2, <3>1, <3>2, MetricsAreNumbers DEF Lowest
    <3> QED BY <2>1, <2>2, <2>4, <3>1, <3>3 DEF BestSoFar
  <2> QED BY <2>3, <2>4
<1>3. CASE UNCHANGED <<read, best, bestMetric>> /\ (pc' = "table" => pc = "table")
  BY <1>3 DEF BestSoFar, Candidates, Lowest
<1>4. CASE \/ ReadTable \/ ReadTableFails \/ EndOfTable \/ LookUp \/ ReadOperState \/ ReadSpeed
           \/ Judge \/ LinkChanges \/ UNCHANGED vars
  BY <1>3, <1>4 DEF ReadTable, ReadTableFails, EndOfTable, LookUp, ReadOperState, ReadSpeed, Judge,
     LinkChanges, vars, scanVars
<1> QED BY <1>1, <1>2, <1>4 DEF Next

\* The name is given by the operator or by the end of the scan.
LEMMA NextNameKept ==
  ASSUME IInv, [Next]_vars
  PROVE  NameKept'
<1>1. CASE \E line \in Lines : Ignore(line) \/ Take(line)
  BY <1>1 DEF Ignore, Take, Scan, IInv, NameKept, Detected
<1>2. CASE ~\E line \in Lines : Ignore(line) \/ Take(line)
  <2>1. pc = "table" => best = Empty
    BY DEF IInv, BestSoFar, Candidates
  <2> QED
    BY <1>2, <2>1 DEF Next, ReadTable, ReadTableFails, EndOfTable, LookUp, ReadOperState, ReadSpeed, Judge,
       LinkChanges, vars, scanVars, IInv, NameKept, Detected, TypeOK
<1> QED BY <1>1, <1>2

\* What is read is what there is, and what there was is not forgotten.
LEMMA NextWitnessed ==
  ASSUME IInv, [Next]_vars
  PROVE  Witnessed'
<1> USE DEF IInv
<1>1. link \in was /\ link \in Links
  BY DEF TypeOK
<1>2. info \in [ok : BOOLEAN, speed : Nat, state : States]
  BY DEF TypeOK
<1>3. CASE LookUp
  <2>1. /\ info'.ok = link.present /\ info'.state = info.state /\ info'.speed = info.speed
        /\ was' = was /\ pc' = (IF link.present THEN "operstate" ELSE "judge")
    BY <1>2, <1>3 DEF LookUp, worldVars
  <2>2. link.present \in BOOLEAN
    BY <1>1, LinkAssumption
  <2> QED BY <1>1, <2>1, <2>2 DEF Witnessed
<1>4. CASE ReadOperState
  <2>1. /\ info'.ok = info.ok /\ info'.speed = info.speed /\ was' = was /\ pc' = "speed" /\ info.ok
        /\ info'.state = info.state \/ (link.present /\ info'.state = link.state)
    BY <1>2, <1>4 DEF ReadOperState, worldVars, Witnessed
  <2> QED BY <1>1, <2>1 DEF Witnessed
<1>5. CASE ReadSpeed
  <2>1. /\ info'.ok = info.ok /\ info'.state = info.state /\ was' = was /\ pc' = "judge" /\ info.ok
        /\ info'.speed = info.speed \/ (link.present /\ info'.speed = link.speed)
    BY <1>2, <1>5 DEF ReadSpeed, worldVars, Witnessed
  <2> QED BY <1>1, <2>1 DEF Witnessed
<1>6. CASE LinkChanges
  <2>1. was \subseteq was' /\ UNCHANGED <<pc, info, name>>
    BY <1>6 DEF LinkChanges
  <2> QED BY <2>1 DEF Witnessed
<1>7. CASE \/ ReadTable \/ ReadTableFails \/ EndOfTable \/ Judge \/ UNCHANGED vars
           \/ \E line \in Lines : Ignore(line) \/ Take(line)
  <2>1. UNCHANGED <<info, was>>
    BY <1>7 DEF ReadTable, ReadTableFails, EndOfTable, Judge, Ignore, Take, Scan, vars, worldVars
  <2>2. /\ pc' \in {"operstate", "speed"} => pc' = pc
        /\ pc' \in {"table", "scan", "lookup"} => pc \in {"table", "scan", "lookup"}
        /\ pc' \in {"judge", "done"} => name' = Empty \/ (name' = name /\ pc \in {"judge", "done"})
    BY <1>7 DEF ReadTable, ReadTableFails, EndOfTable, Judge, Ignore, Take, Scan, vars, NameKept
  <2> QED BY <2>1, <2>2 DEF Witnessed
<1> QED BY <1>3, <1>4, <1>5, <1>6, <1>7 DEF Next

\* Only the last step judges, and nothing changes after it.
LEMMA NextJudgedOnce ==
  ASSUME IInv, [Next]_vars
  PROVE  JudgedOnce'
<1>1. CASE Judge
  BY <1>1 DEF Judge, JudgedOnce, scanVars
<1>2. CASE \E line \in Lines : Ignore(line) \/ Take(line)
  BY <1>2 DEF Ignore, Take, Scan, IInv, JudgedOnce
<1>3. CASE \/ ReadTable \/ ReadTableFails \/ EndOfTable \/ LookUp \/ ReadOperState \/ ReadSpeed
           \/ LinkChanges \/ UNCHANGED vars
  BY <1>3 DEF ReadTable, ReadTableFails, EndOfTable, LookUp, ReadOperState, ReadSpeed, LinkChanges, vars,
     IInv, JudgedOnce
<1> QED BY <1>1, <1>2, <1>3 DEF Next

\* The inductive invariant holds in every reachable state.
THEOREM Invariance == Spec => []IInv
<1>1. IInv /\ [Next]_vars => IInv'
  BY NextTypeOK, NextBestSoFar, NextNameKept, NextWitnessed, NextJudgedOnce DEF IInv
<1> QED BY <1>1, InitIInv, PTL DEF Spec

-----------------------------------------------------------------------------
(* What follows from it                                                    *)

\* Each variable holds a value the code can give it.
THEOREM TypeCorrect == Spec => []TypeOK
<1>1. IInv => TypeOK
  BY DEF IInv
<1> QED BY <1>1, Invariance, PTL

\* parseDefaultRoute finds the first of the lowest usable routes of any table.
THEOREM FindsTheLowestMetric == Spec => []LowestMetric
<1>1. ASSUME IInv PROVE LowestMetric
  <2> SUFFICES ASSUME Detected PROVE LowestMetric!2
    BY DEF LowestMetric
  <2>1. name = best
    BY <1>1 DEF IInv, NameKept
  <2> QED BY <1>1, <2>1 DEF IInv, BestSoFar, Lowest
<1> QED BY <1>1, Invariance, PTL

\* No verdict says of the interface what it has not been.
THEOREM VerdictsHaveWitnesses == Spec => []LinkIsWitnessed
<1>1. ASSUME IInv PROVE LinkIsWitnessed
  <2> USE <1>1 DEF IInv
  <2> DEFINE both == Worst(LinkStateVerdict(info.state), LinkSpeedVerdict(info.speed, level))
  <2>1. verdict # "none" => pc = "done" /\ verdict = NetworkCheck(option # Empty, name # Empty, info, level)
    BY Zenon DEF JudgedOnce
  <2>2. /\ both = "fail" => Down(info.state) \/ (level = "production" /\ Slow(info.speed))
        /\ both = "pass" => info.state = "up" /\ Fast(info.speed)
    BY KnownLink, Zenon
  <2>3. NetworkCheck(option # Empty, name # Empty, info, level) =
          IF ~(name # Empty) THEN "warn"
          ELSE IF ~info.ok THEN (IF option # Empty THEN "fail" ELSE "warn")
          ELSE both
    BY NetworkCases, Zenon
  <2> HIDE DEF both
  <2>4. /\ verdict = "fail" =>
             name # Empty /\ ((option # Empty /\ ~info.ok) \/ (info.ok /\ both = "fail"))
        /\ verdict = "pass" => info.ok /\ both = "pass"
    <3>1. verdict = "fail" \/ verdict = "pass" => verdict # "none"
      OBVIOUS
    <3>2. verdict = "pass" => verdict # "warn" /\ verdict # "fail"
      OBVIOUS
    <3>3. verdict = "fail" => verdict # "warn"
      OBVIOUS
    <3> QED BY <2>1, <2>3, <3>1, <3>2, <3>3, Zenon
  <2>5. info.speed \in Nat /\ ~Down(Empty) /\ Empty # "up" /\ ~Slow(0) /\ ~Fast(0)
    <3>1. ~Down("") /\ "" # "up" /\ ~Slow(0) /\ ~Fast(0)
      BY DEF Down, Slow, Fast
    <3>2. info.speed \in Nat
      BY DEF TypeOK
    <3> QED BY <3>1, <3>2, Zenon DEF Empty
  <2>6. /\ Down(info.state) => \E l \in was : l.present /\ IsDown(l)
        /\ info.state = "up" => \E l \in was : l.present /\ l.state = "up"
    BY <2>5, Zenon DEF Witnessed, Down, IsDown
  <2>7. /\ Slow(info.speed) => \E l \in was : l.present /\ l.speed \in 1 .. 999
        /\ Fast(info.speed) => \E l \in was : l.present /\ l.speed >= 1000
    <3>1. /\ Slow(info.speed) => \E l \in was : l.present /\ Slow(l.speed)
          /\ Fast(info.speed) => \E l \in was : l.present /\ Fast(l.speed)
      BY <2>5, Zenon DEF Witnessed
    <3> QED BY <3>1 DEF Slow, Fast
  <2>8. ASSUME verdict = "fail" PROVE LinkIsWitnessed!1!2
    <3>1. CASE option # Empty /\ ~info.ok
      <4>1. pc \in {"judge", "done"}
        BY <2>1, <2>8
      <4> QED BY <2>4, <2>8, <3>1, <4>1, Zenon DEF Witnessed
    <3>2. CASE both = "fail"
      <4>1. name # Empty /\ (Down(info.state) \/ (level = "production" /\ Slow(info.speed)))
        BY <2>2, <2>4, <2>8, <3>2, Zenon
      <4>2. CASE Down(info.state)
        <5>1. PICK l \in was : l.present /\ IsDown(l)
          BY <2>6, <4>2, Zenon
        <5> QED BY <4>1, <5>1
      <4>3. CASE level = "production" /\ Slow(info.speed)
        <5>1. PICK l \in was : l.present /\ l.speed \in 1 .. 999
          BY <2>7, <4>3
        <5> QED BY <4>1, <4>3, <5>1
      <4> QED BY <4>1, <4>2, <4>3, Zenon
    <3> QED BY <2>4, <2>8, <3>1, <3>2, Zenon
  <2>9. ASSUME verdict = "pass" PROVE LinkIsWitnessed!2!2
    BY <2>2, <2>4, <2>6, <2>7, <2>9
  <2> QED BY <2>8, <2>9 DEF LinkIsWitnessed
<1> QED BY <1>1, Invariance, PTL

=============================================================================
