---------------------------- MODULE NetworkProbe ----------------------------
(***************************************************************************)
(* The network.interface check with the probes it calls: DefaultInterface  *)
(* and parseDefaultRoute (internal/probe/route.go) choose an interface     *)
(* unless the operator named one, NetworkInterface (linux.go) looks it up  *)
(* and reads two of its files, networkCheck judges the result.  The route  *)
(* table is read at once and then scanned line by line; every table of at  *)
(* most MaxLines lines is a behaviour.  The interface is not frozen: it    *)
(* goes up and down, appears and vanishes between the lookup and the       *)
(* reads.  Nothing reads it before the lookup, so it changes after the     *)
(* scan only.                                                              *)
(*                                                                         *)
(* A line is [fields, iface, dest, mask, flags, metric]: "zero" is the     *)
(* destination or mask of eight zeros, flags are "up", "down" or "bad",    *)
(* and NoMetric is a metric that is no number.                             *)
(***************************************************************************)
EXTENDS Verdicts

\* No name, and nothing known.
Empty == ""

CONSTANTS Interfaces,  \* the names
          Lines,       \* the lines of a route table
          MaxLines,    \* bound: how many lines follow the header
          NoMetric,
          Links,       \* what an interface may be: [present, state, speed]
          Changes      \* bound: how often an interface changes

ASSUME BoundAssumption == {MaxLines, Changes} \subseteq Nat
ASSUME NameAssumption == Empty \notin Interfaces
ASSUME LineAssumption ==
  \A line \in Lines : /\ line.iface \in Interfaces /\ line.fields \in Nat
                      /\ line.metric \in Int \/ line.metric = NoMetric
ASSUME LinkAssumption == \A l \in Links : l.present \in BOOLEAN /\ l.speed \in Int

VARIABLES pc,          \* table, scan, lookup, operstate, speed, judge or done
          option,      \* --interface, "" when not given
          level,       \* --level
          read,        \* history: the lines scanned
          best,        \* the interface of the best route so far, or ""
          bestMetric,  \* and its metric
          name,        \* the interface that is inspected, or ""
          info,        \* what NetworkInterface has found out
          verdict,     \* the status of the check, or "none"
          link,        \* what has the name of the inspected interface now
          changed,     \* how often that has changed
          was          \* history: everything it has been

scanVars == <<read, best, bestMetric>>
worldVars == <<link, changed, was>>
vars == <<pc, option, level, scanVars, name, info, verdict, worldVars>>

Init ==
  /\ pc = "table" /\ read = << >> /\ best = Empty /\ bestMetric = 0
  /\ option \in Interfaces \cup {Empty} /\ level \in {"production", "minimum"}
  /\ name = option /\ info = [ok |-> FALSE, state |-> Empty, speed |-> 0] /\ verdict = "none"
  /\ link \in Links /\ changed = 0 /\ was = {link}

-----------------------------------------------------------------------------
(* DefaultInterface                                                        *)

\* An interface that was named is used as given; otherwise the table is read,
\* and its header skipped.
ReadTable ==
  /\ pc = "table"
  /\ pc' = IF option # Empty THEN "lookup" ELSE "scan"
  /\ UNCHANGED <<option, level, scanVars, name, info, verdict, worldVars>>

ReadTableFails ==
  /\ pc = "table" /\ option = Empty
  /\ pc' = "judge"
  /\ UNCHANGED <<option, level, scanVars, name, info, verdict, worldVars>>

\* What parseDefaultRoute accepts: the mask is not among it.
Usable(line) ==
  line.fields >= 7 /\ line.dest = "zero" /\ line.flags = "up" /\ line.metric # NoMetric

Scan(line) ==
  /\ pc = "scan" /\ Len(read) < MaxLines
  /\ read' = Append(read, line)
  /\ UNCHANGED <<pc, option, level, name, info, verdict, worldVars>>

Better(line) == best = Empty \/ line.metric < bestMetric

Ignore(line) ==
  /\ Scan(line)
  /\ ~(Usable(line) /\ Better(line))
  /\ UNCHANGED <<best, bestMetric>>

\* Seeded fault: the metric of the best route is not kept.
BrokenTake(line) ==
  /\ Scan(line) /\ Usable(line) /\ Better(line)
  /\ best' = line.iface /\ UNCHANGED bestMetric

Take(line) ==
  /\ Scan(line) /\ Usable(line) /\ Better(line)
  /\ best' = line.iface /\ bestMetric' = line.metric

EndOfTable ==
  /\ pc = "scan"
  /\ pc' = IF best = Empty THEN "judge" ELSE "lookup"
  /\ name' = best
  /\ UNCHANGED <<option, level, scanVars, info, verdict, worldVars>>

-----------------------------------------------------------------------------
(* NetworkInterface                                                        *)

\* Seeded fault: without an entry in the kernel's list the check goes on.
BrokenLookUp ==
  /\ pc = "lookup"
  /\ pc' = "operstate" /\ info' = [info EXCEPT !.ok = link.present]
  /\ UNCHANGED <<option, level, scanVars, name, verdict, worldVars>>

\* A name is present when this process finds it in the kernel's list.
LookUp ==
  /\ pc = "lookup"
  /\ pc' = IF link.present THEN "operstate" ELSE "judge"
  /\ info' = [info EXCEPT !.ok = link.present]
  /\ UNCHANGED <<option, level, scanVars, name, verdict, worldVars>>

\* A file that cannot be read, or a speed that is none, leaves it unknown.
ReadOperState ==
  /\ pc = "operstate"
  /\ pc' = "speed"
  /\ \/ link.present /\ info' = [info EXCEPT !.state = link.state]
     \/ UNCHANGED info
  /\ UNCHANGED <<option, level, scanVars, name, verdict, worldVars>>

ReadSpeed ==
  /\ pc = "speed"
  /\ pc' = "judge"
  /\ \/ link.present /\ link.speed > 0 /\ info' = [info EXCEPT !.speed = link.speed]
     \/ UNCHANGED info
  /\ UNCHANGED <<option, level, scanVars, name, verdict, worldVars>>

\* networkCheck
Judge ==
  /\ pc = "judge"
  /\ pc' = "done" /\ verdict' = NetworkCheck(option # Empty, name # Empty, info, level)
  /\ UNCHANGED <<option, level, scanVars, name, info, worldVars>>

-----------------------------------------------------------------------------

LinkChanges ==
  /\ pc \in {"lookup", "operstate", "speed"} /\ changed < Changes
  /\ link' \in Links /\ was' = was \cup {link'}
  /\ changed' = changed + 1
  /\ UNCHANGED <<pc, option, level, scanVars, name, info, verdict>>

Next ==
  \/ ReadTable \/ ReadTableFails \/ EndOfTable
  \/ \E line \in Lines : Ignore(line) \/ Take(line)
  \/ LookUp \/ ReadOperState \/ ReadSpeed \/ Judge
  \/ LinkChanges

Spec == Init /\ [][Next]_vars

-----------------------------------------------------------------------------
(* Properties                                                              *)

\* What operstate may say, or nothing.
States == {l.state : l \in Links} \cup {Empty}

\* Each variable holds a value the code can give it; a host whose interface
\* could not be inspected leaves no half-read information behind.
TypeOK ==
  /\ pc \in {"table", "scan", "lookup", "operstate", "speed", "judge", "done"}
  /\ read \in Seq(Lines) /\ bestMetric \in Int
  /\ best \in Interfaces \cup {Empty} /\ name \in Interfaces \cup {Empty}
  /\ option \in Interfaces \cup {Empty} /\ level \in {"production", "minimum"}
  /\ info \in [ok : BOOLEAN, speed : Nat, state : States]
  /\ ~info.ok => info.state = Empty /\ info.speed = 0
  /\ link \in was /\ was \subseteq Links
  /\ verdict \in {"none", "pass", "warn", "fail"}

\* The scan is over and no interface was named.
Detected == option = Empty /\ pc \in {"lookup", "operstate", "speed", "judge", "done"}

Candidates == {i \in DOMAIN read : Usable(read[i])}

\* route.go:16-18: over the whole table, whatever the order of its lines and
\* the lines in between that say nothing, the interface detected is that of
\* the usable route with the lowest metric, the first of several, and none is
\* detected only when there is no such route.
LowestMetric ==
  Detected =>
    /\ name = Empty <=> Candidates = {}
    /\ name # Empty =>
         \E i \in Candidates :
           /\ name = read[i].iface
           /\ \A j \in Candidates :
                read[i].metric < read[j].metric \/ (read[i].metric = read[j].metric /\ i <= j)

\* The usable routes to every address: a zero mask, too.
DefaultRoutes == {i \in Candidates : read[i].mask = "zero"}

\* ... of the default route: in a table that has one, beside whatever other
\* routes, the interface detected is that of a default route.
OnlyDefaultRoute ==
  Detected /\ DefaultRoutes # {} => \E i \in DefaultRoutes : name = read[i].iface

IsDown(l) == l.state \in {"down", "dormant", "lowerlayerdown", "notpresent"}

\* A verdict is about the interface as it has been: a failure needs a named
\* interface that was missing, or one that was really down or, for production,
\* really too slow; a pass one that was up and fast enough.  An interface that
\* goes away, or whose files change or fail to be read in between, only warns.
LinkIsWitnessed ==
  /\ verdict = "fail" =>
       \/ option # Empty /\ \E l \in was : ~l.present
       \/ name # Empty /\ \E l \in was :
            l.present /\ (IsDown(l) \/ (level = "production" /\ l.speed \in 1 .. 999))
  /\ verdict = "pass" =>
       /\ \E l \in was : l.present /\ l.state = "up"
       /\ \E l \in was : l.present /\ l.speed >= 1000

=============================================================================
