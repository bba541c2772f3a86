---------------------------- MODULE StoragePath ----------------------------
(***************************************************************************)
(* The Storage probe (internal/probe/linux.go:67-140) with the mount table *)
(* it reads (mountinfo.go): find the nearest existing ancestor of a path,  *)
(* measure its filesystem, find the mount entry of the ancestor, and climb *)
(* from its device to the first queue/rotational file.  Every step is a    *)
(* system call of its own; between any two of them a directory may appear  *)
(* or go and a filesystem may be mounted.                                  *)
(*                                                                         *)
(* A path is absolute and clean: the sequence of its components, << >> for *)
(* the root, which always exists.  A component is the sequence of the      *)
(* pieces the escapes tell apart: a backslash, another character that is   *)
(* escaped, one of the codes, or the other characters between them.  A     *)
(* line of the table is [point, dev, shaped], its mount point printed by   *)
(* the kernel; the last mount that covers a path is the one that holds it. *)
(***************************************************************************)
EXTENDS Integers, FiniteSets, SequencesExt

CONSTANTS Targets,  \* the paths that may be asked for
          Hosts,    \* how a host may start: [dirs, table]
          Link,     \* the symbolic links: each path that is one, and its target
          Closed,   \* directories in which this process may not look
          Spell,    \* of each component: how the kernel prints it in the table
          Chain,    \* of each device: rotational on the way up to /sys
          Mountable, Makeable,  \* [point, dev] and directories that may appear
          Changes   \* bound: how often the host changes

Media == {"ssd", "rotational", "unknown"}

Escapes == ("040" :> " ") @@ ("011" :> "\t") @@ ("012" :> "\n") @@ ("134" :> "\\")

Escaped(value, i) == value[i] = "\\" /\ i < Len(value) /\ value[i + 1] \in DOMAIN Escapes

\* From left to right, and what was decoded is not looked at again.
DecodeMountEscapes(value) ==
  LET from[i \in 1 .. Len(value) + 1] ==
        IF i > Len(value) THEN << >>
        ELSE IF Escaped(value, i) THEN <<Escapes[value[i + 1]]>> \o from[i + 2]
        ELSE <<value[i]>> \o from[i + 1]
  IN  from[1]

\* What a clean path is made of, and the table.
Component == DOMAIN Spell
Printed == {Spell[c] : c \in Component}
Path == Seq(Component)
TableLine == [point : Seq(Printed), dev : DOMAIN Chain, shaped : BOOLEAN]

ASSUME PathAssumption ==
  /\ Targets \cup Makeable \subseteq Path
  /\ \A h \in Hosts : << >> \in h.dirs /\ h.dirs \subseteq Path /\ h.table \in Seq(TableLine)
  /\ \A m \in Mountable : m.point \in Path /\ m.dev \in DOMAIN Chain
ASSUME ChangesAssumption == Changes \in Nat
ASSUME ChainAssumption == \A d \in DOMAIN Chain : Chain[d] \in Seq({"none", "0", "1", "other"})
ASSUME LinkAssumption == \A p, q \in DOMAIN Link : ~IsPrefix(q, Link[p])
ASSUME SpellAssumption == \A c \in Component : DecodeMountEscapes(Spell[c]) = c

VARIABLES target,   \* the path asked for
          pc,       \* stat, statfs, table, device, climb or done
          current,  \* the ancestor that is looked at
          capacity, \* the device statfs measured, or "none"
          device,   \* the device of the mount entry, or "none"
          level,    \* how far the climb has come
          media,    \* the media reported
          failed,   \* whether Storage returned an error
          dirs,     \* the directories of the host
          table,    \* the mount table
          changed,  \* how often the host has changed
          reached,  \* history: the ancestors a stat could reach at some time
          always    \* history: those it could reach at any time

world == <<dirs, table, changed, reached, always>>
vars == <<target, pc, current, capacity, device, level, media, failed, world>>

-----------------------------------------------------------------------------
(* The host: external                                                      *)

\* Where a path leads.
Real(path) ==
  IF \E l \in DOMAIN Link : IsPrefix(l, path)
  THEN LET l == CHOOSE l \in DOMAIN Link : IsPrefix(l, path)
       IN  Link[l] \o SubSeq(path, Len(l) + 1, Len(path))
  ELSE path

StatWorks(path, existing) ==
  Real(path) \in existing /\ \A d \in Closed : ~IsStrictPrefix(d, Real(path))

\* The path the kernel has printed in a line.
Mounted(line) == [i \in DOMAIN line.point |-> CHOOSE c \in Component : Spell[c] = line.point[i]]

\* The lines whose mount is at or above a path.
Above(path, lines) == {i \in DOMAIN lines : lines[i].shaped /\ IsPrefix(Mounted(lines[i]), path)}

\* A root that is no mount of this table holds the rest.
Holds(path) ==
  LET above == Above(Real(path), table)
  IN  IF above = {} THEN "outside" ELSE table[CHOOSE i \in above : \A j \in above : j <= i].dev

Prefixed(path) == {SubSeq(path, 1, n) : n \in 0 .. Len(path)}

Reach(existing) == {p \in Prefixed(target) : StatWorks(p, existing)}

Init ==
  /\ target \in Targets
  /\ \E host \in Hosts : dirs = host.dirs /\ table = host.table
  /\ pc = "stat" /\ current = target
  /\ capacity = "none" /\ device = "none" /\ level = 1 /\ media = "unknown"
  /\ failed = FALSE /\ changed = 0 /\ reached = Reach(dirs) /\ always = Reach(dirs)

-----------------------------------------------------------------------------
(* Storage                                                                 *)

\* Seeded fault: only a path that is not there sends it to the parent, another
\* error ends the probe.
BrokenStat ==
  /\ pc = "stat"
  /\ \/ StatWorks(current, dirs) /\ pc' = "statfs" /\ UNCHANGED <<current, failed>>
     \/ Real(current) \notin dirs /\ current' = Front(current) /\ UNCHANGED <<pc, failed>>
     \/ /\ Real(current) \in dirs /\ ~StatWorks(current, dirs)
        /\ pc' = "done" /\ failed' = TRUE /\ UNCHANGED current
  /\ UNCHANGED <<target, capacity, device, level, media, world>>

\* existingAncestor: any error of os.Stat sends it to the parent.
Stat ==
  /\ pc = "stat"
  /\ IF StatWorks(current, dirs)
     THEN pc' = "statfs" /\ UNCHANGED current
     ELSE current' = Front(current) /\ UNCHANGED pc
  /\ UNCHANGED <<target, capacity, device, level, media, failed, world>>

Statfs ==
  /\ pc = "statfs"
  /\ IF StatWorks(current, dirs)
     THEN pc' = "table" /\ capacity' = Holds(current) /\ UNCHANGED failed
     ELSE pc' = "done" /\ failed' = TRUE /\ UNCHANGED capacity
  /\ UNCHANGED <<target, current, device, level, media, world>>

\* Seeded fault: the escape's code is decoded, and then taken for text as well.
BrokenDecode(value) ==
  LET from[i \in 1 .. Len(value) + 1] ==
        IF i > Len(value) THEN << >>
        ELSE <<IF Escaped(value, i) THEN Escapes[value[i + 1]] ELSE value[i]>> \o from[i + 1]
  IN  from[1]

BrokenPoint(line) == [i \in DOMAIN line.point |-> BrokenDecode(line.point[i])]

\* The mount point of a line, decoded.
Point(line) == [i \in DOMAIN line.point |-> DecodeMountEscapes(line.point[i])]

Shaped(lines) == {i \in DOMAIN lines : lines[i].shaped}

\* The entries by their line: one without five fields or a device is ignored.
ParseMountinfo(lines) ==
  [i \in Shaped(lines) |-> [point |-> Point(lines[i]), dev |-> lines[i].dev]]

\* findMount: the first of the entries with the longest mount point, if any.
FindMount(entries, path) ==
  LET at == {i \in DOMAIN entries : IsPrefix(entries[i].point, path)}
  IN  {entries[i].dev : i \in {i \in at : \A j \in at :
         \/ Len(entries[j].point) < Len(entries[i].point)
         \/ Len(entries[j].point) = Len(entries[i].point) /\ i <= j}}

\* The table is read at once.  It may be unreadable or have no entry.
ReadTable ==
  /\ pc = "table"
  /\ LET found == FindMount(ParseMountinfo(table), current)
     IN  IF found = {} THEN pc' = "done" /\ UNCHANGED device
         ELSE pc' = "device" /\ device' \in found
  /\ UNCHANGED <<target, current, capacity, level, media, failed, world>>

ReadTableFails ==
  /\ pc = "table"
  /\ pc' = "done"
  /\ UNCHANGED <<target, current, capacity, device, level, media, failed, world>>

\* A filesystem without a block device has no entry in /sys/dev/block.
ResolveDevice ==
  /\ pc = "device"
  /\ pc' = IF Chain[device] = << >> THEN "done" ELSE "climb"
  /\ UNCHANGED <<target, current, capacity, device, level, media, failed, world>>

\* Seeded fault: the attribute is reported as it is read.
BrokenRotational(value) == value

Rotational(value) == CASE value = "0" -> "ssd" [] value = "1" -> "rotational" [] OTHER -> "unknown"

\* The first queue/rotational that can be read on the way up decides.
Climb ==
  /\ pc = "climb"
  /\ LET left == SubSeq(Chain[device], level, Len(Chain[device]))
     IN  IF left # << >> /\ Head(left) = "none"
         THEN level' = level + 1 /\ UNCHANGED <<pc, media>>
         ELSE /\ pc' = "done" /\ UNCHANGED level
              /\ media' = IF left = << >> THEN "unknown" ELSE Rotational(Head(left))
  /\ UNCHANGED <<target, current, capacity, device, failed, world>>

Storage == Stat \/ Statfs \/ ReadTable \/ ReadTableFails \/ ResolveDevice \/ Climb

-----------------------------------------------------------------------------
(* Other processes                                                         *)

HostChanges ==
  /\ pc # "done" /\ changed < Changes
  /\ changed' = changed + 1 /\ reached' = reached \cup Reach(dirs')
  /\ always' = always \cap Reach(dirs')
  /\ UNCHANGED <<target, pc, current, capacity, device, level, media, failed>>

Mkdir(path) ==
  /\ path \notin dirs /\ Front(path) \in dirs
  /\ dirs' = dirs \cup {path} /\ HostChanges /\ UNCHANGED table

\* A mount point cannot be removed.
Rmdir(path) ==
  /\ path # << >> /\ \A d \in dirs : ~IsStrictPrefix(path, d)
  /\ \A i \in DOMAIN table : Mounted(table[i]) # path
  /\ dirs' = dirs \ {path} /\ HostChanges /\ UNCHANGED table

\* A new filesystem has no directories yet, and hides those below it.
Mount(point, dev) ==
  /\ point \in dirs
  /\ table' = Append(table, [point |-> [i \in DOMAIN point |-> Spell[point[i]]],
                             dev |-> dev, shaped |-> TRUE])
  /\ dirs' = {d \in dirs : ~IsStrictPrefix(point, d)} /\ HostChanges

Others ==
  \/ \E path \in Makeable : Mkdir(path)
  \/ \E path \in dirs : Rmdir(path)
  \/ \E m \in Mountable : Mount(m.point, m.dev)

Next == Storage \/ Others

Spec == Init /\ [][Next]_vars

-----------------------------------------------------------------------------
(* Properties                                                              *)

\* Each variable holds a value the code can give it; the climb stays on the
\* way of its device, and the ancestor is one of the target.
TypeOK ==
  /\ pc \in {"stat", "statfs", "table", "device", "climb", "done"}
  /\ table \in Seq(TableLine) /\ dirs \subseteq Path
  /\ target \in Targets /\ current \in Prefixed(target) /\ reached \subseteq Prefixed(target)
  /\ device \in DOMAIN Chain \cup {"none"} /\ capacity \in DOMAIN Chain \cup {"none", "outside"}
  /\ media \in Media /\ failed \in BOOLEAN /\ changed \in 0 .. Changes
  /\ pc = "climb" => level \in 1 .. Len(Chain[device]) + 1

\* README.md:119: the nearest existing ancestor is measured.  While directories
\* come and go, what is measured existed at some time, and nothing nearer was
\* there all the time; an error means that the ancestor itself went away.
MeasuresNearestAncestor ==
  pc = "done" =>
    /\ current \in reached /\ \A p \in always : Len(p) <= Len(current)
    /\ failed => current \notin always

\* The media a device has: the first attribute on its way up.
MediaOf(dev) ==
  LET found == {i \in DOMAIN Chain[dev] : Chain[dev][i] # "none"}
      first == Chain[dev][CHOOSE i \in found : \A j \in found : i <= j]
  IN  IF found = {} THEN "unknown"
      ELSE CASE first = "0" -> "ssd" [] first = "1" -> "rotational" [] OTHER -> "unknown"

\* linux.go:67: Storage measures the filesystem holding the path.  On a host
\* that holds still, the capacity and the media are of one filesystem, the one that
\* holds what was measured; on any host, a media that is known is that of a
\* filesystem mounted above the place it leads to, never of a neighbour in the table.
OneFilesystem ==
  pc = "done" /\ media # "unknown" =>
    /\ changed = 0 => capacity = Holds(current) /\ media = MediaOf(capacity)
    /\ \E i \in Above(Real(current), table) : media = MediaOf(table[i].dev)

=============================================================================
