------------------------- MODULE StoragePathProofs -------------------------
(***************************************************************************)
(* Theorems about StoragePath, for any host, any table and any number of   *)
(* changes made by other processes.  The argument: what was reachable all  *)
(* the time is reachable now and no longer than the ancestor looked at     *)
(* (SawAncestors); the device the climb starts from is that of a mount     *)
(* above the ancestor, and stays one when more is mounted (FromTable); the *)
(* climb has left behind only directories without the attribute (Climbed). *)
(***************************************************************************)
EXTENDS StoragePath, SequenceTheorems, WellFoundedInduction, TLAPS

-----------------------------------------------------------------------------
(* The inductive invariant                                                 *)

\* What stayed reachable is no nearer than the ancestor looked at.
SawAncestors ==
  /\ always \subseteq Reach(dirs) /\ Reach(dirs) \subseteq reached
  /\ \A p \in always : Len(p) <= Len(current)
  /\ pc # "stat" => current \in reached
  /\ failed => pc = "done" /\ current \notin always

\* The table has given a device, and the climb is on its way or over.
OnItsWay == pc \in {"device", "climb"} \/ media # "unknown"

\* The device is that of a mount above the ancestor.
FromTable == OnItsWay => \E i \in Above(current, table) : device = table[i].dev

\* The climb has found nothing so far, and reports the first it finds.
Climbed ==
  /\ pc \in {"stat", "statfs", "table", "device"} => level = 1
  /\ pc # "done" => media = "unknown"
  /\ pc = "climb" => \A k \in 1 .. level - 1 : Chain[device][k] = "none"
  /\ media # "unknown" => media = MediaOf(device)

\* As long as nothing has changed, the table is that of a host that may start, and
\* what was measured is what holds the ancestor.
Measured ==
  changed = 0 =>
    /\ \E h \in Hosts : table = h.table
    /\ pc = "table" \/ OnItsWay => capacity = Holds(current)

IInv == TypeOK /\ SawAncestors /\ FromTable /\ Climbed /\ Measured

\* No directory of a path is a symbolic link.
NoLinks == DOMAIN Link = {}

\* No mount a host starts with covers the point of an earlier one.
NothingHidden ==
  \A h \in Hosts : \A i, j \in Shaped(h.table) :
    i < j => ~IsPrefix(Point(h.table[j]), Point(h.table[i]))

\* As long as nothing has changed, the device found is the one that was measured.
SameMount == changed = 0 /\ OnItsWay => device = Holds(current)

-----------------------------------------------------------------------------
(* Paths                                                                   *)

\* What an ancestor of a path is: shorter by one at each step, and the only one
\* of its length.
LEMMA AncestorFacts ==
  ASSUME NEW t \in Path, NEW p \in Prefixed(t)
  PROVE  /\ p \in Path /\ Len(p) \in 0 .. Len(t) /\ p = SubSeq(t, 1, Len(p))
         /\ Front(p) \in Prefixed(t)
         /\ Len(Front(p)) = IF Len(p) = 0 THEN 0 ELSE Len(p) - 1
<1>1. PICK n \in 0 .. Len(t) : p = SubSeq(t, 1, n)
  BY DEF Prefixed
<1>2. /\ Len(p) = n /\ p \in Path
      /\ \A i \in 1 .. n : p[i] = t[i]
  BY <1>1, SubSeqProperties DEF Path
<1>3. Front(p) = SubSeq(t, 1, IF n = 0 THEN 0 ELSE n - 1)
  <2>1. CASE n = 0
    BY <1>2, <2>1, SubSeqEmpty DEF Front, Path
  <2>2. CASE n # 0
    BY <1>1, <1>2, <2>2, SubSeqOfSubSeq DEF Front, Path
  <2> QED BY <2>1, <2>2
<1>4. (IF n = 0 THEN 0 ELSE n - 1) \in 0 .. Len(t)
  BY DEF Path
<1>5. Front(p) \in Prefixed(t)
  BY <1>3, <1>4 DEF Prefixed
<1>6. Len(Front(p)) = IF n = 0 THEN 0 ELSE n - 1
  BY <1>3, <1>4, SubSeqProperties DEF Path
<1> QED BY <1>1, <1>2, <1>5, <1>6

\* Of two prefixes of a sequence the shorter is a prefix of the longer.
LEMMA PrefixesNest ==
  ASSUME NEW S, NEW r \in Seq(S), NEW p \in Seq(S), NEW q \in Seq(S),
         IsPrefix(p, r), IsPrefix(q, r), Len(p) <= Len(q)
  PROVE  IsPrefix(p, q)
<1>1. \A s \in Seq(S) : IsPrefix(s, r) => \A i \in 1 .. Len(s) : s[i] = r[i]
  <2> TAKE s \in Seq(S)
  <2> HAVE IsPrefix(s, r)
  <2> TAKE i \in 1 .. Len(s)
  <2>1. SubSeq(s, 1, Len(s))[i] = s[i] /\ SubSeq(r, 1, Len(s))[i] = r[i]
    BY SubSeqProperties DEF IsPrefix
  <2> QED BY <2>1 DEF IsPrefix
<1>2. \A i \in 1 .. Len(p) : p[i] = q[i]
  BY <1>1
<1>3. SubSeq(p, 1, Len(p)) = SubSeq(q, 1, Len(p))
  BY <1>2
<1> QED BY <1>3 DEF IsPrefix

\* The mount point of a line, decoded, is the path it was printed for; a path
\* printed makes a line.
LEMMA PointIsPath ==
  /\ \A line \in TableLine : Point(line) \in Path /\ Point(line) = Mounted(line)
  /\ \A point \in Path, dev \in DOMAIN Chain :
       [point |-> [i \in DOMAIN point |-> Spell[point[i]]], dev |-> dev, shaped |-> TRUE]
         \in TableLine
<1>1. ASSUME NEW line \in TableLine PROVE Point(line) \in Path /\ Point(line) = Mounted(line)
  <2>1. line.point \in Seq(Printed)
    BY DEF TableLine
  <2>2. \A p \in Printed : /\ DecodeMountEscapes(p) \in Component
                          /\ DecodeMountEscapes(p) = CHOOSE c \in Component : Spell[c] = p
    <3> SUFFICES ASSUME NEW p \in Printed
                 PROVE  /\ DecodeMountEscapes(p) \in Component
                        /\ DecodeMountEscapes(p) = CHOOSE c \in Component : Spell[c] = p
      OBVIOUS
    <3> DEFINE chosen == CHOOSE c \in Component : Spell[c] = p
    <3>1. chosen \in Component /\ Spell[chosen] = p
      BY DEF Printed
    <3> HIDE DEF chosen
    <3> QED BY <3>1, SpellAssumption
  <2>3. DOMAIN line.point = 1 .. Len(line.point) /\ Len(line.point) \in Nat
    BY <2>1
  <2>4. \A i \in DOMAIN line.point : line.point[i] \in Printed
    BY <2>1
  <2>5. Point(line) = Mounted(line)
    BY <2>2, <2>4 DEF Point, Mounted
  <2> QED BY <2>2, <2>3, <2>4, <2>5 DEF Point, Path
<1>2. ASSUME NEW point \in Path, NEW dev \in DOMAIN Chain
      PROVE  [point |-> [i \in DOMAIN point |-> Spell[point[i]]], dev |-> dev, shaped |-> TRUE]
               \in TableLine
  <2>1. \A i \in DOMAIN point : Spell[point[i]] \in Printed
    BY DEF Path, Printed
  <2>2. [i \in DOMAIN point |-> Spell[point[i]]] \in Seq(Printed)
    BY <2>1 DEF Path
  <2> QED BY <2>2 DEF TableLine
<1> QED BY <1>1, <1>2

\* More mounts leave the lines that were above a path where they were.
LEMMA AboveGrows ==
  ASSUME NEW lines \in Seq(TableLine), NEW line, NEW path, NEW i \in Above(path, lines)
  PROVE  i \in Above(path, Append(lines, line)) /\ Append(lines, line)[i] = lines[i]
<1>1. i \in 1 .. Len(lines) /\ Len(lines) \in Nat
  BY DEF Above
<1>2. i \in DOMAIN Append(lines, line) /\ Append(lines, line)[i] = lines[i]
  BY <1>1
<1> QED BY <1>2, Zenon DEF Above

-----------------------------------------------------------------------------
(* The table and the climb                                                 *)

\* A set of numbers has a least one.
LEMMA LeastExists ==
  ASSUME NEW S \in SUBSET Nat, S # {}
  PROVE  \E x \in S : \A y \in S : x <= y
<1>1. PICK x \in S : \A y \in S : ~ (<<y, x>> \in OpToRel(<, Nat))
  BY NatLessThanWellFounded, WFMin
<1>2. \A y \in S : ~(y < x)
  BY <1>1 DEF OpToRel
<1> QED BY <1>2

\* A set of numbers up to n has a greatest one.
LEMMA GreatestExists ==
  ASSUME NEW n \in Nat, NEW S \in SUBSET (1 .. n), S # {}
  PROVE  \E i \in S : \A j \in S : j <= i
<1> DEFINE T == {m \in Nat : \E s \in S : m = n - s}
<1>1. T \in SUBSET Nat /\ T # {}
  <2>1. PICK s \in S : TRUE
    OBVIOUS
  <2>2. n - s \in T
    OBVIOUS
  <2> QED BY <2>2
<1>2. PICK t \in T : \A u \in T : t <= u
  <2> HIDE DEF T
  <2> QED BY <1>1, LeastExists
<1>3. PICK i \in S : t = n - i
  OBVIOUS
<1>4. \A j \in S : n - i <= n - j
  BY <1>2, <1>3
<1> QED BY <1>4

\* What holds a path is the device of a line, or outside the table.
LEMMA HoldsADevice ==
  ASSUME table \in Seq(TableLine), NEW path
  PROVE  Holds(path) \in DOMAIN Chain \cup {"outside"}
<1> DEFINE above == Above(Real(path), table)
           last == CHOOSE i \in above : \A j \in above : j <= i
<1>1. above \subseteq 1 .. Len(table) /\ Len(table) \in Nat
  BY DEF Above
<1>2. above # {} => last \in above
  <2> HIDE DEF above
  <2> QED BY <1>1, GreatestExists
<1>3. \A i \in above : table[i].dev \in DOMAIN Chain
  <2>1. \A i \in above : table[i] \in TableLine
    BY <1>1
  <2> QED BY <2>1 DEF TableLine
<1>4. Holds(path) = IF above = {} THEN "outside" ELSE table[last].dev
  BY DEF Holds
<1> HIDE DEF above, last
<1> QED BY <1>2, <1>3, <1>4

\* The entry found is at or above the path; none is longer, none as long is before.
LEMMA FoundIsLongest ==
  ASSUME NEW lines \in Seq(TableLine), NEW path, NEW dev \in FindMount(ParseMountinfo(lines), path)
  PROVE  \E i \in Above(path, lines) :
           /\ dev = lines[i].dev
           /\ \A j \in Above(path, lines) :
                \/ Len(Point(lines[j])) < Len(Point(lines[i]))
                \/ Len(Point(lines[j])) = Len(Point(lines[i])) /\ i <= j
<1> DEFINE entries == ParseMountinfo(lines)
           at == {i \in DOMAIN entries : IsPrefix(entries[i].point, path)}
<1>1. /\ DOMAIN entries = Shaped(lines)
      /\ \A i \in Shaped(lines) : entries[i].point = Point(lines[i]) /\ entries[i].dev = lines[i].dev
  BY DEF ParseMountinfo
<1>2. at = Above(path, lines)
  <2>1. \A i \in Shaped(lines) : Point(lines[i]) = Mounted(lines[i])
    BY PointIsPath DEF Shaped
  <2> QED BY <1>1, <2>1, Zenon DEF Above, Shaped
<1>3. PICK i \in {i \in at : \A j \in at :
                    \/ Len(entries[j].point) < Len(entries[i].point)
                    \/ Len(entries[j].point) = Len(entries[i].point) /\ i <= j} :
        dev = entries[i].dev
  BY DEF FindMount
<1>4. \A j \in at : entries[j].point = Point(lines[j]) /\ entries[j].dev = lines[j].dev
  BY <1>1
<1> HIDE DEF entries, at
<1> QED BY <1>2, <1>3, <1>4, Zenon

\* The first attribute on the way up is the media of a device.
LEMMA FirstIsTheMedia ==
  ASSUME NEW dev \in DOMAIN Chain, NEW l \in 1 .. Len(Chain[dev]), Chain[dev][l] # "none",
         \A k \in 1 .. l - 1 : Chain[dev][k] = "none"
  PROVE  MediaOf(dev) = Rotational(Chain[dev][l])
<1> DEFINE found == {i \in DOMAIN Chain[dev] : Chain[dev][i] # "none"}
           first == CHOOSE i \in found : \A j \in found : i <= j
<1>1. DOMAIN Chain[dev] = 1 .. Len(Chain[dev]) /\ Len(Chain[dev]) \in Nat
  BY ChainAssumption
<1>2. l \in found /\ \A j \in found : l <= j
  BY <1>1
<1>3. \A i \in found : i \in Int
  BY <1>1
<1>4. first = l
  <2> HIDE DEF found
  <2>1. first \in found /\ \A j \in found : first <= j
    BY <1>2
  <2> QED BY <1>2, <1>3, <2>1
<1>5. MediaOf(dev) = IF found = {} THEN "unknown" ELSE Rotational(Chain[dev][first])
  BY Zenon DEF MediaOf, Rotational
<1> HIDE DEF found, first
<1> QED BY <1>2, <1>4, <1>5

\* What is reported is a media.
LEMMA RotationalIsMedia == \A value : Rotational(value) \in Media
<1> TAKE value
<1>1. CASE value = "0"
  BY <1>1 DEF Rotational, Media
<1>2. CASE value = "1"
  BY <1>2 DEF Rotational, Media
<1>3. CASE value # "0" /\ value # "1"
  BY <1>3 DEF Rotational, Media
<1> QED BY <1>1, <1>2, <1>3

-----------------------------------------------------------------------------
(* The steps of Storage                                                    *)

LEMMA InitIInv == Init => IInv
<1> SUFFICES ASSUME Init PROVE IInv
  OBVIOUS
<1>1. PICK host \in Hosts : dirs = host.dirs /\ table = host.table
  BY DEF Init
<1>2. target \in Path /\ table \in Seq(TableLine) /\ dirs \subseteq Path
  BY <1>1, PathAssumption DEF Init
<1>3. Reach(dirs) \subseteq Prefixed(target)
  BY DEF Reach
<1>4. current \in Prefixed(target) /\ Len(current) = Len(target)
  <2>1. SubSeq(target, 1, Len(target)) = target /\ Len(target) \in 0 .. Len(target)
    BY <1>2, SubSeqFull DEF Path
  <2> QED BY <2>1 DEF Prefixed, Init
<1>5. TypeOK
  <2>1. pc = "stat" /\ device = "none" /\ capacity = "none" /\ media \in Media
    BY DEF Init, Media
  <2>2. reached = Reach(dirs) /\ failed \in BOOLEAN /\ target \in Targets
    BY Zenon DEF Init
  <2>3. changed \in 0 .. Changes
    <3>1. changed = 0
      BY DEF Init
    <3> QED BY <3>1, ChangesAssumption
  <2>4. device \in DOMAIN Chain \cup {"none"} /\ capacity \in DOMAIN Chain \cup {"none", "outside"}
    BY <2>1, Zenon
  <2>5. pc \in {"stat", "statfs", "table", "device", "climb", "done"} /\ pc # "climb"
    BY <2>1
  <2> QED BY <1>2, <1>3, <1>4, <2>1, <2>2, <2>3, <2>4, <2>5, Zenon DEF TypeOK
<1>6. SawAncestors
  <2>1. \A p \in always : Len(p) <= Len(current)
    BY <1>2, <1>3, <1>4, AncestorFacts DEF Init
  <2> QED BY <2>1 DEF Init, SawAncestors
<1>7. FromTable /\ Climbed /\ Measured
  BY <1>1 DEF Init, FromTable, Climbed, Measured, OnItsWay
<1> QED BY <1>5, <1>6, <1>7 DEF IInv

\* A step of Storage leaves the host and what was reachable as they are.
LEMMA StorageReadsOnly ==
  ASSUME IInv, UNCHANGED <<target, world>>
  PROVE  /\ Reach(dirs)' = Reach(dirs)
         /\ target \in Path
         /\ table' \in Seq(TableLine) /\ dirs' \subseteq Path /\ changed' \in 0 .. Changes
         /\ target' \in Targets /\ reached' \subseteq Prefixed(target')
         /\ Prefixed(target)' = Prefixed(target)
         /\ always' \subseteq Reach(dirs)' /\ Reach(dirs)' \subseteq reached'
<1>1. Reach(dirs)' = Reach(dirs)
  BY DEF Reach, world
<1> QED BY <1>1, PathAssumption DEF IInv, TypeOK, SawAncestors, world

\* The parent of an ancestor that cannot be looked at is no shorter than any other
\* that could be all the time.
LEMMA StatKeepsIInv ==
  ASSUME IInv, Stat
  PROVE  IInv'
<1>1. /\ UNCHANGED <<target, world>> /\ UNCHANGED <<capacity, device, level, media, failed>>
      /\ pc = "stat" /\ pc' \in {"stat", "statfs"} /\ media = "unknown" /\ level = 1
  BY DEF Stat, IInv, Climbed
<1>2. UNCHANGED <<dirs, table, changed, reached, always>>
  BY <1>1 DEF world
<1>3. current \in Prefixed(target) /\ Front(current) \in Prefixed(target)
  BY <1>1, StorageReadsOnly, AncestorFacts DEF IInv, TypeOK
<1>4. current' \in Prefixed(target)
  BY <1>3 DEF Stat
<1>5. TypeOK'
  BY <1>1, <1>4, StorageReadsOnly DEF IInv, TypeOK
<1>6. SawAncestors'
  <2>1. always' = always /\ always \subseteq Prefixed(target) /\ always \subseteq Reach(dirs)
    BY <1>2 DEF IInv, SawAncestors, Reach
  <2>2. \A p \in always' : Len(p) <= Len(current')
    <3>1. CASE StatWorks(current, dirs)
      BY <2>1, <3>1 DEF Stat, IInv, SawAncestors
    <3>2. CASE ~StatWorks(current, dirs)
      <4> SUFFICES ASSUME NEW p \in always PROVE Len(p) <= Len(current')
        BY <2>1
      <4>1. p # current
        BY <2>1, <3>2 DEF Reach
      <4>2. p = SubSeq(target, 1, Len(p)) /\ current = SubSeq(target, 1, Len(current))
        BY <1>1, <1>3, <2>1, StorageReadsOnly, AncestorFacts
      <4>3. Len(p) # Len(current)
        BY <4>1, <4>2
      <4>4. Len(p) <= Len(current)
        BY DEF IInv, SawAncestors
      <4>5. /\ Len(p) \in Nat /\ Len(current) \in Nat
            /\ Len(Front(current)) = IF Len(current) = 0 THEN 0 ELSE Len(current) - 1
        BY <1>1, <1>3, <2>1, StorageReadsOnly, AncestorFacts DEF Path
      <4>6. Len(current') = Len(Front(current))
        BY <3>2 DEF Stat
      <4> QED BY <4>3, <4>4, <4>5, <4>6
    <3> QED BY <3>1, <3>2
  <2>3. pc' # "stat" => current' \in reached'
    <3>1. pc' # "stat" => StatWorks(current, dirs) /\ current' = current
      BY <1>1 DEF Stat
    <3>2. StatWorks(current, dirs) => current \in Reach(dirs)
      BY <1>3 DEF Reach
    <3> QED BY <1>2, <3>1, <3>2 DEF IInv, SawAncestors
  <2>4. failed' = FALSE
    BY <1>1 DEF IInv, SawAncestors, TypeOK
  <2> QED BY <1>1, <2>2, <2>3, <2>4, StorageReadsOnly DEF SawAncestors
<1>7. FromTable' /\ Climbed' /\ Measured'
  BY <1>1, <1>2 DEF IInv, FromTable, Climbed, Measured, OnItsWay
<1> QED BY <1>5, <1>6, <1>7 DEF IInv

\* Once the ancestor stays, what has been seen of it stays.
LEMMA AncestorStays ==
  ASSUME IInv, UNCHANGED <<target, current, world>>, pc # "stat", pc' # "stat",
         failed' => pc' = "done" /\ (failed \/ current \notin Reach(dirs))
  PROVE  SawAncestors'
<1>1. UNCHANGED <<dirs, table, changed, reached, always>>
  BY DEF world
<1>2. failed' => current' \notin always'
  BY <1>1 DEF IInv, SawAncestors
<1> QED BY <1>1, <1>2, StorageReadsOnly DEF IInv, SawAncestors

LEMMA StatfsKeepsIInv ==
  ASSUME IInv, Statfs
  PROVE  IInv'
<1>1. /\ UNCHANGED <<target, world>> /\ UNCHANGED <<current, device, level, media>>
      /\ pc = "statfs" /\ pc' \in {"table", "done"} /\ media = "unknown" /\ level = 1
      /\ ~failed
  BY DEF Statfs, IInv, Climbed, SawAncestors
<1>2. UNCHANGED <<dirs, table, changed, reached, always>>
  BY <1>1 DEF world
<1>3. Holds(current)' = Holds(current)
  BY <1>1, <1>2 DEF Holds
<1>4. TypeOK'
  <2>1. capacity' \in DOMAIN Chain \cup {"none", "outside"}
    BY HoldsADevice DEF Statfs, IInv, TypeOK
  <2>2. failed' \in BOOLEAN
    BY Zenon DEF Statfs, IInv, TypeOK
  <2>3. current' \in Prefixed(target') /\ device' \in DOMAIN Chain \cup {"none"} /\ media' \in Media
    BY <1>1 DEF IInv, TypeOK
  <2> QED BY <1>1, <2>1, <2>2, <2>3, StorageReadsOnly DEF TypeOK
<1>5. SawAncestors'
  <2>1. failed' => pc' = "done" /\ ~StatWorks(current, dirs)
    BY <1>1 DEF Statfs
  <2>2. ~StatWorks(current, dirs) => current \notin Reach(dirs)
    BY DEF Reach
  <2> QED BY <1>1, <2>1, <2>2, AncestorStays
<1>6. Measured'
  <2>1. pc' = "table" => capacity' = Holds(current)
    BY <1>1 DEF Statfs
  <2> QED BY <1>1, <1>2, <1>3, <2>1 DEF IInv, Measured, OnItsWay
<1>7. FromTable' /\ Climbed'
  BY <1>1, <1>2 DEF IInv, FromTable, Climbed, OnItsWay
<1> QED BY <1>4, <1>5, <1>6, <1>7 DEF IInv

LEMMA ReadTableKeepsIInv ==
  ASSUME IInv, ReadTable \/ ReadTableFails
  PROVE  IInv'
<1>1. /\ UNCHANGED <<target, world>> /\ UNCHANGED <<current, capacity, level, media, failed>>
      /\ pc = "table" /\ pc' \in {"device", "done"} /\ media = "unknown" /\ level = 1
      /\ ~failed
  BY DEF ReadTable, ReadTableFails, IInv, Climbed, SawAncestors
<1>2. UNCHANGED <<dirs, table, changed, reached, always>>
  BY <1>1 DEF world
<1>3. Holds(current)' = Holds(current) /\ Above(current, table)' = Above(current, table)
  BY <1>1, <1>2 DEF Holds
<1>4. \/ pc' = "done" /\ device' = device
      \/ pc' = "device" /\ \E i \in Above(current, table) : device' = table[i].dev
  <2> DEFINE found == FindMount(ParseMountinfo(table), current)
  <2>1. \/ pc' = "done" /\ device' = device
        \/ pc' = "device" /\ device' \in found
    BY DEF ReadTable, ReadTableFails
  <2>2. \A dev \in found : \E i \in Above(current, table) : dev = table[i].dev
    <3> SUFFICES ASSUME NEW dev \in FindMount(ParseMountinfo(table), current)
                 PROVE  \E i \in Above(current, table) : dev = table[i].dev
      OBVIOUS
    <3> QED BY FoundIsLongest DEF IInv, TypeOK
  <2> HIDE DEF found
  <2> QED BY <2>1, <2>2
<1>5. \A i \in Above(current, table) : table[i].dev \in DOMAIN Chain
  <2>1. \A i \in Above(current, table) : table[i] \in TableLine
    BY DEF Above, IInv, TypeOK
  <2> QED BY <2>1 DEF TableLine
<1>6. TypeOK'
  <2>1. device' \in DOMAIN Chain \cup {"none"}
    BY <1>4, <1>5, Zenon DEF IInv, TypeOK
  <2>2. failed' \in BOOLEAN
    BY <1>1, Zenon DEF IInv, TypeOK
  <2>3. /\ current' \in Prefixed(target') /\ media' \in Media
        /\ capacity' \in DOMAIN Chain \cup {"none", "outside"}
    BY <1>1 DEF IInv, TypeOK
  <2> QED BY <1>1, <2>1, <2>2, <2>3, StorageReadsOnly DEF TypeOK
<1>7. SawAncestors'
  BY <1>1, AncestorStays
<1>8. FromTable'
  <2>1. OnItsWay' => pc' = "device"
    BY <1>1 DEF OnItsWay
  <2> QED BY <1>2, <1>3, <1>4, <2>1 DEF FromTable
<1>9. Measured' /\ Climbed'
  BY <1>1, <1>2, <1>3 DEF IInv, Measured, Climbed, OnItsWay
<1> QED BY <1>6, <1>7, <1>8, <1>9 DEF IInv

LEMMA ResolveDeviceKeepsIInv ==
  ASSUME IInv, ResolveDevice
  PROVE  IInv'
<1>1. /\ UNCHANGED <<target, world>> /\ UNCHANGED <<current, capacity, device, level, media, failed>>
      /\ pc = "device" /\ pc' \in {"climb", "done"} /\ media = "unknown" /\ level = 1
      /\ ~failed
  BY DEF ResolveDevice, IInv, Climbed, SawAncestors
<1>2. UNCHANGED <<dirs, table, changed, reached, always>>
  BY <1>1 DEF world
<1>3. Holds(current)' = Holds(current) /\ Above(current, table)' = Above(current, table)
  BY <1>1, <1>2 DEF Holds
<1>4. TypeOK'
  <2>1. level' \in 1 .. Len(Chain[device']) + 1
    <3>1. \A i \in Above(current, table) : table[i] \in TableLine
      BY DEF Above, IInv, TypeOK
    <3>2. device \in DOMAIN Chain
      BY <1>1, <3>1 DEF IInv, FromTable, OnItsWay, TableLine
    <3>3. Len(Chain[device]) \in Nat
      BY <3>2, ChainAssumption
    <3> QED BY <1>1, <3>3
  <2>2. failed' \in BOOLEAN
    BY <1>1, Zenon DEF IInv, TypeOK
  <2>3. /\ current' \in Prefixed(target') /\ media' \in Media
        /\ capacity' \in DOMAIN Chain \cup {"none", "outside"}
        /\ device' \in DOMAIN Chain \cup {"none"}
    BY <1>1 DEF IInv, TypeOK
  <2> QED BY <1>1, <2>1, <2>2, <2>3, StorageReadsOnly DEF TypeOK
<1>5. SawAncestors'
  BY <1>1, AncestorStays
<1>6. FromTable' /\ Measured' /\ Climbed'
  BY <1>1, <1>2, <1>3 DEF IInv, FromTable, Measured, Climbed, OnItsWay
<1> QED BY <1>4, <1>5, <1>6 DEF IInv

LEMMA ClimbKeepsIInv ==
  ASSUME IInv, Climb
  PROVE  IInv'
<1> DEFINE left == SubSeq(Chain[device], level, Len(Chain[device]))
<1>1. /\ UNCHANGED <<target, world>> /\ UNCHANGED <<current, capacity, device, failed>>
      /\ pc = "climb" /\ pc' \in {"climb", "done"} /\ media = "unknown"
      /\ ~failed
  <2>1. /\ UNCHANGED <<target, world>> /\ UNCHANGED <<current, capacity, device, failed>>
        /\ pc = "climb" /\ pc' \in {"climb", "done"}
    BY DEF Climb
  <2> QED BY <2>1 DEF IInv, Climbed, SawAncestors
<1>2. UNCHANGED <<dirs, table, changed, reached, always>>
  BY <1>1 DEF world
<1>3. Holds(current)' = Holds(current) /\ Above(current, table)' = Above(current, table)
  BY <1>1, <1>2 DEF Holds
<1>4. device \in DOMAIN Chain
  <2>1. \A i \in Above(current, table) : table[i] \in TableLine
    BY DEF Above, IInv, TypeOK
  <2> QED BY <1>1, <2>1 DEF IInv, FromTable, OnItsWay, TableLine
<1>5. /\ Chain[device] \in Seq({"none", "0", "1", "other"}) /\ Len(Chain[device]) \in Nat
      /\ level \in 1 .. Len(Chain[device]) + 1
      /\ \A k \in 1 .. level - 1 : Chain[device][k] = "none"
  BY <1>1, <1>4, ChainAssumption DEF IInv, TypeOK, Climbed
<1>6. IF level <= Len(Chain[device])
      THEN left # << >> /\ Head(left) = Chain[device][level]
      ELSE left = << >>
  <2>1. CASE level <= Len(Chain[device])
    <3>1. level \in 1 .. Len(Chain[device]) /\ Len(Chain[device]) \in level .. Len(Chain[device])
      BY <1>5, <2>1
    <3>2. Head(left) = Chain[device][level]
      BY <1>5, <3>1, HeadTailOfSubSeq
    <3>3. Len(left) = Len(Chain[device]) - level + 1
      BY <1>5, <3>1, SubSeqProperties
    <3>4. left # << >>
      <4>1. Len(left) # 0
        BY <1>5, <3>1, <3>3
      <4> HIDE DEF left
      <4> QED BY <4>1
    <3> QED BY <2>1, <3>2, <3>4
  <2>2. CASE level > Len(Chain[device])
    BY <1>5, <2>2, SubSeqEmpty
  <2> QED BY <1>5, <2>1, <2>2
<1>7. \/ /\ level <= Len(Chain[device]) /\ Chain[device][level] = "none"
         /\ level' = level + 1 /\ pc' = "climb" /\ media' = "unknown"
      \/ pc' = "done" /\ level' = level /\ media' = "unknown"
      \/ /\ level <= Len(Chain[device]) /\ Chain[device][level] # "none"
         /\ pc' = "done" /\ level' = level /\ media' = Rotational(Chain[device][level])
  <2>1. \/ /\ left # << >> /\ Head(left) = "none"
           /\ level' = level + 1 /\ pc' = pc /\ media' = media
        \/ left = << >> /\ pc' = "done" /\ level' = level /\ media' = "unknown"
        \/ /\ left # << >> /\ Head(left) # "none"
           /\ pc' = "done" /\ level' = level /\ media' = Rotational(Head(left))
    BY Zenon DEF Climb
  <2> HIDE DEF left
  <2> QED BY <1>1, <1>5, <1>6, <2>1
<1>8. TypeOK'
  <2>1. media' \in Media
    BY <1>7, RotationalIsMedia DEF Media
  <2>2. pc' = "climb" => level' \in 1 .. Len(Chain[device']) + 1
    BY <1>1, <1>5, <1>7
  <2>3. failed' \in BOOLEAN
    BY <1>1, Zenon DEF IInv, TypeOK
  <2>4. /\ current' \in Prefixed(target')
        /\ capacity' \in DOMAIN Chain \cup {"none", "outside"}
        /\ device' \in DOMAIN Chain \cup {"none"}
    BY <1>1 DEF IInv, TypeOK
  <2> QED BY <1>1, <2>1, <2>2, <2>3, <2>4, StorageReadsOnly DEF TypeOK
<1>9. Climbed'
  <2>1. media' # "unknown" => media' = MediaOf(device')
    BY <1>1, <1>4, <1>5, <1>7, FirstIsTheMedia
  <2>2. pc' = "climb" => media' = "unknown" /\ \A k \in 1 .. level' - 1 : Chain[device'][k] = "none"
    BY <1>1, <1>5, <1>7
  <2> QED BY <1>1, <2>1, <2>2 DEF Climbed
<1>10. SawAncestors'
  BY <1>1, AncestorStays
<1>11. FromTable' /\ Measured'
  BY <1>1, <1>2, <1>3 DEF IInv, FromTable, Measured, OnItsWay
<1> QED BY <1>8, <1>9, <1>10, <1>11 DEF IInv

-----------------------------------------------------------------------------
(* The steps of other processes                                            *)

\* Whatever else becomes of the directories, they and the table stay well formed, no
\* line of the table goes, and the host has changed.
LEMMA HostKeepsIInv ==
  ASSUME IInv, HostChanges, dirs' \subseteq Path, table' \in Seq(TableLine),
         \A i \in Above(current, table) :
           i \in Above(current, table') /\ table'[i].dev = table[i].dev
  PROVE  IInv'
<1>1. /\ UNCHANGED <<target, pc, current, capacity, device, level, media, failed>>
      /\ changed \in 0 .. Changes /\ changed' = changed + 1 /\ changed < Changes
      /\ reached' = reached \cup Reach(dirs)' /\ always' = always \cap Reach(dirs)'
  BY DEF HostChanges, IInv, TypeOK, Reach
<1>2. Reach(dirs)' \subseteq Prefixed(target)
  BY <1>1 DEF Reach
<1>3. TypeOK'
  <2>1. changed' \in 0 .. Changes
    BY <1>1, ChangesAssumption
  <2>2. reached' \subseteq Prefixed(target') /\ failed' \in BOOLEAN
    BY <1>1, <1>2, Zenon DEF IInv, TypeOK
  <2> QED BY <1>1, <2>1, <2>2, Zenon DEF IInv, TypeOK
<1>4. SawAncestors'
  BY <1>1 DEF IInv, SawAncestors
<1>5. FromTable' /\ Climbed'
  BY <1>1 DEF IInv, FromTable, Climbed, OnItsWay
<1>6. Measured'
  BY <1>1, ChangesAssumption DEF Measured
<1> QED BY <1>3, <1>4, <1>5, <1>6 DEF IInv

LEMMA OthersKeepIInv ==
  ASSUME IInv, Others
  PROVE  IInv'
<1>1. ASSUME NEW path \in Makeable, Mkdir(path) PROVE IInv'
  BY <1>1, HostKeepsIInv, PathAssumption DEF Mkdir, IInv, TypeOK
<1>2. ASSUME NEW path \in dirs, Rmdir(path) PROVE IInv'
  BY <1>2, HostKeepsIInv DEF Rmdir, IInv, TypeOK
<1>3. ASSUME NEW m \in Mountable, Mount(m.point, m.dev) PROVE IInv'
  <2> DEFINE line == [point |-> [i \in DOMAIN m.point |-> Spell[m.point[i]]],
                      dev |-> m.dev, shaped |-> TRUE]
  <2>1. line \in TableLine
    BY PointIsPath, PathAssumption
  <2>2. table' = Append(table, line) /\ dirs' \subseteq dirs /\ HostChanges
    BY <1>3 DEF Mount
  <2> HIDE DEF line
  <2>3. table \in Seq(TableLine) /\ dirs' \subseteq Path /\ table' \in Seq(TableLine)
    BY <2>1, <2>2 DEF IInv, TypeOK
  <2>4. \A i \in Above(current, table) :
          i \in Above(current, table') /\ table'[i].dev = table[i].dev
    <3> SUFFICES ASSUME NEW i \in Above(current, table)
                 PROVE  i \in Above(current, table') /\ table'[i].dev = table[i].dev
      OBVIOUS
    <3>1. i \in Above(current, Append(table, line)) /\ Append(table, line)[i] = table[i]
      BY <2>3, AboveGrows
    <3> QED BY <2>2, <3>1
  <2> QED BY <2>2, <2>3, <2>4, HostKeepsIInv
<1> QED BY <1>1, <1>2, <1>3 DEF Others

-----------------------------------------------------------------------------
(* Theorems                                                                *)

\* The parts of the inductive invariant hold throughout.
THEOREM Invariance == Spec => []IInv
<1>1. IInv /\ [Next]_vars => IInv'
  <2> SUFFICES ASSUME IInv, [Next]_vars PROVE IInv'
    OBVIOUS
  <2>1. CASE Stat
    BY <2>1, StatKeepsIInv
  <2>2. CASE Statfs
    BY <2>2, StatfsKeepsIInv
  <2>3. CASE ReadTable \/ ReadTableFails
    BY <2>3, ReadTableKeepsIInv
  <2>4. CASE ResolveDevice
    BY <2>4, ResolveDeviceKeepsIInv
  <2>5. CASE Climb
    BY <2>5, ClimbKeepsIInv
  <2>6. CASE Others
    BY <2>6, OthersKeepIInv
  <2>7. CASE UNCHANGED vars
    <3>1. /\ UNCHANGED <<target, pc, current, capacity, device, level, media, failed>>
          /\ UNCHANGED <<dirs, table, changed, reached, always>>
      BY <2>7 DEF vars, world
    <3>2. TypeOK' /\ Climbed'
      BY <3>1 DEF IInv, TypeOK, Climbed
    <3>3. SawAncestors'
      BY <3>1 DEF IInv, SawAncestors, Reach
    <3>4. FromTable' /\ Measured'
      BY <3>1 DEF IInv, FromTable, Measured, OnItsWay, Holds
    <3> QED BY <3>2, <3>3, <3>4 DEF IInv
  <2> QED BY <2>1, <2>2, <2>3, <2>4, <2>5, <2>6, <2>7 DEF Next, Storage
<1> QED BY InitIInv, <1>1, PTL DEF Spec

\* Each variable holds a value the code can give it, and the climb stays on the way
\* of its device, whatever the host does meanwhile.
THEOREM TypeCorrect == Spec => []TypeOK
<1>1. IInv => TypeOK
  BY DEF IInv
<1> QED BY <1>1, Invariance, PTL

\* README.md:119, existingAncestor (linux.go:95): what is measured existed at some
\* time, nothing nearer was there all the time, and an error means that it went away,
\* for any links, any closed directories and any interference.
THEOREM AncestorIsNearest == Spec => []MeasuresNearestAncestor
<1>1. IInv => MeasuresNearestAncestor
  BY DEF IInv, SawAncestors, MeasuresNearestAncestor
<1> QED BY <1>1, Invariance, PTL

\* mediaOf (linux.go:113): when no link was followed on the way to what was measured,
\* a media that is known is that of a filesystem mounted above it, on any host that
\* may change at any time.
THEOREM MediaIsOfAMountAbove ==
  Spec => [](Real(current) = current /\ media # "unknown" =>
               \E i \in Above(Real(current), table) : media = MediaOf(table[i].dev))
<1>1. IInv => (Real(current) = current /\ media # "unknown" =>
                 \E i \in Above(Real(current), table) : media = MediaOf(table[i].dev))
  BY Zenon DEF IInv, FromTable, Climbed, OnItsWay
<1> QED BY <1>1, Invariance, PTL

\* The last line above a path is the one with the longest point, when none hides an
\* earlier one.
LEMMA LongestHolds ==
  ASSUME NoLinks, NothingHidden, NEW h \in Hosts, table = h.table, current \in Path,
         NEW i \in Above(current, table),
         \A j \in Above(current, table) :
            \/ Len(Point(table[j])) < Len(Point(table[i]))
            \/ Len(Point(table[j])) = Len(Point(table[i])) /\ i <= j
  PROVE  Holds(current) = table[i].dev
<1>1. Real(current) = current
  BY DEF Real, NoLinks
<1> DEFINE above == Above(current, table)
<1>2. \A j \in above : /\ j \in Shaped(table) /\ j \in Int /\ Point(table[j]) \in Path
                       /\ IsPrefix(Point(table[j]), current)
  <2>1. table \in Seq(TableLine)
    BY PathAssumption
  <2>2. \A j \in above : j \in 1 .. Len(table) /\ table[j] \in TableLine
    BY <2>1 DEF Above
  <2> QED BY <2>2, PointIsPath DEF Above, Shaped
<1>3. \A j \in above : j <= i
  <2> SUFFICES ASSUME NEW j \in above, ~(j <= i) PROVE FALSE
    OBVIOUS
  <2>1. i < j /\ Len(Point(table[j])) <= Len(Point(table[i]))
    BY <1>2 DEF Path
  <2>2. IsPrefix(Point(table[j]), Point(table[i]))
    BY <1>2, <2>1, PrefixesNest DEF Path
  <2> QED BY <1>2, <2>1, <2>2 DEF NothingHidden
<1>4. (CHOOSE k \in above : \A j \in above : j <= k) = i
  <2> HIDE DEF above
  <2>1. \A k \in above : (\A j \in above : j <= k) => k = i
    BY <1>2, <1>3 DEF above
  <2>2. i \in above
    BY DEF above
  <2> QED BY <1>3, <2>1, <2>2
<1>5. Holds(current) = IF above = {} THEN "outside"
                       ELSE table[CHOOSE k \in above : \A j \in above : j <= k].dev
  BY <1>1 DEF Holds
<1> QED BY <1>4, <1>5

LEMMA MountIsKept ==
  ASSUME NoLinks, NothingHidden, IInv, SameMount, Next
  PROVE  SameMount'
<1>1. CASE ReadTable
  <2>1. /\ UNCHANGED <<target, world>> /\ current' = current /\ media' = "unknown"
        /\ pc' \in {"device", "done"}
        /\ pc' = "device" => device' \in FindMount(ParseMountinfo(table), current)
    BY <1>1 DEF ReadTable, IInv, Climbed
  <2>2. Holds(current)' = Holds(current) /\ table' = table /\ changed' = changed
    BY <2>1 DEF Holds, world
  <2>3. ASSUME changed = 0, pc' = "device" PROVE device' = Holds(current)
    <3>1. PICK h \in Hosts : table = h.table
      BY <2>3 DEF IInv, Measured
    <3>2. PICK i \in Above(current, table) :
            /\ device' = table[i].dev
            /\ \A j \in Above(current, table) :
                 \/ Len(Point(table[j])) < Len(Point(table[i]))
                 \/ Len(Point(table[j])) = Len(Point(table[i])) /\ i <= j
      BY <2>1, <2>3, FoundIsLongest DEF IInv, TypeOK
    <3>3. current \in Path
      BY AncestorFacts, PathAssumption DEF IInv, TypeOK
    <3> QED BY <3>1, <3>2, <3>3, LongestHolds
  <2> QED BY <2>1, <2>2, <2>3 DEF SameMount, OnItsWay
<1>2. CASE Stat \/ Statfs \/ ReadTableFails
  BY <1>2 DEF Stat, Statfs, ReadTableFails, IInv, Climbed, SameMount, OnItsWay
<1>3. CASE ResolveDevice \/ Climb
  <2>1. UNCHANGED world /\ current' = current /\ device' = device /\ OnItsWay
    BY <1>3 DEF ResolveDevice, Climb, OnItsWay
  <2>2. Holds(current)' = Holds(current) /\ changed' = changed
    BY <2>1 DEF Holds, world
  <2> QED BY <2>1, <2>2 DEF SameMount
<1>4. CASE Others
  <2>1. changed' = changed + 1 /\ changed \in 0 .. Changes
    BY <1>4 DEF Others, Mkdir, Rmdir, Mount, HostChanges, IInv, TypeOK
  <2> QED BY <2>1, ChangesAssumption DEF SameMount
<1> QED BY <1>1, <1>2, <1>3, <1>4 DEF Next, Storage

\* linux.go:67: on a host that holds still, without symbolic links and without a mount
\* over an earlier one, capacity and media are of the one filesystem that holds what
\* was measured.  Both conditions are needed: the code does not resolve a link before
\* it looks the path up, and of two mounts at one point it takes the first.
THEOREM StorageIsOneFilesystem ==
  ASSUME NoLinks, NothingHidden
  PROVE  Spec => []OneFilesystem
<1>1. Init => SameMount
  BY DEF Init, SameMount, OnItsWay
<1>2. IInv /\ SameMount /\ [Next]_vars => SameMount'
  <2> SUFFICES ASSUME IInv, SameMount, [Next]_vars PROVE SameMount'
    OBVIOUS
  <2>1. CASE UNCHANGED vars
    BY <2>1 DEF vars, world, SameMount, OnItsWay, Holds
  <2> QED BY <2>1, MountIsKept
<1>3. IInv /\ SameMount => OneFilesystem
  <2> SUFFICES ASSUME IInv, SameMount, pc = "done", media # "unknown"
               PROVE  /\ changed = 0 => capacity = Holds(current) /\ media = MediaOf(capacity)
                      /\ \E i \in Above(Real(current), table) : media = MediaOf(table[i].dev)
    BY DEF OneFilesystem
  <2>1. OnItsWay /\ media = MediaOf(device)
    BY DEF IInv, Climbed, OnItsWay
  <2>2. changed = 0 => capacity = Holds(current) /\ device = Holds(current)
    BY <2>1 DEF IInv, Measured, SameMount
  <2>3. \E i \in Above(current, table) : device = table[i].dev
    BY <2>1 DEF IInv, FromTable
  <2>4. Real(current) = current
    BY DEF Real, NoLinks
  <2> QED BY <2>1, <2>2, <2>3, <2>4
<1> QED BY <1>1, <1>2, <1>3, Invariance, PTL DEF Spec

=============================================================================
