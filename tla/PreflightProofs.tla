--------------------------- MODULE PreflightProofs ---------------------------
(***************************************************************************)
(* Theorems about Preflight, for every host, every command line, every     *)
(* configuration and any number of changes of the host during the run.    *)
(* First what each check answers, case by case, and what the checks have   *)
(* in common; then the inductive invariant: steps come in their order      *)
(* (InOrder), a refused command line ends the run (Judged), the root is    *)
(* the last resort (Resolved), each check is the verdict on the readings   *)
(* of the run and on a state the host had (Evaluated), and the report and  *)
(* the exit code are those of the checks (Reported).                       *)
(***************************************************************************)
EXTENDS Preflight, SequenceTheorems, FiniteSetTheorems, TLAPS

\* The checks there are.
Ids == {"host.os", "host.arch", "host.cpu", "host.memory",
        "storage.target", "storage.capacity", "storage.media",
        "network.interface", "time.sync", "limits.nofile", "xrpld.binary",
        "config.file", "config.node_size", "config.node_db", "config.peer_port",
        "validator.config", "validator.credentials", "validator.legacy_seed",
        "validator.config_mode", "validator.api_bind"}

\* Which check decides each verdict.
LEMMA VerdictCases ==
  ASSUME NEW level, NEW mem, NEW disk, NEW w
  PROVE  /\ Verdict("host.os", level, mem, disk, w) = OSCheck(w.os)
         /\ Verdict("host.arch", level, mem, disk, w) = ArchCheck(w.arch, level)
         /\ Verdict("host.cpu", level, mem, disk, w) = CPUCheck(w.cpus, level)
         /\ Verdict("host.memory", level, mem, disk, w) = MemoryCheck(mem, level)
         /\ Verdict("storage.target", level, mem, disk, w) = StorageTargetCheck(target)
         /\ Verdict("storage.capacity", level, mem, disk, w) = StorageCapacityCheck(disk)
         /\ Verdict("storage.media", level, mem, disk, w) = StorageMediaCheck(disk)
         /\ Verdict("network.interface", level, mem, disk, w) = Network(level, w)
         /\ Verdict("time.sync", level, mem, disk, w) = TimeCheck(w.time, level)
         /\ Verdict("limits.nofile", level, mem, disk, w) = NofileCheck(w.nofile, level)
         /\ Verdict("xrpld.binary", level, mem, disk, w) = BinaryCheck(w.binary)
         /\ Verdict("config.file", level, mem, disk, w) = ConfigFileCheck(config)
         /\ Verdict("config.node_size", level, mem, disk, w) = NodeSizeCheck(config, Lower, level, mem)
         /\ Verdict("config.node_db", level, mem, disk, w) = NodeDBCheck(config, Lower)
         /\ Verdict("config.peer_port", level, mem, disk, w) = PeerPortCheck(config)
         /\ Verdict("validator.config", level, mem, disk, w) = ValidatorConfigCheck(config)
         /\ Verdict("validator.credentials", level, mem, disk, w) = CredentialsCheck(config)
         /\ Verdict("validator.legacy_seed", level, mem, disk, w) = LegacySeedCheck(config)
         /\ Verdict("validator.config_mode", level, mem, disk, w) = ConfigModeCheck(config, w.file.mode)
         /\ Verdict("validator.api_bind", level, mem, disk, w) = APIBindCheck(config)
BY Zenon DEF Verdict

\* A verdict changes only with what it is given and with args, config and target.
LEMMA Stable ==
  ASSUME UNCHANGED <<args, config, target>>
  PROVE  \A id, level, mem, disk, w : Verdict(id, level, mem, disk, w)' = Verdict(id, level, mem, disk, w)
<1>1. args' = args /\ config' = config /\ target' = target
  OBVIOUS
<1> TAKE id, level, mem, disk, w
<1>2. Network(level, w)' = Network(level, w)
  BY <1>1, Zenon DEF Network, Given
<1> QED BY <1>1, <1>2, Zenon DEF Verdict

-----------------------------------------------------------------------------
(* The checks, each as a nest of IFs for the arithmetic prover             *)

\* cpuCheck: an error warns, then the threshold decides.
LEMMA CPUCases ==
  \A cpus, level :
    CPUCheck(cpus, level) = IF cpus = Unknown THEN "warn"
                            ELSE IF cpus >= RequiredCPUs(level) THEN "pass" ELSE "fail"
BY Zenon DEF CPUCheck

\* memoryCheck: an error warns, then the threshold decides.
LEMMA MemoryCases ==
  \A mem, level :
    MemoryCheck(mem, level) = IF mem = Unknown THEN "warn"
                              ELSE IF mem >= RequiredMemory(level) THEN "pass" ELSE "fail"
BY Zenon DEF MemoryCheck

\* storageCapacityCheck: a path that was not measured warns.
LEMMA CapacityCases ==
  \A disk :
    StorageCapacityCheck(disk) = IF ~disk.ok THEN "warn"
                                 ELSE IF disk.capacity >= 1 THEN "pass" ELSE "fail"
BY Zenon DEF StorageCapacityCheck

\* storageMediaCheck: what is neither known to be solid nor to rotate warns.
LEMMA MediaCases ==
  \A disk :
    StorageMediaCheck(disk) = IF disk.ok /\ disk.media = "ssd" THEN "pass"
                              ELSE IF disk.ok /\ disk.media = "rotational" THEN "fail" ELSE "warn"
BY Zenon DEF StorageMediaCheck

\* The worse of two answers.
LEMMA WorstCases ==
  ASSUME NEW a \in {"pass", "warn", "fail"}, NEW b \in {"pass", "warn", "fail"}
  PROVE  Worst(a, b) = IF "fail" \in {a, b} THEN "fail"
                       ELSE IF "warn" \in {a, b} THEN "warn" ELSE "pass"
BY DEF Worst, Rank

\* The two halves of networkCheck pass, warn or fail.
LEMMA LinkCases ==
  /\ \A speed, level : LinkSpeedVerdict(speed, level) \in {"pass", "warn", "fail"}
  /\ \A state : LinkStateVerdict(state) \in {"pass", "warn", "fail"}
<1>1. \A speed, level : LinkSpeedVerdict(speed, level) \in {"pass", "warn", "fail"}
  BY Zenon DEF LinkSpeedVerdict, Tolerated
<1>2. \A state : LinkStateVerdict(state) \in {"pass", "warn", "fail"}
  BY Zenon DEF LinkStateVerdict
<1> QED BY <1>1, <1>2

\* networkCheck: no interface, one that is not there, or its two halves.
LEMMA NetworkCases ==
  \A explicit, found, link, level :
    NetworkCheck(explicit, found, link, level) =
      IF ~found THEN "warn"
      ELSE IF ~link.ok THEN (IF explicit THEN "fail" ELSE "warn")
      ELSE Worst(LinkStateVerdict(link.state), LinkSpeedVerdict(link.speed, level))
BY Zenon DEF NetworkCheck

\* nodeSizeCheck: skipped, left to the default, unknown, or judged by the level.
LEMMA NodeSizeCases ==
  \A c, lower, level, mem :
    NodeSizeCheck(c, lower, level, mem) =
      IF ~c.ok THEN "skip"
      ELSE IF lower[c.facts.nodeSize] = "" THEN "pass"
      ELSE IF lower[c.facts.nodeSize] \notin NodeSizes \cup {""} THEN "fail"
      ELSE IF level = "minimum" THEN NodeSizeMinimum(lower[c.facts.nodeSize], mem)
      ELSE IF lower[c.facts.nodeSize] = "huge" THEN "pass" ELSE "warn"
BY Zenon DEF NodeSizeCheck

\* nodeDBCheck: skipped, incomplete, or judged by the type.
LEMMA NodeDBCases ==
  \A c, lower :
    NodeDBCheck(c, lower) =
      IF ~c.ok THEN "skip"
      ELSE IF c.facts.dbType = "" \/ c.facts.dbPath = "" THEN "fail"
      ELSE IF lower[c.facts.dbType] = "nudb" THEN "pass"
      ELSE IF lower[c.facts.dbType] = "rocksdb" THEN "warn" ELSE "fail"
BY Zenon DEF NodeDBCheck

\* configFileCheck: not supplied, read, or not readable.
LEMMA ConfigFileCases ==
  \A c : ConfigFileCheck(c) = IF ~c.supplied THEN "skip" ELSE IF c.ok THEN "pass" ELSE "fail"
BY Zenon DEF ConfigFileCheck

\* nofileCheck: the service's soft limit or nothing.
LEMMA NofileCases ==
  \A nofile, level :
    NofileCheck(nofile, level) =
      IF ~nofile.verified THEN "warn"
      ELSE IF nofile.infinite \/ nofile.soft >= RequiredNofile THEN "pass" ELSE Tolerated(level)
BY Zenon DEF NofileCheck

\* What a check answers when it is not one of the above.
LEMMA OtherAnswers ==
  /\ \A os : OSCheck(os) \in {"pass", "fail"}
  /\ \A arch, level : ArchCheck(arch, level) \in {"pass", "warn", "fail"}
  /\ \A t : StorageTargetCheck(t) \in {"pass", "warn"}
  /\ \A time, level : TimeCheck(time, level) \in {"pass", "warn", "fail"}
  /\ \A nofile, level : NofileCheck(nofile, level) \in {"pass", "warn", "fail"}
  /\ \A binary : BinaryCheck(binary) \in {"pass", "warn"}
  /\ \A c : ValidatorConfigCheck(c) \in {"pass", "warn", "fail"}
<1>1. \A os : OSCheck(os) \in {"pass", "fail"}
  BY Zenon DEF OSCheck
<1>2. \A arch, level : ArchCheck(arch, level) \in {"pass", "warn", "fail"}
  BY Zenon DEF ArchCheck
<1>3. \A t : StorageTargetCheck(t) \in {"pass", "warn"}
  BY Zenon DEF StorageTargetCheck
<1>4. \A time, level : TimeCheck(time, level) \in {"pass", "warn", "fail"}
  BY Zenon DEF TimeCheck, Tolerated
<1>5. \A nofile, level : NofileCheck(nofile, level) \in {"pass", "warn", "fail"}
  BY NofileCases, Zenon DEF Tolerated
<1>6. \A binary : BinaryCheck(binary) \in {"pass", "warn"}
  BY Zenon DEF BinaryCheck
<1>7. \A c : ValidatorConfigCheck(c) \in {"pass", "warn", "fail"}
  BY Zenon DEF ValidatorConfigCheck
<1> QED BY <1>1, <1>2, <1>3, <1>4, <1>5, <1>6, <1>7

-----------------------------------------------------------------------------
(* What the checks have in common                                          *)

\* A check that depends on the configuration is skipped exactly when there is
\* none, and answers pass, warn or fail when there is one.
LEMMA DependentSkips ==
  ASSUME NEW id \in Dependent, NEW level, NEW mem, NEW disk, NEW w
  PROVE  /\ ~config.ok => Verdict(id, level, mem, disk, w) = "skip"
         /\ config.ok => Verdict(id, level, mem, disk, w) \in {"pass", "warn", "fail"}
<1>1. /\ ~config.ok => NodeSizeCheck(config, Lower, level, mem) = "skip"
      /\ config.ok => NodeSizeCheck(config, Lower, level, mem) \in {"pass", "warn", "fail"}
  BY NodeSizeCases DEF NodeSizeMinimum
<1>2. /\ ~config.ok => NodeDBCheck(config, Lower) = "skip"
      /\ config.ok => NodeDBCheck(config, Lower) \in {"pass", "warn", "fail"}
  BY NodeDBCases
<1>3. /\ ~config.ok => PeerPortCheck(config) = "skip"
      /\ config.ok => PeerPortCheck(config) \in {"pass", "warn", "fail"}
  BY Zenon DEF PeerPortCheck
<1>4. /\ ~config.ok => CredentialsCheck(config) = "skip"
      /\ config.ok => CredentialsCheck(config) \in {"pass", "warn", "fail"}
  BY Zenon DEF CredentialsCheck
<1>5. /\ ~config.ok => LegacySeedCheck(config) = "skip"
      /\ config.ok => LegacySeedCheck(config) \in {"pass", "warn", "fail"}
  BY Zenon DEF LegacySeedCheck
<1>6. /\ ~config.ok => ConfigModeCheck(config, w.file.mode) = "skip"
      /\ config.ok => ConfigModeCheck(config, w.file.mode) \in {"pass", "warn", "fail"}
  BY Zenon DEF ConfigModeCheck
<1>7. /\ ~config.ok => APIBindCheck(config) = "skip"
      /\ config.ok => APIBindCheck(config) \in {"pass", "warn", "fail"}
  BY Zenon DEF APIBindCheck
<1> QED BY <1>1, <1>2, <1>3, <1>4, <1>5, <1>6, <1>7, VerdictCases DEF Dependent

\* No check of the host is ever skipped, and config.file only for want of a file.
LEMMA OthersAnswer ==
  ASSUME NEW id \in Ids \ Dependent, NEW level, NEW mem, NEW disk, NEW w
  PROVE  Verdict(id, level, mem, disk, w) = "skip" <=> id = "config.file" /\ ~config.supplied
<1>1. CASE id \in {"host.os", "host.arch", "time.sync", "limits.nofile", "xrpld.binary",
                   "storage.target", "validator.config"}
  <2>1. Verdict(id, level, mem, disk, w) \in {"pass", "warn", "fail"}
    BY <1>1, OtherAnswers, VerdictCases
  <2> QED BY <1>1, <2>1
<1>2. CASE id \in {"host.cpu", "host.memory", "storage.capacity", "storage.media"}
  BY <1>2, VerdictCases, CPUCases, MemoryCases, CapacityCases, MediaCases
<1>3. CASE id = "config.file"
  BY <1>3, VerdictCases, ConfigFileCases
<1>4. CASE id = "network.interface"
  <2>1. ASSUME NEW a \in {"pass", "warn", "fail"}, NEW b \in {"pass", "warn", "fail"}
        PROVE  Worst(a, b) # "skip"
    BY Zenon DEF Worst
  <2>2. \A state, speed : Worst(LinkStateVerdict(state), LinkSpeedVerdict(speed, level)) # "skip"
    BY <2>1, LinkCases, Zenon
  <2>3. \A explicit, found, link : NetworkCheck(explicit, found, link, level) # "skip"
    BY <2>2, NetworkCases, Zenon
  <2>4. Network(level, w) # "skip"
    BY <2>3, Zenon DEF Network
  <2> QED BY <1>4, <2>4, VerdictCases
<1> QED BY <1>1, <1>2, <1>3, <1>4 DEF Ids, Dependent

\* Every check answers with a status.
LEMMA VerdictType ==
  ASSUME NEW id \in Ids, NEW level, NEW mem, NEW disk, NEW w
  PROVE  Verdict(id, level, mem, disk, w) \in Statuses
<1>1. Statuses = {"skip", "pass", "warn", "fail"}
  BY DEF Statuses, Rank
<1>2. CASE id \in Dependent
  BY <1>1, <1>2, DependentSkips, Zenon
<1>3. CASE id \in {"host.os", "host.arch", "time.sync", "limits.nofile", "xrpld.binary",
                   "storage.target", "validator.config"}
  BY <1>1, <1>3, OtherAnswers, VerdictCases
<1>4. CASE id \in {"host.cpu", "host.memory", "storage.capacity", "storage.media", "config.file"}
  BY <1>1, <1>4, VerdictCases, CPUCases, MemoryCases, CapacityCases, MediaCases, ConfigFileCases
<1>5. CASE id = "network.interface"
  <2>1. ASSUME NEW a \in {"pass", "warn", "fail"}, NEW b \in {"pass", "warn", "fail"}
        PROVE  Worst(a, b) \in Statuses
    BY <1>1, Zenon DEF Worst
  <2>2. \A state, speed : Worst(LinkStateVerdict(state), LinkSpeedVerdict(speed, level)) \in Statuses
    BY <2>1, LinkCases, Zenon
  <2>3. \A explicit, found, link : NetworkCheck(explicit, found, link, level) \in Statuses
    BY <1>1, <2>2, NetworkCases, Zenon
  <2>4. Verdict("network.interface", level, mem, disk, w) = Network(level, w)
    BY VerdictCases
  <2>5. Network(level, w) \in Statuses
    BY <2>3, Zenon DEF Network
  <2> QED BY <1>5, <2>4, <2>5
<1> QED BY <1>2, <1>3, <1>4, <1>5 DEF Ids, Dependent

\* Which checks look at the level, and how: what the minimum profile fails
\* production fails, and what it warns about production warns about or fails,
\* unless it is config.node_size, huge for a memory production fails anyway.
LEMMA HarsherAtProduction ==
  ASSUME NEW id \in Ids, NEW mem \in Int, NEW disk, NEW w \in Host
  PROVE  /\ Verdict(id, "minimum", mem, disk, w) = "fail" =>
              Verdict(id, "production", mem, disk, w) = "fail"
         /\ Verdict(id, "minimum", mem, disk, w) = "warn" =>
              \/ Verdict(id, "production", mem, disk, w) \in {"warn", "fail"}
              \/ /\ id = "config.node_size"
                 /\ Verdict("host.memory", "production", mem, disk, w) = "fail"
<1>1. Tolerated("minimum") = "warn" /\ Tolerated("production") = "fail"
  BY DEF Tolerated
<1>2. CASE id = "host.arch"
  <2>1. /\ ArchCheck(w.arch, "minimum") = "fail" => ArchCheck(w.arch, "production") = "fail"
        /\ ArchCheck(w.arch, "minimum") = "warn" => ArchCheck(w.arch, "production") = "fail"
    BY Zenon DEF ArchCheck
  <2> QED BY <1>2, <2>1, VerdictCases
<1>3. CASE id = "host.cpu"
  <2>1. w.cpus \in Int
    BY DEF Host
  <2> QED BY <1>3, <2>1, VerdictCases, CPUCases DEF RequiredCPUs
<1>4. CASE id = "host.memory"
  BY <1>4, VerdictCases, MemoryCases DEF RequiredMemory
<1>5. CASE id = "network.interface"
  <2> DEFINE Speed(speed, level) == LinkSpeedVerdict(speed, level)
  <2>1. \A speed : /\ Speed(speed, "minimum") # "fail"
                   /\ Speed(speed, "minimum") = "warn" => Speed(speed, "production") \in {"warn", "fail"}
    BY <1>1, Zenon DEF LinkSpeedVerdict
  <2>2. \A speed, level : Speed(speed, level) \in {"pass", "warn", "fail"}
    BY LinkCases
  <2> DEFINE Both(state, speed, level) == Worst(LinkStateVerdict(state), LinkSpeedVerdict(speed, level))
  <2>3. ASSUME NEW a \in {"pass", "warn", "fail"}, NEW b \in {"pass", "warn", "fail"},
               NEW c \in {"pass", "warn", "fail"},
               b # "fail", b = "warn" => c \in {"warn", "fail"}
        PROVE  /\ Worst(a, b) = "fail" => Worst(a, c) = "fail"
               /\ Worst(a, b) = "warn" => Worst(a, c) \in {"warn", "fail"}
    BY <2>3, WorstCases
  <2>4. \A state, speed :
          /\ Both(state, speed, "minimum") = "fail" => Both(state, speed, "production") = "fail"
          /\ Both(state, speed, "minimum") = "warn" => Both(state, speed, "production") \in {"warn", "fail"}
    <3> TAKE state, speed
    <3>1. LinkStateVerdict(state) \in {"pass", "warn", "fail"}
      BY LinkCases
    <3> QED BY <2>1, <2>2, <2>3, <3>1
  <2>5. \A explicit, found, link :
          /\ NetworkCheck(explicit, found, link, "minimum") = "fail" =>
               NetworkCheck(explicit, found, link, "production") = "fail"
          /\ NetworkCheck(explicit, found, link, "minimum") = "warn" =>
               NetworkCheck(explicit, found, link, "production") \in {"warn", "fail"}
    BY <2>4, NetworkCases, Zenon
  <2>6. /\ Network("minimum", w) = "fail" => Network("production", w) = "fail"
        /\ Network("minimum", w) = "warn" => Network("production", w) \in {"warn", "fail"}
    BY <2>5, Zenon DEF Network
  <2> QED BY <1>5, <2>6, VerdictCases
<1>6. CASE id = "time.sync"
  <2>1. /\ TimeCheck(w.time, "minimum") = "fail" => TimeCheck(w.time, "production") = "fail"
        /\ TimeCheck(w.time, "minimum") = "warn" => TimeCheck(w.time, "production") \in {"warn", "fail"}
    BY <1>1, Zenon DEF TimeCheck
  <2> QED BY <1>6, <2>1, VerdictCases
<1>7. CASE id = "limits.nofile"
  <2>1. /\ NofileCheck(w.nofile, "minimum") # "fail"
        /\ NofileCheck(w.nofile, "minimum") = "warn" => NofileCheck(w.nofile, "production") \in {"warn", "fail"}
    BY <1>1, NofileCases, Zenon
  <2> QED BY <1>7, <2>1, VerdictCases
<1>8. CASE id = "config.node_size"
  <2>1. \A level : Verdict(id, level, mem, disk, w) = NodeSizeCheck(config, Lower, level, mem)
    BY <1>8, VerdictCases
  <2>2. Verdict("host.memory", "production", mem, disk, w) = MemoryCheck(mem, "production")
    BY VerdictCases
  <2>3. mem # Unknown /\ mem < 32 => MemoryCheck(mem, "production") = "fail"
    BY MemoryCases DEF RequiredMemory
  <2> DEFINE size == Lower[config.facts.nodeSize]
             AtMinimum == NodeSizeCheck(config, Lower, "minimum", mem)
             AtProduction == NodeSizeCheck(config, Lower, "production", mem)
  <2>4. AtMinimum = "fail" => AtProduction = "fail"
    BY NodeSizeCases DEF NodeSizeMinimum
  <2>5. AtMinimum = "warn" => size = "large" \/ (mem # Unknown /\ mem < 32)
    BY NodeSizeCases DEF NodeSizeMinimum
  <2>6. AtMinimum = "warn" /\ size = "large" => AtProduction = "warn"
    BY NodeSizeCases
  <2> QED BY <1>8, <2>1, <2>2, <2>3, <2>4, <2>5, <2>6
<1>9. CASE id \notin {"host.arch", "host.cpu", "host.memory", "network.interface", "time.sync",
                      "limits.nofile", "config.node_size"}
  <2>1. Verdict(id, "minimum", mem, disk, w) = Verdict(id, "production", mem, disk, w)
    BY <1>9, VerdictCases DEF Ids
  <2> QED BY <2>1
<1> QED BY <1>2, <1>3, <1>4, <1>5, <1>6, <1>7, <1>8, <1>9

\* An interface that was asked for has a name.
InterfaceIsNamed == Given(args.iface) => args.iface \in Interfaces /\ args.iface # ""

\* An answer that is an error fails no check that the answer itself passed, but for
\* the interface that was asked for by name.
LEMMA BlindFails ==
  ASSUME NEW id \in Ids, NEW level, NEW mem \in Int, NEW w \in Host,
         NEW disk \in StorageInfo, InterfaceIsNamed,
         Verdict(id, level, mem, disk, w) # "fail"
  PROVE  Verdict(id, level, Unknown, [disk EXCEPT !.ok = FALSE], Blind(w)) = "fail"
           <=> id = "network.interface" /\ Given(args.iface)
<1>1. /\ Blind(w).cpus = Unknown /\ Blind(w).route = "" /\ Blind(w).time = "unknown"
      /\ ~Blind(w).nofile.verified /\ Blind(w).os = w.os /\ Blind(w).arch = w.arch
      /\ Blind(w).links = NoLinks /\ Blind(w).file.mode = "error"
  BY DEF Blind, Host
<1>2. SUFFICES ASSUME NEW nodisk, ~nodisk.ok, NEW blind,
                      blind.cpus = Unknown, blind.route = "", blind.time = "unknown",
                      ~blind.nofile.verified, blind.os = w.os, blind.arch = w.arch,
                      blind.links = NoLinks, blind.file.mode = "error"
               PROVE  Verdict(id, level, Unknown, nodisk, blind) = "fail"
                        <=> id = "network.interface" /\ Given(args.iface)
  BY <1>1 DEF StorageInfo
<1> DEFINE before == Verdict(id, level, mem, disk, w)
           after == Verdict(id, level, Unknown, nodisk, blind)
<1>12. before # "fail"
  OBVIOUS
<1>13. CASE id = "network.interface" /\ Given(args.iface)
  <2>1. args.iface \in Interfaces /\ args.iface # ""
    BY <1>13, Zenon DEF InterfaceIsNamed
  <2>2. ~blind.links[args.iface].ok
    <3>1. \A name \in Interfaces : ~NoLinks[name].ok
      BY DEF NoLinks
    <3> QED BY <1>2, <2>1, <3>1, Zenon
  <2>3. Network(level, blind) = "fail"
    BY <1>13, <2>1, <2>2, NetworkCases, Zenon DEF Network
  <2> QED BY <1>13, <2>3, VerdictCases
<1>14. SUFFICES ASSUME ~(id = "network.interface" /\ Given(args.iface))
                PROVE  after # "fail"
  BY <1>13, Zenon
<1>3. CASE id \in {"host.os", "host.arch"}
  <2>1. /\ Verdict("host.os", level, Unknown, nodisk, blind) = OSCheck(blind.os)
        /\ Verdict("host.arch", level, Unknown, nodisk, blind) = ArchCheck(blind.arch, level)
        /\ Verdict("host.os", level, mem, disk, w) = OSCheck(w.os)
        /\ Verdict("host.arch", level, mem, disk, w) = ArchCheck(w.arch, level)
    BY VerdictCases
  <2> QED BY <1>2, <1>3, <1>12, <2>1, Zenon
<1>4. CASE id \in {"host.cpu", "host.memory"}
  BY <1>2, <1>4, VerdictCases, CPUCases, MemoryCases
<1>5. CASE id \in {"storage.capacity", "storage.media"}
  BY <1>2, <1>5, VerdictCases, CapacityCases, MediaCases
<1>6. CASE id = "network.interface"
  <2>1. Network(level, blind) = "warn"
    BY <1>2, <1>6, <1>14, NetworkCases, Zenon DEF Network
  <2> QED BY <1>6, <2>1, VerdictCases
<1>7. CASE id = "time.sync"
  <2>1. TimeCheck("unknown", level) = "warn"
    BY Zenon DEF TimeCheck
  <2>2. Verdict("time.sync", level, Unknown, nodisk, blind) = TimeCheck(blind.time, level)
    BY VerdictCases
  <2> QED BY <1>2, <1>7, <2>1, <2>2, Zenon
<1>8. CASE id \in {"limits.nofile", "xrpld.binary"}
  <2>1. NofileCheck(blind.nofile, level) = "warn"
    BY <1>2, NofileCases, Zenon
  <2>2. BinaryCheck(blind.binary) # "fail"
    BY OtherAnswers
  <2> QED BY <1>8, <2>1, <2>2, VerdictCases
<1>9. CASE id = "config.node_size"
  <2> DEFINE Size(m) == NodeSizeCheck(config, Lower, level, m)
  <2>1. Size(Unknown) = "fail" => Size(mem) = "fail"
    BY NodeSizeCases DEF NodeSizeMinimum
  <2>2. /\ Verdict(id, level, Unknown, nodisk, blind) = Size(Unknown)
        /\ Verdict(id, level, mem, disk, w) = Size(mem)
    BY <1>9, VerdictCases
  <2> QED BY <1>12, <2>1, <2>2
<1>10. CASE id = "validator.config_mode"
  <2>1. Verdict(id, level, Unknown, nodisk, blind) = ConfigModeCheck(config, blind.file.mode)
    BY <1>10, VerdictCases
  <2>2. ConfigModeCheck(config, blind.file.mode) \in {"skip", "warn"}
    BY <1>2, Zenon DEF ConfigModeCheck
  <2> QED BY <2>1, <2>2
<1>11. CASE id \in {"storage.target", "config.file", "config.node_db", "config.peer_port",
                    "validator.config", "validator.credentials", "validator.legacy_seed",
                    "validator.api_bind"}
  <2>1. Verdict(id, level, Unknown, nodisk, blind) = Verdict(id, level, mem, disk, w)
    BY <1>11, VerdictCases
  <2> QED BY <1>12, <2>1
<1> QED BY <1>3, <1>4, <1>5, <1>6, <1>7, <1>8, <1>9, <1>10, <1>11 DEF Ids

-----------------------------------------------------------------------------
(* The order of the checks                                                 *)

\* A sequence followed by another one begins with the first.
LEMMA Appending ==
  ASSUME NEW S, NEW s \in Seq(S), NEW t \in Seq(S)
  PROVE  /\ s \o t \in Seq(S) /\ Len(s \o t) = Len(s) + Len(t)
         /\ \A i \in 1 .. Len(s) : (s \o t)[i] = s[i]
OBVIOUS

\* Both orders are made of known checks and begin with those of a node.
LEMMA Order ==
  ASSUME NEW role
  PROVE  /\ CheckOrder(role) \in Seq(Ids)
         /\ Len(CheckOrder(role)) >= 15
         /\ \A i \in 1 .. 15 : CheckOrder(role)[i] = NodeChecks[i]
<1>1. NodeChecks \in Seq(Ids) /\ Len(NodeChecks) = 15
  BY DEF NodeChecks, Ids
<1>2. ValidatorChecks \in Seq(Ids) /\ Len(ValidatorChecks) = 5
  BY DEF ValidatorChecks, Ids
<1> DEFINE all == NodeChecks \o ValidatorChecks
<1>3. /\ all \in Seq(Ids) /\ Len(all) = Len(NodeChecks) + Len(ValidatorChecks)
      /\ \A i \in 1 .. Len(NodeChecks) : all[i] = NodeChecks[i]
  BY <1>1, <1>2, Appending, Zenon
<1>6. CheckOrder(role) = NodeChecks \/ CheckOrder(role) = all
  BY Zenon DEF CheckOrder
<1>7. CASE CheckOrder(role) = NodeChecks
  <2>1. NodeChecks \in Seq(Ids) /\ Len(NodeChecks) >= 15 /\ \A i \in 1 .. 15 : NodeChecks[i] = NodeChecks[i]
    BY <1>1
  <2> QED BY <1>7, <2>1, Zenon
<1>8. CASE CheckOrder(role) = all
  <2> HIDE DEF all
  <2>1. all \in Seq(Ids) /\ Len(all) >= 15 /\ \A i \in 1 .. 15 : all[i] = NodeChecks[i]
    BY <1>1, <1>2, <1>3
  <2> QED BY <1>8, <2>1, Zenon
<1> QED BY <1>6, <1>7, <1>8

\* The orders name every check there is and no other.
LEMMA CheckIdsAre == CheckIds = Ids
<1>1. Ids \subseteq CheckIds
  <2>1. \A i \in 1 .. 15 : NodeChecks[i] \in CheckIds
    BY DEF CheckIds, NodeChecks
  <2>2. \A i \in 1 .. 5 : ValidatorChecks[i] \in CheckIds
    BY DEF CheckIds, ValidatorChecks
  <2> QED BY <2>1, <2>2 DEF Ids, NodeChecks, ValidatorChecks
<1>2. CheckIds \subseteq Ids
  BY DEF CheckIds, NodeChecks, ValidatorChecks, Ids
<1> QED BY <1>1, <1>2

-----------------------------------------------------------------------------
(* The command line and the report                                         *)

\* A command line is accepted exactly when nothing is wrong with it, and what
\* is named is wrong.
LEMMA UsageErrorsAreFaults ==
  /\ UsageErrors = {} <=> ArgsAccepted
  /\ \A what \in UsageErrors : what # "none" /\ (what \in EmptyFlags \/ Wrong(what))
<1> DEFINE wrong == {i \in DOMAIN ArgOrder : Wrong(ArgOrder[i])}
<1>1. /\ Wrong("missing command") <=> args.command = ""
      /\ Wrong("unknown command") <=> args.command # "check"
      /\ Wrong("flags") <=> ~args.parses
      /\ Wrong("argument") <=> args.extra
      /\ Wrong("role") <=> Role \notin {"node", "validator"}
      /\ Wrong("level") <=> Level \notin {"production", "minimum"}
      /\ Wrong("format") <=> args.format \notin {"text", "json"}
  BY Zenon DEF Wrong
<1>2. DOMAIN ArgOrder = 1 .. 7
  BY DEF ArgOrder
<1>3. /\ ArgOrder[1] = "missing command" /\ ArgOrder[2] = "unknown command"
      /\ ArgOrder[3] = "flags" /\ ArgOrder[4] = "argument" /\ ArgOrder[5] = "role"
      /\ ArgOrder[6] = "level" /\ ArgOrder[7] = "format"
  BY DEF ArgOrder
<1>4. wrong = {} <=> ArgsAccepted \/ (wrong = {} /\ EmptyFlags # {})
  <2>1. wrong = {} <=> \A i \in 1 .. 7 : ~Wrong(ArgOrder[i])
    BY <1>2
  <2>2. (\A i \in 1 .. 7 : ~Wrong(ArgOrder[i]))
          <=> /\ ~Wrong(ArgOrder[1]) /\ ~Wrong(ArgOrder[2]) /\ ~Wrong(ArgOrder[3])
              /\ ~Wrong(ArgOrder[4]) /\ ~Wrong(ArgOrder[5]) /\ ~Wrong(ArgOrder[6])
              /\ ~Wrong(ArgOrder[7])
    <3>1. \A i \in 1 .. 7 : i = 1 \/ i = 2 \/ i = 3 \/ i = 4 \/ i = 5 \/ i = 6 \/ i = 7
      OBVIOUS
    <3> QED BY <3>1
  <2> QED BY <1>1, <1>3, <2>1, <2>2, Zenon DEF ArgsAccepted
<1>5. CASE wrong = {}
  <2>1. UsageErrors = EmptyFlags
    BY <1>5, Zenon DEF UsageErrors
  <2>2. ArgsAccepted <=> EmptyFlags = {}
    BY <1>4, <1>5 DEF ArgsAccepted
  <2> QED BY <2>1, <2>2 DEF EmptyFlags
<1>6. CASE wrong # {}
  <2>1. PICK i \in wrong : \A j \in wrong : i <= j
    <3>1. wrong \subseteq Nat
      BY <1>2
    <3> QED BY <1>2, <1>6, SMTT(30)
  <2> DEFINE first == CHOOSE k \in wrong : \A j \in wrong : k <= j
  <2>2. first \in wrong
    BY <2>1, Zenon
  <2>3. UsageErrors = {ArgOrder[first]}
    BY <1>6, Zenon DEF UsageErrors
  <2>4. Wrong(ArgOrder[first]) /\ first \in 1 .. 7
    BY <1>2, <2>2
  <2>5. ArgOrder[first] # "none"
    <3>1. \/ first = 1 \/ first = 2 \/ first = 3 \/ first = 4
          \/ first = 5 \/ first = 6 \/ first = 7
      BY <2>4
    <3> HIDE DEF first
    <3> QED BY <1>3, <3>1
  <2>6. ~ArgsAccepted
    BY <1>4, <1>6
  <2> QED BY <2>3, <2>4, <2>5, <2>6, Zenon
<1> QED BY <1>5, <1>6

\* The counters count: one is positive exactly when a check has its status.
LEMMA Counting ==
  ASSUME NEW cs, IsFiniteSet(DOMAIN cs), NEW s
  PROVE  /\ Count(cs, s) \in Nat
         /\ Count(cs, s) > 0 <=> \E i \in DOMAIN cs : cs[i].status = s
<1> DEFINE S == {i \in DOMAIN cs : cs[i].status = s}
<1>1. IsFiniteSet(S)
  BY FS_Subset
<1>2. Cardinality(S) \in Nat /\ (Cardinality(S) = 0 <=> S = {})
  BY <1>1, FS_CardinalityType, FS_EmptySet
<1>3. Count(cs, s) = Cardinality(S)
  BY DEF Count
<1> QED BY <1>2, <1>3

\* A report has the shape of one.
LEMMA ReportType ==
  ASSUME NEW cs \in Checks
  PROVE  NewReport(cs) \in Reports /\ [NewReport(cs) EXCEPT !.result = "none"] \in Reports
<1> DEFINE S == [id : CheckIds, status : Statuses]
           summary == [s \in DOMAIN Rank |-> Count(cs, s)]
           Results == {"none", "ready", "ready_with_warnings", "not_ready"}
<1>1. DOMAIN cs = 1 .. Len(cs) /\ Len(cs) \in Nat
  <2> HIDE DEF S
  <2>1. cs \in Seq(S)
    BY DEF Checks, S
  <2> QED BY <2>1
<1>2. IsFiniteSet(DOMAIN cs)
  BY <1>1, FS_Interval
<1>3. summary \in [Statuses -> Nat]
  BY <1>2, Counting DEF Statuses
<1> HIDE DEF summary
<1> DEFINE result == NewReport(cs).result
<1>4. \E r \in Results : NewReport(cs) = [checks |-> cs, summary |-> summary, result |-> r]
  <2>1. NewReport(cs) = [checks |-> cs, summary |-> summary, result |->
          CASE summary["fail"] > 0 -> "not_ready"
            [] summary["fail"] = 0 /\ summary["warn"] > 0 -> "ready_with_warnings"
            [] OTHER -> "ready"]
    BY DEF NewReport, summary
  <2>2. (CASE summary["fail"] > 0 -> "not_ready"
           [] summary["fail"] = 0 /\ summary["warn"] > 0 -> "ready_with_warnings"
           [] OTHER -> "ready") \in Results
    OBVIOUS
  <2> QED BY <2>1, <2>2, Zenon
<1>5. PICK r \in Results : NewReport(cs) = [checks |-> cs, summary |-> summary, result |-> r]
  BY <1>4
<1>6. [NewReport(cs) EXCEPT !.result = "none"] = [checks |-> cs, summary |-> summary, result |-> "none"]
  BY <1>5
<1>7. \A q \in Results : [checks |-> cs, summary |-> summary, result |-> q] \in Reports
  BY <1>3, Zenon DEF Reports
<1> QED BY <1>5, <1>6, <1>7

\* What NewReport makes of the statuses, and that it is not the missing report.
LEMMA Reporting ==
  ASSUME NEW cs, IsFiniteSet(DOMAIN cs)
  PROVE  LET failed == \E i \in DOMAIN cs : cs[i].status = "fail"
             warned == \E i \in DOMAIN cs : cs[i].status = "warn"
         IN  /\ NewReport(cs).result = IF failed THEN "not_ready"
                                       ELSE IF warned THEN "ready_with_warnings" ELSE "ready"
             /\ NewReport(cs).summary["fail"] \in Nat
             /\ NewReport(cs).summary["fail"] > 0 <=> failed
             /\ NewReport(cs) # NoReport
<1> DEFINE summary == [s \in DOMAIN Rank |-> Count(cs, s)]
<1>1. NewReport(cs).summary = summary
  BY Zenon DEF NewReport
<1>2. summary["fail"] = Count(cs, "fail") /\ summary["warn"] = Count(cs, "warn")
  BY DEF Rank
<1> HIDE DEF summary
<1>3. NewReport(cs).result = IF summary["fail"] > 0 THEN "not_ready"
                             ELSE IF summary["fail"] = 0 /\ summary["warn"] > 0
                             THEN "ready_with_warnings" ELSE "ready"
  BY DEF NewReport, summary
<1>4. NoReport.result = "none"
  BY DEF NoReport, NewReport
<1> QED BY <1>1, <1>2, <1>3, <1>4, Counting

-----------------------------------------------------------------------------
(* The inductive invariant                                                 *)

\* The command line is judged before anything else; one that is refused ends
\* the run there.
Judged ==
  /\ pc = "args" => complaint = "none"
  /\ pc \notin {"args", "exit"} => UsageErrors = {} /\ complaint = "none"
  /\ pc = "exit" => (complaint = "none" <=> UsageErrors = {})
  /\ complaint # "none" => pc = "exit" /\ exit = 2 /\ config = NoConfig /\ report = NoReport
                        /\ ~written

\* What a later step produces is not there before it.
InOrder ==
  /\ pc \in {"args", "config"} => config = NoConfig
  /\ pc \in {"args", "config", "target", "storage", "memory"} => checks = << >>
  /\ pc \notin {"write", "exit"} => report = NoReport
  /\ pc # "exit" => exit = Running /\ ~written

\* The root is the last resort, and a file is supplied when its flag was given.
Resolved ==
  /\ pc \notin {"args", "config", "target"} /\ target.source = "root" /\ config.ok =>
       config.facts.dbPath = ""
  /\ config.ok => config.supplied
  /\ pc \notin {"args", "config"} /\ complaint = "none" =>
       (config.supplied <=> Given(args.config))

\* The checks follow the public order, and each is the verdict on what the run
\* has read and on a state the host had meanwhile: the present one, as long as
\* it has not changed.
Evaluated ==
  /\ Len(checks) <= Len(CheckOrder(Role))
  /\ \A i \in DOMAIN checks :
       /\ checks[i].id = CheckOrder(Role)[i]
       /\ \E w \in Worlds \cup Later :
            /\ changed = 0 => w = world
            /\ checks[i].status = Verdict(checks[i].id, Level, memory, storage, w)

\* The report is that of all the checks, and the exit code that of the report
\* if it was written.
Reported ==
  /\ pc \in {"write", "exit"} /\ complaint = "none" =>
       Len(checks) = Len(CheckOrder(Role)) /\ report = NewReport(checks)
  /\ pc = "exit" /\ complaint = "none" => exit = IF written THEN ExitCode ELSE 2

IInv == TypeOK /\ Judged /\ InOrder /\ Resolved /\ Evaluated /\ Reported

\* The facts of a configuration that was not read are facts.
LEMMA NothingIsFacts == NoFacts \in Facts
<1>1. << >> \in Seq(Listener)
  BY EmptySeq, Zenon
<1> QED BY <1>1, WordsAssumption DEF NoFacts, Facts

\* The invariant holds when the program starts.
LEMMA InitIInv == Init => IInv
<1> SUFFICES ASSUME Init PROVE IInv
  OBVIOUS
<1> USE DEF Init
<1>1. TypeOK
  <2>1. config \in [supplied : BOOLEAN, ok : BOOLEAN, facts : Facts]
    BY NothingIsFacts DEF NoConfig
  <2>2. /\ target \in [path : Paths, source : {"data-dir", "node_db", "root"}]
        /\ storage \in StorageInfo /\ memory \in Int
    BY PathsAssumption DEF StorageInfo, Unknown
  <2>3. checks \in Checks
    BY EmptySeq DEF Checks
  <2>4. report \in Reports /\ written \in BOOLEAN
    BY <2>3, ReportType DEF NoReport
  <2> QED BY <2>1, <2>2, <2>3, <2>4, ChangesAssumption DEF TypeOK, Running
<1>2. Judged /\ InOrder /\ Resolved /\ Reported
  BY DEF Judged, InOrder, Resolved, Reported, NoConfig
<1>3. Evaluated
  BY Order DEF Evaluated
<1> QED BY <1>1, <1>2, <1>3 DEF IInv

\* The command line is never touched, and so neither are its faults nor what
\* the run takes from it.
LEMMA SameArgs ==
  ASSUME [Next]_vars
  PROVE  /\ args' = args /\ UsageErrors' = UsageErrors /\ Role' = Role /\ Level' = Level
         /\ \A role : CheckOrder(role)' = CheckOrder(role)
<1>1. args' = args
  BY DEF vars, cli, Next, Step, ParseArgs, ReadConfig, ResolveStorageTarget, ProbeStorage,
     ProbeMemory, EvaluateCheck, AssembleReport, Write, WriteFails, WorldChanges
<1>2. Role' = Role /\ Level' = Level /\ EmptyFlags' = EmptyFlags
  BY <1>1, Zenon DEF Role, Level, EmptyFlags
<1>3. \A what : Wrong(what)' = Wrong(what)
  BY <1>1, <1>2, Zenon DEF Wrong
<1>4. UsageErrors' = UsageErrors
  BY <1>2, <1>3, Zenon DEF UsageErrors
<1> QED BY <1>1, <1>2, <1>4

\* Each step keeps the types.
LEMMA NextTypeOK ==
  ASSUME IInv, [Next]_vars
  PROVE  TypeOK'
<1> USE DEF IInv
<1>1. args' = args /\ UsageErrors' = UsageErrors
  BY SameArgs
<1>2. CASE ParseArgs
  BY <1>1, <1>2 DEF ParseArgs, TypeOK
<1>3. CASE ReadConfig
  <2>1. world.file.facts \in Facts
    BY WorldsAssumption DEF TypeOK, Host
  <2>2. \/ config' = NoConfig
        \/ config' = [supplied |-> TRUE, ok |-> TRUE, facts |-> world.file.facts]
        \/ config' = [supplied |-> TRUE, ok |-> FALSE, facts |-> NoFacts]
    BY <1>3, Zenon DEF ReadConfig
  <2> DEFINE S == [supplied : BOOLEAN, ok : BOOLEAN, facts : Facts]
  <2>3. \A a \in BOOLEAN, b \in BOOLEAN, f \in Facts : [supplied |-> a, ok |-> b, facts |-> f] \in S
    OBVIOUS
  <2> HIDE DEF S
  <2>4. NoConfig \in S
    BY <2>3, NothingIsFacts, Zenon DEF NoConfig
  <2>5. config' \in S
    BY <2>1, <2>2, <2>3, <2>4, NothingIsFacts, Zenon
  <2> QED BY <1>1, <1>3, <2>5 DEF ReadConfig, TypeOK, cli, S
<1>4. CASE ResolveStorageTarget
  <2>1. args.dataDir # ""
    <3>1. EmptyFlags = {}
      BY <1>4, UsageErrorsAreFaults DEF Judged, ResolveStorageTarget, ArgsAccepted
    <3> QED BY <3>1 DEF EmptyFlags
  <2>2. Given(args.dataDir) => args.dataDir \in Paths
    BY <2>1, ArgsAssumption DEF TypeOK, Given
  <2>3. config.facts.dbPath # "" => config.facts.dbPath \in Paths
    BY DEF TypeOK, Facts
  <2>4. \/ Given(args.dataDir) /\ target' = [path |-> args.dataDir, source |-> "data-dir"]
        \/ config.facts.dbPath # "" /\ target' = [path |-> config.facts.dbPath, source |-> "node_db"]
        \/ target' = [path |-> "/", source |-> "root"]
    BY <1>4, Zenon DEF ResolveStorageTarget
  <2> DEFINE S == [path : Paths, source : {"data-dir", "node_db", "root"}]
  <2>5. \A path \in Paths : \A source \in {"data-dir", "node_db", "root"} :
          [path |-> path, source |-> source] \in S
    OBVIOUS
  <2> HIDE DEF S
  <2>6. target' \in S
    BY <2>2, <2>3, <2>4, <2>5, PathsAssumption, Zenon
  <2> QED BY <1>1, <1>4, <2>6 DEF ResolveStorageTarget, TypeOK, cli, S
<1>5. CASE ProbeStorage
  <2>1. world.storage[target.path] \in StorageInfo
    BY WorldsAssumption DEF TypeOK, Host
  <2> QED BY <1>1, <1>5, <2>1 DEF ProbeStorage, TypeOK, cli
<1>6. CASE ProbeMemory
  <2>1. world.memory \in Int
    BY WorldsAssumption DEF TypeOK, Host
  <2> QED BY <1>1, <1>6, <2>1 DEF ProbeMemory, TypeOK, cli
<1>7. CASE EvaluateCheck
  <2> DEFINE id == CheckOrder(Role)[Len(checks) + 1]
             answer == [id |-> id, status |-> Verdict(id, Level, memory, storage, world)]
             S == [id : CheckIds, status : Statuses]
  <2>1. id \in Ids
    BY <1>7, Order DEF EvaluateCheck, TypeOK, Checks
  <2>2. answer \in S
    BY <2>1, VerdictType, CheckIdsAre, Zenon
  <2>3. checks' = Append(checks, answer) /\ checks \in Seq(S)
    BY <1>7 DEF EvaluateCheck, TypeOK, Checks
  <2> HIDE DEF answer, S
  <2>4. checks' \in Seq(S)
    BY <2>2, <2>3
  <2> QED BY <1>1, <1>7, <2>4 DEF EvaluateCheck, TypeOK, Checks, cli, S
<1>8. CASE AssembleReport
  <2>1. report' \in Reports
    BY <1>8, ReportType DEF AssembleReport, TypeOK
  <2> QED BY <1>1, <1>8, <2>1 DEF AssembleReport, TypeOK, cli
<1>11. CASE Write \/ WriteFails
  BY <1>1, <1>11 DEF Write, WriteFails, ExitCode, TypeOK, cli
<1>9. CASE WorldChanges
  BY <1>1, <1>9, ChangesAssumption DEF WorldChanges, TypeOK, cli
<1>10. CASE UNCHANGED vars
  BY <1>1, <1>10 DEF vars, TypeOK, cli
<1> QED
  BY <1>2, <1>3, <1>4, <1>5, <1>6, <1>7, <1>8, <1>9, <1>10, <1>11 DEF Next, Step

\* Each step keeps the order, and only the first one refuses.
LEMMA NextJudged ==
  ASSUME IInv, [Next]_vars
  PROVE  Judged' /\ InOrder'
<1>1. UsageErrors' = UsageErrors /\ \A what \in UsageErrors : what # "none"
  BY SameArgs, UsageErrorsAreFaults
<1>2. CASE ParseArgs
  <2>1. /\ config = NoConfig /\ report = NoReport /\ checks = << >> /\ ~written
        /\ exit = Running /\ complaint = "none"
    BY <1>2 DEF ParseArgs, IInv, Judged, InOrder
  <2>2. CASE UsageErrors = {}
    BY <1>1, <1>2, <2>1, <2>2 DEF ParseArgs, Judged, InOrder
  <2>3. CASE UsageErrors # {}
    BY <1>1, <1>2, <2>1, <2>3 DEF ParseArgs, Judged, InOrder
  <2> QED BY <2>2, <2>3
<1>3. CASE ReadConfig \/ ResolveStorageTarget
  <2>1. /\ pc' \notin {"args", "config", "write", "exit"} /\ checks = << >>
        /\ UsageErrors = {} /\ complaint = "none" /\ report = NoReport
        /\ exit = Running /\ ~written
    BY <1>3 DEF IInv, Judged, InOrder, ReadConfig, ResolveStorageTarget
  <2>2. UNCHANGED <<cli, checks, report, written, exit>>
    BY <1>3, Zenon DEF ReadConfig, ResolveStorageTarget
  <2> QED BY <1>1, <2>1, <2>2 DEF Judged, InOrder, cli
<1>7. CASE ProbeStorage \/ ProbeMemory \/ EvaluateCheck
  BY <1>1, <1>7 DEF IInv, Judged, InOrder, ProbeStorage, ProbeMemory, EvaluateCheck, cli
<1>4. CASE AssembleReport
  BY <1>1, <1>4 DEF IInv, Judged, InOrder, AssembleReport, cli
<1>5. CASE Write \/ WriteFails
  BY <1>1, <1>5 DEF IInv, Judged, InOrder, Write, WriteFails, cli
<1>6. CASE WorldChanges \/ UNCHANGED vars
  BY <1>1, <1>6 DEF IInv, Judged, InOrder, WorldChanges, vars, cli
<1> QED BY <1>2, <1>3, <1>4, <1>5, <1>6, <1>7 DEF Next, Step

\* The target is resolved once, after the configuration was read.
LEMMA NextResolved ==
  ASSUME IInv, [Next]_vars
  PROVE  Resolved'
<1> USE DEF IInv
<1>1. CASE ParseArgs
  <2>1. ~config.ok
    BY <1>1 DEF ParseArgs, InOrder, NoConfig
  <2>2. pc' = "config" \/ complaint' # "none"
    BY <1>1, UsageErrorsAreFaults DEF ParseArgs
  <2> QED BY <1>1, <2>1, <2>2 DEF ParseArgs, Resolved
<1>2. CASE ReadConfig
  <2>1. config'.ok => config'.supplied
    BY <1>2, Zenon DEF ReadConfig, NoConfig
  <2>2. config'.supplied <=> Given(args.config)
    BY <1>2, Zenon DEF ReadConfig, NoConfig
  <2>3. Given(args.config)' <=> Given(args.config)
    BY <1>2 DEF ReadConfig, cli, Given
  <2> QED BY <1>2, <2>1, <2>2, <2>3 DEF ReadConfig, Resolved
<1>3. CASE ResolveStorageTarget
  <2>1. \/ target'.source = "data-dir" \/ target'.source = "node_db"
        \/ ~Given(args.dataDir) /\ ~(config.ok /\ config.facts.dbPath # "")
    BY <1>3, Zenon DEF ResolveStorageTarget
  <2> QED BY <1>3, <2>1 DEF ResolveStorageTarget, Resolved, cli, Given
<1>4. CASE \/ ProbeStorage \/ ProbeMemory \/ EvaluateCheck \/ AssembleReport \/ Write \/ WriteFails
           \/ WorldChanges \/ UNCHANGED vars
  BY <1>4 DEF Resolved, ProbeStorage, ProbeMemory, EvaluateCheck, AssembleReport, Write, WriteFails,
     WorldChanges, vars, cli, Given
<1> QED BY <1>1, <1>2, <1>3, <1>4 DEF Next, Step

\* A new check is the verdict on the host as it is, the others stay witnessed.
LEMMA NextEvaluated ==
  ASSUME IInv, [Next]_vars
  PROVE  Evaluated'
<1> USE DEF IInv
<1> DEFINE Witnessed(c, ch, w0) ==
      \E w \in Worlds \cup Later :
        (ch = 0 => w = w0) /\ c.status = Verdict(c.id, Level, memory, storage, w)
<1>1. Role' = Role /\ Level' = Level /\ CheckOrder(Role)' = CheckOrder(Role)
  BY SameArgs, Zenon
<1>2. CASE checks' = << >>
  BY <1>1, <1>2, Order DEF Evaluated
<1>3. ASSUME UNCHANGED <<args, config, target, memory, storage>>
      PROVE  \A id, w : Verdict(id, Level, memory, storage, w)' = Verdict(id, Level, memory, storage, w)
  BY <1>1, <1>3, Stable, Zenon
<1>4. CASE EvaluateCheck
  <2> DEFINE id == CheckOrder(Role)[Len(checks) + 1]
             answer == [id |-> id, status |-> Verdict(id, Level, memory, storage, world)]
  <2>1. checks' = Append(checks, answer) /\ Len(checks) < Len(CheckOrder(Role))
    BY <1>4 DEF EvaluateCheck
  <2>2. /\ UNCHANGED <<args, config, target, memory, storage>>
        /\ world' = world /\ changed' = changed
    BY <1>4 DEF EvaluateCheck, cli
  <2>3. answer.id = id /\ answer.status = Verdict(id, Level, memory, storage, world)
    OBVIOUS
  <2> HIDE DEF answer, id
  <2>4. Len(checks) \in Nat /\ DOMAIN checks = 1 .. Len(checks)
    BY DEF TypeOK, Checks
  <2>5. /\ Len(checks') = Len(checks) + 1
        /\ \A i \in 1 .. Len(checks) : checks'[i] = checks[i]
        /\ checks'[Len(checks) + 1] = answer
    BY <2>1, <2>4 DEF TypeOK, Checks
  <2>6. checks' \in Seq([id : CheckIds, status : Statuses])
    BY NextTypeOK DEF TypeOK, Checks
  <2>7. DOMAIN checks' = 1 .. Len(checks) + 1
    BY <2>5, <2>6
  <2>8. \A i \in DOMAIN checks' : i \in DOMAIN checks \/ i = Len(checks) + 1
    BY <2>4, <2>7
  <2>9. ASSUME NEW i \in DOMAIN checks'
        PROVE  checks'[i].id = CheckOrder(Role)[i] /\ Witnessed(checks'[i], changed, world)
    <3>1. CASE i \in DOMAIN checks
      BY <2>4, <2>5, <3>1 DEF Evaluated
    <3>2. CASE i = Len(checks) + 1
      BY <2>3, <2>5, <3>2 DEF TypeOK, id
    <3> QED BY <2>8, <2>9, <3>1, <3>2
  <2>10. Len(checks') <= Len(CheckOrder(Role))
    BY <2>1, <2>4, <2>5, Order
  <2>11. ASSUME NEW i \in DOMAIN checks'
         PROVE  \E w \in Worlds \cup Later :
                  /\ changed' = 0 => w = world'
                  /\ checks'[i].status = Verdict(checks[i].id, Level, memory, storage, w)'
    BY <1>1, <1>3, <2>2, <2>9, <2>11, Zenon
  <2> QED BY <1>1, <2>9, <2>10, <2>11, Zenon DEF Evaluated
<1>5. ASSUME UNCHANGED <<args, config, target, memory, storage, checks>>,
             changed' = 0 => changed = 0 /\ world' = world
      PROVE  Evaluated'
  <2>1. checks' = checks
    BY <1>5
  <2>2. Len(checks') <= Len(CheckOrder(Role)')
    BY <1>1, <2>1, Zenon DEF Evaluated
  <2>3. ASSUME NEW i \in DOMAIN checks'
        PROVE  /\ checks'[i].id = CheckOrder(Role)'[i]
               /\ \E w \in Worlds \cup Later :
                    /\ changed' = 0 => w = world'
                    /\ checks'[i].status = Verdict(checks[i].id, Level, memory, storage, w)'
    <3>1. /\ checks[i].id = CheckOrder(Role)[i]
          /\ \E w \in Worlds \cup Later :
               /\ changed = 0 => w = world
               /\ checks[i].status = Verdict(checks[i].id, Level, memory, storage, w)
      BY <2>1, <2>3, Zenon DEF Evaluated
    <3>2. \A w : Verdict(checks[i].id, Level, memory, storage, w)'
                   = Verdict(checks[i].id, Level, memory, storage, w)
      BY <1>3, <1>5, <2>1, Zenon
    <3> QED BY <1>1, <1>5, <2>1, <3>1, <3>2, Zenon
  <2> QED BY <2>2, <2>3, Zenon DEF Evaluated
<1>6. CASE AssembleReport \/ Write \/ WriteFails \/ WorldChanges \/ UNCHANGED vars
  BY <1>5, <1>6, ChangesAssumption DEF AssembleReport, Write, WriteFails, WorldChanges, TypeOK, vars, cli
<1>7. CASE ParseArgs \/ ReadConfig \/ ResolveStorageTarget \/ ProbeStorage \/ ProbeMemory
  BY <1>2, <1>7 DEF ParseArgs, ReadConfig, ResolveStorageTarget, ProbeStorage, ProbeMemory, InOrder
<1> QED BY <1>4, <1>6, <1>7 DEF Next, Step

\* The report is assembled of all the checks, and stays.
LEMMA NextReported ==
  ASSUME IInv, [Next]_vars
  PROVE  Reported'
<1> USE DEF IInv
<1>1. CheckOrder(Role)' = CheckOrder(Role)
  BY SameArgs, Zenon
<1>2. report' = report => ExitCode' = ExitCode
  BY DEF ExitCode
<1>3. CASE ParseArgs
  BY <1>3, UsageErrorsAreFaults DEF ParseArgs, Reported
<1>4. CASE AssembleReport
  BY <1>1, <1>4 DEF AssembleReport, Reported, cli
<1>5. CASE Write
  <2>1. /\ report = NewReport(checks) /\ Len(checks) = Len(CheckOrder(Role))
        /\ complaint = "none"
    BY <1>5 DEF Write, Reported, InOrder, Judged
  <2> QED BY <1>1, <1>2, <1>5, <2>1 DEF Write, Reported, cli
<1>8. CASE WriteFails
  <2>1. /\ report = NewReport(checks) /\ Len(checks) = Len(CheckOrder(Role))
        /\ complaint = "none" /\ ~written
    BY <1>8 DEF WriteFails, Reported, InOrder, Judged
  <2> QED BY <1>1, <1>2, <1>8, <2>1 DEF WriteFails, Reported, cli
<1>6. CASE ReadConfig \/ ResolveStorageTarget \/ ProbeStorage \/ ProbeMemory \/ EvaluateCheck
  BY <1>6 DEF ReadConfig, ResolveStorageTarget, ProbeStorage, ProbeMemory, EvaluateCheck, Reported
<1>7. CASE WorldChanges \/ UNCHANGED vars
  BY <1>1, <1>2, <1>7 DEF WorldChanges, vars, cli, Reported
<1> QED BY <1>3, <1>4, <1>5, <1>6, <1>7, <1>8 DEF Next, Step

\* The inductive invariant holds in every reachable state.
THEOREM Invariance == Spec => []IInv
<1>1. IInv /\ [Next]_vars => IInv'
  BY NextTypeOK, NextJudged, NextResolved, NextEvaluated, NextReported DEF IInv
<1> QED BY <1>1, InitIInv, PTL DEF Spec

-----------------------------------------------------------------------------
(* What follows from it                                                    *)

\* A run that is done has a verdict for every check of its order.
LEMMA DoneMeans ==
  ASSUME IInv, Done
  PROVE  /\ complaint = "none" /\ ArgsAccepted
         /\ DOMAIN checks = 1 .. Len(checks) /\ Len(checks) = Len(CheckOrder(Role))
         /\ IsFiniteSet(DOMAIN checks) /\ report = NewReport(checks)
<1>1. pc = "exit" /\ report # NoReport
  BY DEF Done
<1>2. complaint = "none"
  BY <1>1 DEF IInv, Judged
<1>3. ArgsAccepted
  BY <1>1, <1>2, UsageErrorsAreFaults DEF IInv, Judged
<1>4. Len(checks) = Len(CheckOrder(Role)) /\ report = NewReport(checks)
  BY <1>1, <1>2 DEF IInv, Reported
<1>5. DOMAIN checks = 1 .. Len(checks) /\ Len(checks) \in Nat
  BY DEF IInv, TypeOK, Checks
<1>6. IsFiniteSet(1 .. Len(checks))
  BY <1>5, FS_Interval
<1> QED BY <1>2, <1>3, <1>4, <1>5, <1>6

\* What the report says of a check is the verdict on some state of the host.
LEMMA StatusIsVerdict ==
  ASSUME IInv, Done, NEW k \in 1 .. 15
  PROVE  \E w \in Worlds \cup Later :
           StatusOf(NodeChecks[k]) = Verdict(NodeChecks[k], Level, memory, storage, w)
<1> DEFINE id == NodeChecks[k]
           all == {checks[i] : i \in DOMAIN checks}
           c == CHOOSE c \in all : c.id = id
<1>1. k \in DOMAIN checks /\ CheckOrder(Role)[k] = id
  <2>1. DOMAIN checks = 1 .. Len(checks) /\ Len(checks) = Len(CheckOrder(Role))
    BY DoneMeans
  <2>2. /\ CheckOrder(Role) \in Seq(Ids) /\ Len(CheckOrder(Role)) >= 15
        /\ CheckOrder(Role)[k] = NodeChecks[k]
    BY Order, Zenon
  <2>3. Len(CheckOrder(Role)) \in Nat
    BY <2>2
  <2> QED BY <2>1, <2>2, <2>3
<1>2. checks[k] \in all /\ checks[k].id = id
  BY <1>1 DEF IInv, Evaluated
<1>3. c \in all /\ c.id = id
  BY <1>2, Zenon
<1>4. PICK j \in DOMAIN checks : c = checks[j]
  BY <1>3
<1>5. StatusOf(id) = c.status
  BY Zenon DEF StatusOf
<1>6. \E w \in Worlds \cup Later : checks[j].status = Verdict(checks[j].id, Level, memory, storage, w)
  BY DEF IInv, Evaluated
<1> QED BY <1>3, <1>4, <1>5, <1>6, Zenon

\* Where the checks that are looked up by name stand.
LEMMA Positions ==
  /\ NodeChecks[4] = "host.memory" /\ NodeChecks[5] = "storage.target"
  /\ NodeChecks[6] = "storage.capacity" /\ NodeChecks[7] = "storage.media"
  /\ NodeChecks[12] = "config.file" /\ NodeChecks[13] = "config.node_size"
  /\ NodeChecks[14] = "config.node_db"
BY DEF NodeChecks

\* The verdicts that do not look at the host once the run has its readings.
LEMMA KnownStatuses ==
  ASSUME IInv, Done
  PROVE  /\ StatusOf("host.memory") = MemoryCheck(memory, Level)
         /\ StatusOf("storage.target") = StorageTargetCheck(target)
         /\ StatusOf("storage.capacity") = StorageCapacityCheck(storage)
         /\ StatusOf("storage.media") = StorageMediaCheck(storage)
         /\ StatusOf("config.file") = ConfigFileCheck(config)
         /\ StatusOf("config.node_size") = NodeSizeCheck(config, Lower, Level, memory)
         /\ StatusOf("config.node_db") = NodeDBCheck(config, Lower)
<1>1. \A k \in 1 .. 15 : \E w :
        StatusOf(NodeChecks[k]) = Verdict(NodeChecks[k], Level, memory, storage, w)
  BY StatusIsVerdict, Zenon
<1>2. /\ 4 \in 1 .. 15 /\ 5 \in 1 .. 15 /\ 6 \in 1 .. 15 /\ 7 \in 1 .. 15
      /\ 12 \in 1 .. 15 /\ 13 \in 1 .. 15 /\ 14 \in 1 .. 15
  OBVIOUS
<1>3. \A id \in {"host.memory", "storage.target", "storage.capacity", "storage.media",
                 "config.file", "config.node_size", "config.node_db"} :
        \E w : StatusOf(id) = Verdict(id, Level, memory, storage, w)
  BY <1>1, <1>2, Positions, Zenon
<1> QED BY <1>3, VerdictCases

\* Each check's place in the checks of the run.
LEMMA EveryStatus ==
  ASSUME IInv, Done, NEW i \in DOMAIN checks
  PROVE  /\ checks[i].id = CheckOrder(Role)[i] /\ checks[i].id \in Ids
         /\ \E w \in Worlds \cup Later :
              /\ changed = 0 => w = world
              /\ checks[i].status = Verdict(checks[i].id, Level, memory, storage, w)
<1>1. i \in 1 .. Len(CheckOrder(Role))
  BY DoneMeans
<1>2. CheckOrder(Role)[i] \in Ids
  BY <1>1, Order
<1> QED BY <1>2 DEF IInv, Evaluated

\* Each variable holds a value the code can give it, the report included.
THEOREM TypeCorrect == Spec => []TypeOK
<1>1. IInv => TypeOK
  BY DEF IInv
<1> QED BY <1>1, Invariance, PTL

\* One report never judges some configuration checks and skips others, however
\* the file changed while the run went on, and skips no other check but config.file.
THEOREM ConfigurationChecksAgree == Spec => []Cascade
<1>1. ASSUME IInv PROVE Cascade
  <2> SUFFICES ASSUME Done, NEW i \in DOMAIN checks
               PROVE  checks[i].status = "skip" <=>
                        \/ checks[i].id \in Dependent /\ StatusOf("config.file") # "pass"
                        \/ checks[i].id = "config.file" /\ ~Given(args.config)
    BY DEF Cascade
  <2>1. StatusOf("config.file") = "pass" <=> config.ok
    BY <1>1, KnownStatuses, ConfigFileCases DEF IInv, Resolved
  <2>2. config.supplied <=> Given(args.config)
    BY <1>1, DoneMeans DEF IInv, Resolved, Done
  <2>3. PICK w : checks[i].status = Verdict(checks[i].id, Level, memory, storage, w)
    BY <1>1, EveryStatus
  <2>4. checks[i].id \in Ids
    BY <1>1, EveryStatus
  <2>5. CASE checks[i].id \in Dependent
    <3>1. checks[i].status = "skip" <=> ~config.ok
      BY <2>3, <2>5, DependentSkips
    <3>2. checks[i].id # "config.file"
      BY <2>5 DEF Dependent
    <3> QED BY <2>1, <2>5, <3>1, <3>2
  <2>6. CASE checks[i].id \notin Dependent
    <3>1. checks[i].status = "skip" <=> checks[i].id = "config.file" /\ ~config.supplied
      BY <2>3, <2>4, <2>6, OthersAnswer
    <3> QED BY <2>2, <2>6, <3>1
  <2> QED BY <2>5, <2>6
<1> QED BY <1>1, Invariance, PTL

\* The exit code tells whether a report was written and whether it has a failure,
\* its result says the same, and a command line that is wrong is refused before
\* anything is read.
THEOREM ExitCodeIsTruthful == Spec => []ExitTellsTheReport
<1>1. ASSUME IInv PROVE ExitTellsTheReport
  <2> SUFFICES ASSUME pc = "exit" PROVE ExitTellsTheReport!2
    BY DEF ExitTellsTheReport
  <2>1. CASE complaint = "none"
    <3>1. ArgsAccepted
      BY <1>1, <2>1, UsageErrorsAreFaults DEF IInv, Judged
    <3>2. report = NewReport(checks) /\ exit = IF written THEN ExitCode ELSE 2
      BY <1>1, <2>1 DEF IInv, Reported
    <3>3. DOMAIN checks = 1 .. Len(checks) /\ Len(checks) \in Nat
      BY <1>1 DEF IInv, TypeOK, Checks
    <3>4. IsFiniteSet(DOMAIN checks)
      BY <3>3, FS_Interval
    <3> DEFINE failed == \E i \in DOMAIN checks : checks[i].status = "fail"
    <3>5. /\ report.result = "not_ready" <=> failed
          /\ ExitCode = IF failed THEN 1 ELSE 0
          /\ report # NoReport
      BY <3>2, <3>4, Reporting DEF ExitCode
    <3>6. Failures # {} <=> failed
      BY DEF Failures
    <3> QED BY <2>1, <3>1, <3>2, <3>5, <3>6
  <2>2. CASE complaint # "none"
    <3>1. ~ArgsAccepted
      BY <1>1, <2>2, UsageErrorsAreFaults DEF IInv, Judged
    <3>2. complaint \in UsageErrors
      BY <1>1, <2>2 DEF IInv, TypeOK
    <3> QED BY <1>1, <2>2, <3>1, <3>2, UsageErrorsAreFaults DEF IInv, Judged
  <2> QED BY <2>1, <2>2
<1> QED BY <1>1, Invariance, PTL

\* The memory that makes host.memory fail is the memory node_size was judged by.
THEOREM MemoryIsReadOnce == Spec => []OneMemoryReading
<1>1. ASSUME IInv PROVE OneMemoryReading
  <2> SUFFICES ASSUME Done, Level = "minimum", config.ok, Lower[config.facts.nodeSize] = "huge",
                      StatusOf("host.memory") = "fail"
               PROVE  StatusOf("config.node_size") = "warn"
    BY DEF OneMemoryReading
  <2>1. memory \in Int
    BY <1>1 DEF IInv, TypeOK
  <2>2. memory # Unknown /\ memory < 32
    BY <1>1, <2>1, KnownStatuses, MemoryCases DEF RequiredMemory
  <2>3. NodeSizeCheck(config, Lower, Level, memory) = NodeSizeMinimum("huge", memory)
    BY NodeSizeCases DEF NodeSizes
  <2>4. NodeSizeMinimum("huge", memory) = "warn"
    BY <2>2 DEF NodeSizeMinimum
  <2> QED BY <1>1, <2>3, <2>4, KnownStatuses
<1> QED BY <1>1, Invariance, PTL

\* The storage checks and config.node_db speak of one target and one reading.
THEOREM StorageIsReadOnce == Spec => []OneStorageTarget
<1>1. ASSUME IInv PROVE OneStorageTarget
  <2> SUFFICES ASSUME Done PROVE OneStorageTarget!2
    BY DEF OneStorageTarget
  <2>1. StatusOf("storage.capacity") = "warn" => StatusOf("storage.media") = "warn"
    BY <1>1, KnownStatuses, CapacityCases, MediaCases
  <2>2. ASSUME StatusOf("storage.target") = "warn", config.ok
        PROVE  StatusOf("config.node_db") = "fail"
    <3>1. target.source = "root"
      BY <1>1, <2>2, KnownStatuses DEF StorageTargetCheck
    <3>2. config.facts.dbPath = ""
      BY <1>1, <2>2, <3>1 DEF IInv, Resolved, Done
    <3> QED BY <1>1, <2>2, <3>2, KnownStatuses, NodeDBCases
  <2> QED BY <2>1, <2>2
<1> QED BY <1>1, Invariance, PTL

\* With the same answers of the probes no check answers better when the level is
\* raised to production, but for config.node_size with too little memory for huge,
\* when host.memory fails; and no result of a report is better.
THEOREM MinimumIsNeverStricter == Spec => []ProductionIsStricter
<1>1. ASSUME IInv PROVE ProductionIsStricter
  <2> SUFFICES ASSUME Undisturbed, Level = "minimum"
               PROVE  ProductionIsStricter!2
    BY DEF ProductionIsStricter
  <2>1. Done /\ changed = 0
    BY DEF Undisturbed
  <2> DEFINE AtProduction(id) == Verdict(id, "production", memory, storage, world)
             order == CheckOrder(Role)
             all == {AtProduction(order[i]) : i \in 1 .. Len(order)}
             failed == \E i \in DOMAIN checks : checks[i].status = "fail"
             warned == \E i \in DOMAIN checks : checks[i].status = "warn"
  <2>2. SeverityAt("production", memory, storage, world) = Severity("fail" \in all, "warn" \in all)
    BY Zenon DEF SeverityAt
  <2>3. report.result = IF failed THEN "not_ready"
                        ELSE IF warned THEN "ready_with_warnings" ELSE "ready"
    BY <1>1, <2>1, DoneMeans, Reporting
  <2>4. memory \in Int /\ world \in Host
    BY <1>1, WorldsAssumption DEF IInv, TypeOK
  <2>5. ASSUME NEW i \in DOMAIN checks
        PROVE  /\ checks[i].id \in Ids /\ AtProduction(checks[i].id) \in all
               /\ checks[i].status = Verdict(checks[i].id, "minimum", memory, storage, world)
    <3>1. /\ checks[i].id = order[i] /\ checks[i].id \in Ids
          /\ checks[i].status = Verdict(checks[i].id, Level, memory, storage, world)
      BY <1>1, <2>1, EveryStatus
    <3>2. i \in 1 .. Len(order)
      BY <1>1, <2>1, DoneMeans
    <3> QED BY <3>1, <3>2, Zenon
  <2>6. AtProduction("host.memory") \in all
    <3>1. 4 \in 1 .. Len(order) /\ order[4] = "host.memory"
      BY Order, Positions
    <3> QED BY <3>1
  <2> HIDE DEF all, AtProduction
  <2>7. failed => "fail" \in all
    <3> SUFFICES ASSUME NEW i \in DOMAIN checks, checks[i].status = "fail" PROVE "fail" \in all
      OBVIOUS
    <3>1. AtProduction(checks[i].id) = "fail"
      BY <2>4, <2>5, HarsherAtProduction DEF AtProduction
    <3> QED BY <2>5, <3>1
  <2>8. warned => "fail" \in all \/ "warn" \in all
    <3> SUFFICES ASSUME NEW i \in DOMAIN checks, checks[i].status = "warn"
                 PROVE  "fail" \in all \/ "warn" \in all
      OBVIOUS
    <3>1. \/ AtProduction(checks[i].id) \in {"warn", "fail"}
          \/ AtProduction("host.memory") = "fail"
      BY <2>4, <2>5, HarsherAtProduction DEF AtProduction
    <3> QED BY <2>5, <2>6, <3>1
  <2>9. /\ SeverityOf("not_ready") = 2 /\ SeverityOf("ready_with_warnings") = 1
        /\ SeverityOf("ready") = 0
    BY DEF SeverityOf
  <2>10. SeverityOf(report.result) <= SeverityAt("production", memory, storage, world)
    <3>1. CASE failed
      BY <2>2, <2>3, <2>7, <2>9, <3>1 DEF Severity
    <3>2. CASE ~failed /\ warned
      BY <2>2, <2>3, <2>8, <2>9, <3>2 DEF Severity
    <3>3. CASE ~failed /\ ~warned
      BY <2>2, <2>3, <2>9, <3>3 DEF Severity
    <3> QED BY <3>1, <3>2, <3>3
  <2>11. ASSUME NEW i \in DOMAIN checks
         PROVE  /\ checks[i].status = "fail" => AtProduction(checks[i].id) = "fail"
                /\ checks[i].status = "warn" =>
                     \/ AtProduction(checks[i].id) \in {"warn", "fail"}
                     \/ checks[i].id = "config.node_size" /\ AtProduction("host.memory") = "fail"
    BY <2>4, <2>5, <2>11, HarsherAtProduction DEF AtProduction
  <2> QED BY <2>10, <2>11, Zenon DEF AtProduction
<1> QED BY <1>1, Invariance, PTL

\* A probe that returns an error makes no check fail that would not fail anyway, but
\* for the lookup of an interface named on the command line, which does.
THEOREM ErrorsAreNotFailures == Spec => []ErrorsFailOnlyNamedInterface
<1>1. ASSUME IInv PROVE ErrorsFailOnlyNamedInterface
  <2> SUFFICES ASSUME Undisturbed, NEW i \in DOMAIN checks, checks[i].status # "fail"
               PROVE  Verdict(checks[i].id, Level, Unknown, [storage EXCEPT !.ok = FALSE],
                              Blind(world)) = "fail"
                        <=> checks[i].id = "network.interface" /\ Given(args.iface)
    BY DEF ErrorsFailOnlyNamedInterface
  <2>1. Done /\ changed = 0
    BY DEF Undisturbed
  <2>2. memory \in Int /\ world \in Host /\ storage \in StorageInfo
    BY <1>1, WorldsAssumption DEF IInv, TypeOK
  <2>3. /\ checks[i].id \in Ids
        /\ checks[i].status = Verdict(checks[i].id, Level, memory, storage, world)
    BY <1>1, <2>1, EveryStatus
  <2>4. InterfaceIsNamed
    <3>1. EmptyFlags = {}
      BY <1>1, <2>1, DoneMeans DEF ArgsAccepted
    <3>2. args.iface # ""
      BY <3>1 DEF EmptyFlags
    <3> QED BY <1>1, <3>2, ArgsAssumption DEF IInv, TypeOK, Given, InterfaceIsNamed
  <2> QED BY <2>2, <2>3, <2>4, BlindFails
<1> QED BY <1>1, Invariance, PTL

=============================================================================
