------------------------------ MODULE Verdicts ------------------------------
(***************************************************************************)
(* The decisions of internal/preflight and the report of internal/model,   *)
(* as operators: what each check answers to the facts it is given, and     *)
(* what the report makes of the answers.  A verdict keeps the status of a  *)
(* check; its wording is left out.                                         *)
(*                                                                         *)
(* Memory is counted in GiB and capacity in units of 50 GB, the units of   *)
(* the thresholds.  Unknown stands for a probe that returned an error.     *)
(***************************************************************************)
EXTENDS Integers, Sequences, FiniteSets

Unknown == -1

Rank == [skip |-> 0, pass |-> 1, warn |-> 2, fail |-> 3]

Worst(a, b) == IF Rank[b] > Rank[a] THEN b ELSE a

\* A shortfall the minimum profile tolerates.
Tolerated(level) == IF level = "minimum" THEN "warn" ELSE "fail"

-----------------------------------------------------------------------------
(* Host                                                                    *)

OSCheck(os) == IF os = "linux" THEN "pass" ELSE "fail"

ArchCheck(arch, level) ==
  CASE arch = "amd64" -> "pass"
    [] arch = "arm64" /\ level = "minimum" -> "warn"
    [] OTHER -> "fail"

\* Seeded fault: the thresholds of the two profiles are swapped.
BrokenRequiredCPUs(level) == IF level = "minimum" THEN 8 ELSE 4

RequiredCPUs(level) == IF level = "minimum" THEN 4 ELSE 8

\* Seeded fault: the error of the probe is not looked at.
BrokenCPUCheck(cpus, level) == IF cpus >= RequiredCPUs(level) THEN "pass" ELSE "fail"

CPUCheck(cpus, level) ==
  CASE cpus = Unknown -> "warn"
    [] cpus # Unknown /\ cpus >= RequiredCPUs(level) -> "pass"
    [] OTHER -> "fail"

RequiredMemory(level) == IF level = "minimum" THEN 16 ELSE 64

MemoryCheck(memory, level) ==
  CASE memory = Unknown -> "warn"
    [] memory # Unknown /\ memory >= RequiredMemory(level) -> "pass"
    [] OTHER -> "fail"

BinaryCheck(binary) == IF binary = "versioned" THEN "pass" ELSE "warn"

-----------------------------------------------------------------------------
(* Storage: the probe answers [ok, capacity, media] for one path           *)

StorageTargetCheck(target) == IF target.source = "root" THEN "warn" ELSE "pass"

StorageCapacityCheck(storage) ==
  CASE ~storage.ok -> "warn"
    [] storage.ok /\ storage.capacity >= 1 -> "pass"
    [] OTHER -> "fail"

StorageMediaCheck(storage) ==
  CASE storage.ok /\ storage.media = "ssd" -> "pass"
    [] storage.ok /\ storage.media = "rotational" -> "fail"
    [] OTHER -> "warn"

-----------------------------------------------------------------------------
(* Network, time and limits                                                *)

LinkSpeedVerdict(speed, level) ==
  IF speed <= 0 THEN "warn" ELSE IF speed >= 1000 THEN "pass" ELSE Tolerated(level)

\* Seeded fault: everything that is not up is down.
BrokenLinkStateVerdict(state) == IF state = "up" THEN "pass" ELSE "fail"

LinkStateVerdict(state) ==
  CASE state = "up" -> "pass"
    [] state \in {"down", "dormant", "lowerlayerdown", "notpresent"} -> "fail"
    [] OTHER -> "warn"

\* Only an interface the operator named can fail for not existing.
NetworkCheck(explicit, found, link, level) ==
  CASE ~found -> "warn"
    [] found /\ ~link.ok -> IF explicit THEN "fail" ELSE "warn"
    [] OTHER -> Worst(LinkStateVerdict(link.state), LinkSpeedVerdict(link.speed, level))

TimeCheck(time, level) ==
  CASE time = "synchronized" -> "pass"
    [] time = "unsynchronized" -> Tolerated(level)
    [] OTHER -> "warn"

RequiredNofile == 65536

\* The limit of this process never fails: only the service's soft limit can.
NofileCheck(nofile, level) ==
  CASE ~nofile.verified -> "warn"
    [] nofile.verified /\ (nofile.infinite \/ nofile.soft >= RequiredNofile) -> "pass"
    [] OTHER -> Tolerated(level)

-----------------------------------------------------------------------------
(* Configuration: config is [supplied, ok, facts]                          *)

ConfigFileCheck(config) ==
  CASE ~config.supplied -> "skip"
    [] config.supplied /\ config.ok -> "pass"
    [] OTHER -> "fail"

NodeSizes == {"tiny", "small", "medium", "large", "huge"}

NodeSizeMinimum(size, memory) ==
  IF size = "large" \/ (size = "huge" /\ memory # Unknown /\ memory < 32)
  THEN "warn" ELSE "pass"

\* lower folds the case of a word; the parser has trimmed it already.
NodeSizeCheck(config, lower, level, memory) ==
  LET size == lower[config.facts.nodeSize]
  IN  CASE ~config.ok -> "skip"
        [] config.ok /\ size = "" -> "pass"
        [] config.ok /\ size \notin NodeSizes \cup {""} -> "fail"
        [] OTHER -> IF level = "minimum" THEN NodeSizeMinimum(size, memory)
                    ELSE IF size = "huge" THEN "pass" ELSE "warn"

NodeDBCheck(config, lower) ==
  LET facts == config.facts
      type == lower[facts.dbType]
  IN  CASE ~config.ok -> "skip"
        [] config.ok /\ (facts.dbType = "" \/ facts.dbPath = "") -> "fail"
        [] OTHER -> CASE type = "nudb" -> "pass"
                      [] type = "rocksdb" -> "warn"
                      [] OTHER -> "fail"

\* Exactly one active listener may serve the peer protocol.
Peers(facts) == {i \in DOMAIN facts.listeners : facts.listeners[i].peer}

ValidPort(port) == port \in 1 .. 65535

PeerPortCheck(config) ==
  LET peers == Peers(config.facts)
  IN  CASE ~config.ok -> "skip"
        [] config.ok /\ peers = {} -> "warn"
        [] config.ok /\ Cardinality(peers) > 1 -> "fail"
        [] OTHER -> IF \A i \in peers : ValidPort(config.facts.listeners[i].port)
                    THEN "pass" ELSE "fail"

-----------------------------------------------------------------------------
(* Validator                                                               *)

ValidatorConfigCheck(config) ==
  CASE ~config.supplied -> "warn"
    [] config.supplied /\ config.ok -> "pass"
    [] OTHER -> "fail"

\* Seeded fault: skipped for a configuration that was not supplied, not for
\* one that could not be read.
BrokenCredentialsCheck(config) ==
  CASE ~config.supplied -> "skip"
    [] config.supplied /\ config.facts.token -> "pass"
    [] config.supplied /\ ~config.facts.token /\ config.facts.seed -> "warn"
    [] OTHER -> "fail"

CredentialsCheck(config) ==
  CASE ~config.ok -> "skip"
    [] config.ok /\ config.facts.token -> "pass"
    [] config.ok /\ ~config.facts.token /\ config.facts.seed -> "warn"
    [] OTHER -> "fail"

LegacySeedCheck(config) ==
  CASE ~config.ok -> "skip"
    [] config.ok /\ config.facts.seed -> "warn"
    [] OTHER -> "pass"

\* mode is what os.Stat says of the path now: "owner", "shared" or "error".
ConfigModeCheck(config, mode) ==
  CASE ~config.ok -> "skip"
    [] config.ok /\ mode = "error" -> "warn"
    [] OTHER -> IF mode = "owner" THEN "pass" ELSE "fail"

\* A bind that is not a loopback address is exposed or cannot be classified.
ClassifyBind(ip) == IF ip \in {"loopback", "exposed"} THEN ip ELSE "unknown"

GRPCBind(ip) == IF ip = "" THEN "loopback" ELSE ip

APIBinds(facts) ==
  {ClassifyBind(facts.listeners[i].ip) :
      i \in {j \in DOMAIN facts.listeners : facts.listeners[j].api}}
    \cup IF facts.grpc THEN {ClassifyBind(GRPCBind(facts.grpcIP))} ELSE {}

APIBindCheck(config) ==
  CASE ~config.ok -> "skip"
    [] config.ok /\ APIBinds(config.facts) \subseteq {"loopback"} -> "pass"
    [] OTHER -> "warn"

-----------------------------------------------------------------------------
(* The report: checks is the sequence of [id, status] in public order      *)

Count(checks, status) == Cardinality({i \in DOMAIN checks : checks[i].status = status})

NewReport(checks) ==
  LET summary == [s \in DOMAIN Rank |-> Count(checks, s)]
  IN  [checks  |-> checks,
       summary |-> summary,
       result  |-> CASE summary["fail"] > 0 -> "not_ready"
                     [] summary["fail"] = 0 /\ summary["warn"] > 0 -> "ready_with_warnings"
                     [] OTHER -> "ready"]

=============================================================================
