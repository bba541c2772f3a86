----------------------------- MODULE Preflight -----------------------------
(***************************************************************************)
(* One invocation of the tool: internal/cli/app.go validates the command   *)
(* line, internal/preflight/runner.go reads the configuration, resolves    *)
(* the storage target, measures it, reads the memory and evaluates the     *)
(* checks one after the other, and the report is written and turned into   *)
(* an exit code.  The run is sequential, but the host is not frozen: the   *)
(* world may change between any two steps, and each step reads it as it is *)
(* then.  What a step read earlier is kept in config, target, storage and  *)
(* memory.                                                                 *)
(***************************************************************************)
EXTENDS Verdicts

CONSTANTS Words,      \* what a text field may say
          Lower,      \* strings.ToLower, on the words
          Paths,      \* the paths a filesystem may be measured for
          Interfaces, \* the names a network interface may be asked by, "" for none
          Args,       \* the command lines
          Worlds,     \* the states of the host at the start
          Later,      \* the states it may change into during the run
          Changes,    \* bound: how often it may change
          Unset       \* the value of a flag that was not given

\* What parsing a configuration may yield: any words, any ports, any paths.
Listener == [peer : BOOLEAN, port : Int, api : BOOLEAN, ip : Words]

Facts ==
  [nodeSize : Words, dbType : Words, dbPath : Paths \cup {""},
   listeners : Seq(Listener),
   grpc : BOOLEAN, grpcIP : Words, token : BOOLEAN, seed : BOOLEAN]

\* What p.Storage answers for a path.
StorageInfo == [ok : BOOLEAN, capacity : Nat, media : {"ssd", "rotational", "unknown"}]

\* What the probes and the file system may answer.
Host ==
  [os : Words, arch : Words, cpus : Int, memory : Int,
   storage : [Paths -> StorageInfo],
   route : Interfaces,
   links : [Interfaces -> [ok : BOOLEAN, state : Words, speed : Int]],
   time : {"synchronized", "unsynchronized", "unknown"},
   nofile : [verified : BOOLEAN, infinite : BOOLEAN, soft : Nat],
   binary : {"error", "absent", "silent", "versioned"},
   file : [readable : BOOLEAN, facts : Facts, mode : {"owner", "shared", "error"}]]

ASSUME WordsAssumption == "" \in Words
ASSUME LowerAssumption == Lower \in [Words -> Words] /\ Lower[""] = ""
ASSUME PathsAssumption == "/" \in Paths
ASSUME ArgsAssumption ==
  \A a \in Args : a.dataDir \in Paths \cup {"", Unset} /\ a.iface \in Interfaces \cup {"", Unset}
ASSUME WorldsAssumption == Worlds \cup Later \subseteq Host
ASSUME ChangesAssumption == Changes \in Nat

VARIABLES world,    \* the host and the file system now
          changed,  \* how often they have changed
          pc,       \* the next step of the run
          args,     \* the command line
          complaint, \* what the usage error names, or "none"
          config,   \* configState: what is known of the configuration
          target,   \* the resolved storage target
          storage,  \* what p.Storage answered for it
          memory,   \* what p.MemoryTotal answered
          checks,   \* the checks evaluated so far
          report,   \* model.Report, once assembled
          written,  \* history: whether all of it has reached standard output
          exit      \* the exit code, or Running

cli == <<args, complaint>>
vars == <<world, changed, pc, cli, config, target, storage, memory, checks, report, written, exit>>

Running == -1

NoFacts == [nodeSize |-> "", dbType |-> "", dbPath |-> "", listeners |-> << >>,
            grpc |-> FALSE, grpcIP |-> "", token |-> FALSE, seed |-> FALSE]

NoReport == [NewReport(<< >>) EXCEPT !.result = "none"]

NoConfig == [supplied |-> FALSE, ok |-> FALSE, facts |-> NoFacts]

Init ==
  /\ args \in Args /\ world \in Worlds
  /\ changed = 0 /\ pc = "args" /\ complaint = "none" /\ exit = Running
  /\ config = NoConfig
  /\ target = [path |-> "/", source |-> "root"]
  /\ storage = [ok |-> FALSE, capacity |-> 0, media |-> "unknown"]
  /\ memory = Unknown
  /\ checks = << >> /\ report = NoReport /\ written = FALSE

-----------------------------------------------------------------------------
(* The command line                                                        *)

Role == args.role
Level == args.level
Given(flag) == flag # Unset

\* What is looked at in turn, and when it is wrong.
ArgOrder == <<"missing command", "unknown command", "flags", "argument", "role", "level", "format">>

Wrong(what) ==
  CASE what = "missing command" -> args.command = ""
    [] what = "unknown command" -> args.command # "check"
    [] what = "flags" -> ~args.parses
    [] what = "argument" -> args.extra
    [] what = "role" -> Role \notin {"node", "validator"}
    [] what = "level" -> Level \notin {"production", "minimum"}
    [] what = "format" -> args.format \notin {"text", "json"}

EmptyFlags == {flag \in {"config", "dataDir", "iface"} : args[flag] = ""}

\* The fault found first; of several empty flags any one, for they are looked
\* at in the order of a map.
UsageErrors ==
  LET wrong == {i \in DOMAIN ArgOrder : Wrong(ArgOrder[i])}
  IN  IF wrong = {} THEN EmptyFlags
      ELSE {ArgOrder[CHOOSE i \in wrong : \A j \in wrong : i <= j]}

ParseArgs ==
  /\ pc = "args"
  /\ IF UsageErrors = {} THEN pc' = "config" /\ UNCHANGED <<complaint, exit>>
     ELSE pc' = "exit" /\ exit' = 2 /\ complaint' \in UsageErrors
  /\ UNCHANGED <<world, changed, args, config, target, storage, memory, checks, report, written>>

-----------------------------------------------------------------------------
(* preflight.Run                                                           *)

\* A configuration that cannot be read leaves no facts behind.
ReadConfig ==
  /\ pc = "config"
  /\ pc' = "target"
  /\ config' = CASE ~Given(args.config) -> NoConfig
                 [] Given(args.config) /\ world.file.readable ->
                      [supplied |-> TRUE, ok |-> TRUE, facts |-> world.file.facts]
                 [] OTHER -> [supplied |-> TRUE, ok |-> FALSE, facts |-> NoFacts]
  /\ UNCHANGED <<world, changed, cli, target, storage, memory, checks, report, written, exit>>

\* Seeded fault: the configuration is read a second time for its path.
BrokenResolveStorageTarget ==
  /\ pc = "target"
  /\ pc' = "storage"
  /\ target' =
       CASE Given(args.dataDir) -> [path |-> args.dataDir, source |-> "data-dir"]
         [] ~Given(args.dataDir) /\ config.ok /\ world.file.facts.dbPath # "" ->
              [path |-> world.file.facts.dbPath, source |-> "node_db"]
         [] OTHER -> [path |-> "/", source |-> "root"]
  /\ UNCHANGED <<world, changed, cli, config, storage, memory, checks, report, written, exit>>

ResolveStorageTarget ==
  /\ pc = "target"
  /\ pc' = "storage"
  /\ target' =
       CASE Given(args.dataDir) -> [path |-> args.dataDir, source |-> "data-dir"]
         [] ~Given(args.dataDir) /\ config.ok /\ config.facts.dbPath # "" ->
              [path |-> config.facts.dbPath, source |-> "node_db"]
         [] OTHER -> [path |-> "/", source |-> "root"]
  /\ UNCHANGED <<world, changed, cli, config, storage, memory, checks, report, written, exit>>

ProbeStorage ==
  /\ pc = "storage"
  /\ pc' = "memory" /\ storage' = world.storage[target.path]
  /\ UNCHANGED <<world, changed, cli, config, target, memory, checks, report, written, exit>>

ProbeMemory ==
  /\ pc = "memory"
  /\ pc' = "checks" /\ memory' = world.memory
  /\ UNCHANGED <<world, changed, cli, config, target, storage, checks, report, written, exit>>

NodeChecks ==
  <<"host.os", "host.arch", "host.cpu", "host.memory",
    "storage.target", "storage.capacity", "storage.media",
    "network.interface", "time.sync", "limits.nofile", "xrpld.binary",
    "config.file", "config.node_size", "config.node_db", "config.peer_port">>

ValidatorChecks ==
  <<"validator.config", "validator.credentials", "validator.legacy_seed",
    "validator.config_mode", "validator.api_bind">>

CheckOrder(role) == IF role = "validator" THEN NodeChecks \o ValidatorChecks ELSE NodeChecks

CheckIds == {NodeChecks[i] : i \in DOMAIN NodeChecks}
              \cup {ValidatorChecks[i] : i \in DOMAIN ValidatorChecks}

\* An explicit --interface is used as given, otherwise the default route's.
Network(level, w) ==
  LET explicit == Given(args.iface)
      name == IF explicit THEN args.iface ELSE w.route
  IN  NetworkCheck(explicit, name # "", w.links[name], level)

\* What one check answers, from what the run has read so far and from the
\* part of the world w it looks at itself.
Verdict(id, level, mem, disk, w) ==
  CASE id = "host.os" -> OSCheck(w.os)
    [] id = "host.arch" -> ArchCheck(w.arch, level)
    [] id = "host.cpu" -> CPUCheck(w.cpus, level)
    [] id = "host.memory" -> MemoryCheck(mem, level)
    [] id = "storage.target" -> StorageTargetCheck(target)
    [] id = "storage.capacity" -> StorageCapacityCheck(disk)
    [] id = "storage.media" -> StorageMediaCheck(disk)
    [] id = "network.interface" -> Network(level, w)
    [] id = "time.sync" -> TimeCheck(w.time, level)
    [] id = "limits.nofile" -> NofileCheck(w.nofile, level)
    [] id = "xrpld.binary" -> BinaryCheck(w.binary)
    [] id = "config.file" -> ConfigFileCheck(config)
    [] id = "config.node_size" -> NodeSizeCheck(config, Lower, level, mem)
    [] id = "config.node_db" -> NodeDBCheck(config, Lower)
    [] id = "config.peer_port" -> PeerPortCheck(config)
    [] id = "validator.config" -> ValidatorConfigCheck(config)
    [] id = "validator.credentials" -> CredentialsCheck(config)
    [] id = "validator.legacy_seed" -> LegacySeedCheck(config)
    [] id = "validator.config_mode" -> ConfigModeCheck(config, w.file.mode)
    [] id = "validator.api_bind" -> APIBindCheck(config)

\* Seeded fault: each check that needs the memory reads it for itself.
BrokenEvaluateCheck ==
  /\ pc = "checks" /\ Len(checks) < Len(CheckOrder(Role))
  /\ LET id == CheckOrder(Role)[Len(checks) + 1]
     IN  checks' = Append(checks, [id |-> id,
                                   status |-> Verdict(id, Level, world.memory, storage, world)])
  /\ UNCHANGED <<world, changed, pc, cli, config, target, storage, memory, report, written, exit>>

EvaluateCheck ==
  /\ pc = "checks" /\ Len(checks) < Len(CheckOrder(Role))
  /\ LET id == CheckOrder(Role)[Len(checks) + 1]
     IN  checks' = Append(checks, [id |-> id,
                                   status |-> Verdict(id, Level, memory, storage, world)])
  /\ UNCHANGED <<world, changed, pc, cli, config, target, storage, memory, report, written, exit>>

AssembleReport ==
  /\ pc = "checks" /\ Len(checks) = Len(CheckOrder(Role))
  /\ pc' = "write" /\ report' = NewReport(checks)
  /\ UNCHANGED <<world, changed, cli, config, target, storage, memory, checks, written, exit>>

-----------------------------------------------------------------------------
(* Output                                                                  *)

\* Seeded fault: the number of failures is the exit code.
BrokenExitCount == report.summary["fail"]

ExitCode == IF report.summary["fail"] > 0 THEN 1 ELSE 0

Write ==
  /\ pc = "write"
  /\ pc' = "exit" /\ exit' = ExitCode /\ written' = TRUE
  /\ UNCHANGED <<world, changed, cli, config, target, storage, memory, checks, report>>

\* Seeded fault: the error of the renderer is not looked at.
BrokenWriteFails ==
  /\ pc = "write"
  /\ pc' = "exit" /\ exit' = ExitCode
  /\ UNCHANGED <<world, changed, cli, config, target, storage, memory, checks, report, written>>

\* Standard output cannot be written: a tool error, whatever the report says.
WriteFails ==
  /\ pc = "write"
  /\ pc' = "exit" /\ exit' = 2
  /\ UNCHANGED <<world, changed, cli, config, target, storage, memory, checks, report, written>>

-----------------------------------------------------------------------------

WorldChanges ==
  /\ pc # "exit" /\ changed < Changes
  /\ world' \in Later
  /\ changed' = changed + 1
  /\ UNCHANGED <<pc, cli, config, target, storage, memory, checks, report, written, exit>>

Step == ParseArgs \/ ReadConfig \/ ResolveStorageTarget \/ ProbeStorage \/ ProbeMemory
          \/ EvaluateCheck \/ AssembleReport \/ Write \/ WriteFails

Next == Step \/ WorldChanges

Spec == Init /\ [][Next]_vars

-----------------------------------------------------------------------------
(* Properties                                                              *)

Statuses == DOMAIN Rank

Checks == Seq([id : CheckIds, status : Statuses])

Reports ==
  [checks : Checks, summary : [Statuses -> Nat],
   result : {"none", "ready", "ready_with_warnings", "not_ready"}]

\* Each variable holds a value the code can give it, the report included.
TypeOK ==
  /\ args \in Args /\ world \in Worlds \cup Later /\ changed \in 0 .. Changes
  /\ pc \in {"args", "config", "target", "storage", "memory", "checks", "write", "exit"}
  /\ complaint \in {"none"} \cup UsageErrors
  /\ config \in [supplied : BOOLEAN, ok : BOOLEAN, facts : Facts]
  /\ target \in [path : Paths, source : {"data-dir", "node_db", "root"}]
  /\ storage \in StorageInfo /\ memory \in Int
  /\ checks \in Checks /\ report \in Reports /\ written \in BOOLEAN
  /\ exit \in {Running, 0, 1, 2}

Done == pc = "exit" /\ report # NoReport

StatusOf(id) == (CHOOSE c \in {checks[i] : i \in DOMAIN checks} : c.id = id).status

Dependent == {"config.node_size", "config.node_db", "config.peer_port",
              "validator.credentials", "validator.legacy_seed", "validator.config_mode",
              "validator.api_bind"}

\* The checks that depend on the configuration stand or fall together: all
\* of them are judged when config.file passed and all are skipped when it did
\* not, even when the file appears, vanishes or changes during the run.  The
\* only other check ever skipped is config.file itself, when no file is given.
Cascade ==
  Done => \A i \in DOMAIN checks :
            checks[i].status = "skip" <=>
              \/ checks[i].id \in Dependent /\ StatusOf("config.file") # "pass"
              \/ checks[i].id = "config.file" /\ ~Given(args.config)

Failures == {i \in DOMAIN checks : checks[i].status = "fail"}

\* A well-formed check command with known values and no empty path or name.
ArgsAccepted ==
  /\ args.command = "check" /\ args.parses /\ ~args.extra
  /\ Role \in {"node", "validator"} /\ Level \in {"production", "minimum"}
  /\ args.format \in {"text", "json"} /\ EmptyFlags = {}

\* The exit code is that of README.md:82: 1 exactly when a report with a
\* failure was written, 0 exactly when one without was, 2 exactly when none
\* was, because it could not be written or there was none; and the result the
\* report names agrees with it.  A command line is refused exactly when
\* something is wrong with it, before anything is probed, and the one fault
\* named is there, in whatever order the flags are looked at.
ExitTellsTheReport ==
  pc = "exit" =>
    /\ exit = 1 <=> written /\ Failures # {}
    /\ exit = 0 <=> written /\ Failures = {}
    /\ exit = 2 <=> ~written
    /\ written => report # NoReport /\ (report.result = "not_ready" <=> Failures # {})
    /\ complaint = "none" <=> ArgsAccepted
    /\ ~ArgsAccepted => /\ exit = 2 /\ report = NoReport /\ config = NoConfig
                        /\ complaint \in EmptyFlags \/ Wrong(complaint)

\* host.memory and config.node_size judge one reading of the memory: a host
\* too small for the minimum profile never has node_size huge pass.
OneMemoryReading ==
  Done /\ Level = "minimum" /\ config.ok /\ Lower[config.facts.nodeSize] = "huge" =>
    (StatusOf("host.memory") = "fail" => StatusOf("config.node_size") = "warn")

\* The three storage checks and config.node_db speak of one target: when the
\* filesystem could not be measured neither check of it decides, and with a
\* readable configuration and no --data-dir the root is measured only if
\* config.node_db fails for want of a path.
OneStorageTarget ==
  Done =>
    /\ StatusOf("storage.capacity") = "warn" => StatusOf("storage.media") = "warn"
    /\ StatusOf("storage.target") = "warn" /\ config.ok => StatusOf("config.node_db") = "fail"

\* The severity of the report the same facts give at another level, or with
\* other answers of the probes.
Severity(failed, warned) == IF failed THEN 2 ELSE IF warned THEN 1 ELSE 0

SeverityAt(level, mem, disk, w) ==
  LET all == {Verdict(CheckOrder(Role)[i], level, mem, disk, w) : i \in 1 .. Len(CheckOrder(Role))}
  IN  Severity("fail" \in all, "warn" \in all)

SeverityOf(result) ==
  [ready |-> 0, ready_with_warnings |-> 1, not_ready |-> 2][result]

Undisturbed == Done /\ changed = 0

\* Production is the stricter profile, check by check: what fails at minimum
\* fails there too, and what warns at minimum warns or fails there.  The one
\* exception is config.node_size, which warns of huge at minimum and recommends
\* it for production; but then the memory itself fails host.memory, so that
\* the report as a whole is never better at production.
ProductionIsStricter ==
  Undisturbed /\ Level = "minimum" =>
    /\ \A i \in DOMAIN checks :
         LET AtProduction(id) == Verdict(id, "production", memory, storage, world)
         IN  /\ checks[i].status = "fail" => AtProduction(checks[i].id) = "fail"
             /\ checks[i].status = "warn" =>
                  \/ AtProduction(checks[i].id) \in {"warn", "fail"}
                  \/ checks[i].id = "config.node_size" /\ AtProduction("host.memory") = "fail"
    /\ SeverityOf(report.result) <= SeverityAt("production", memory, storage, world)

\* What the probes answer when every one of them fails; the memory and the
\* storage are answers the run has kept.
NoLinks == [name \in Interfaces |-> [ok |-> FALSE, state |-> "", speed |-> 0]]

Blind(w) ==
  [w EXCEPT !.cpus = Unknown, !.route = "", !.links = NoLinks, !.time = "unknown",
            !.nofile = [verified |-> FALSE, infinite |-> FALSE, soft |-> 0],
            !.binary = "error", !.file.mode = "error"]

\* Not being able to tell is a failure in one place only: replacing every
\* answer of the probes by an error turns a check that did not fail into one
\* that fails exactly when it is network.interface for an interface named on
\* the command line, whose error is taken for its absence (network.go:32).
ErrorsFailOnlyNamedInterface ==
  Undisturbed =>
    \A i \in DOMAIN checks :
      checks[i].status # "fail" =>
        (Verdict(checks[i].id, Level, Unknown, [storage EXCEPT !.ok = FALSE], Blind(world)) = "fail"
          <=> checks[i].id = "network.interface" /\ Given(args.iface))

\* README.md:181: a configuration that cannot be read is one failure, and
\* the checks that depend on it are not turned into further ones.
OneFailureForConfig ==
  Done /\ config.supplied /\ ~config.ok =>
    Cardinality({i \in Failures :
                   checks[i].id \in Dependent \cup {"config.file", "validator.config"}}) = 1

=============================================================================
