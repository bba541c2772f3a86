# xrpl-node-preflight: a formal model

`xrpl-node-preflight` inspects a Linux host and an optional `xrpld.cfg`, decides
about twenty readiness checks, and prints one report with an exit code. This
directory holds TLA+ models of it, TLC configurations that check them on small
instances, and proofs that TLAPS checks for every value of the constants.

Paths below are relative to `src/internal/` unless they say otherwise.

## 1. The system

| Component | State it keeps | Operations | Interacts with |
|---|---|---|---|
| Command line (`cli/app.go`, `cmd/…/main.go`) | none between runs | validate flags, run, write, exit code | calls the run, then the renderer |
| Preflight run (`preflight/runner.go`, `storage.go`) | `configState`, storage target, two probe answers, the list of checks | read the configuration, resolve the target, probe storage and memory, evaluate the checks in public order | reads the file system and the probes while other processes change both |
| Verdicts (`preflight/*.go`) | none | one function per check | facts in, a status out |
| Report model (`model/report.go`) | counters, result | `NewReport` | the exit code is read from it |
| Rendering (`report/*.go`) | none | text, JSON | may fail to write |
| Configuration reader (`xrpld/parse.go`, `ReadFile`) | a descriptor, the bytes collected | open, stat, bounded read, length check, parse | other processes append to, truncate, rename over and remove the file |
| Configuration parser (`xrpld/parse.go`, `listener.go`) | current section, facts | `Parse`, `Listeners`, `GRPCListener` | fed by the reader |
| Command runner (`probe/command.go`) | a child process, a context, two timers, a pipe | `runCommand` | os/exec's watcher and copier goroutines, the child, its descendants |
| Capped buffer (`probe/capped_writer.go`) | `buf`, `truncated`, a mutex | `Write`, `String`, `Truncated` | shared by goroutines |
| Linux probes (`probe/linux.go`) | none | memory, storage, interface, time, limits, version | `/proc`, `/sys`, four commands |
| Mount table and route (`probe/mountinfo.go`, `route.go`) | none | parse, choose | fed by `/proc` |
| Sanitizing (`preflight/runner.go:144`, `probe/command.go:55`) | none | map characters | texts only |

What is hard here, and what makes each part correct:

* **Concurrency.** The capped buffer is shared; `Write` reads the room, stores
  and sets a flag in three accesses. Correct: exactly the first bytes are kept,
  the flag is exact, and no write is ever refused.
* **Time and processes.** The command runner has a timeout, a `WaitDelay` timer,
  a watcher, a copier, a child that may hang, and a descendant that may hold the
  pipe. Correct: a nil error means complete output, the call ends in bounded
  time, and only after the child was reaped and its goroutines are over (a
  descendant of the child may live on).
* **A file system that moves.** The reader's stat, its reads and the later
  `os.Stat` of `validator.config_mode` look at different moments. Correct: what
  is parsed is one whole regular file of bounded size.
* **One report out of many readings.** Checks share readings (the memory, the
  target, the configuration) and must not contradict each other or the exit code.
* **Answers of other programs.** A command may fail, hang, print half an answer
  or something unexpected, and there are fallbacks. Correct: only a complete
  answer decides, under the name of the command that gave it, and no answer is a
  warning and not a hang.
* **Files that are scanned once.** The configuration, the route table and the
  mount table are read line by line with a running state. Correct: the result is
  what the file as a whole says, in whatever order its lines stand.
* **Thresholds per level.** Spread over six functions; the minimum profile must
  never be the stricter one.

## 2. Modules

| Module | Models | Role |
|---|---|---|
| `PrefixSink` | the promise of `capped_writer.go:8-10` | abstract specification: each call takes effect at one instant |
| `CappedWriter` | `probe/capped_writer.go` | detailed specification, refines `PrefixSink` |
| `MCCappedWriter` | – | its instance for TLC |
| `CappedWriterProofs` | – | theorems about `CappedWriter` |
| `BoundedCall` | what the probes rely on in `runCommand` | abstract specification |
| `CommandRunner` | `probe/command.go` with os/exec | detailed specification, refines `BoundedCall` |
| `CommandRunnerProofs` | – | theorems about `CommandRunner` |
| `Probes`, `MCProbes` | `probe/linux.go` `TimeSync`, `Nofile`, `XRPLDVersion` | composes one `BoundedCall` per command with the probes and their checks |
| `ProbesProofs` | – | theorems about `Probes` |
| `ConfigReader`, `MCConfigReader` | `xrpld/parse.go` `ReadFile` | specification and instances |
| `ConfigReaderProofs` | – | theorems about `ConfigReader` |
| `ConfigParser` | `xrpld/parse.go` `Parse`, `xrpld/listener.go` | specification |
| `ConfigVerdicts`, `MCConfigVerdicts` | `config.go`, `validator.go` on what the parser kept | composes `ConfigParser` with `Verdicts`, and the instance of both |
| `ConfigVerdictsProofs` | – | theorems about `ConfigParser` and `ConfigVerdicts` |
| `StoragePath`, `MCStoragePath` | `probe/linux.go` `Storage`, `probe/mountinfo.go` | specification and instances |
| `StoragePathProofs` | – | theorems about `StoragePath` |
| `NetworkProbe`, `MCNetworkProbe` | `probe/route.go`, `probe/linux.go` `NetworkInterface`, `networkCheck` | specification and instances |
| `NetworkProbeProofs` | – | theorems about `NetworkProbe` |
| `Verdicts` | every check, `worst`, `NewReport` | operators |
| `Preflight`, `MCPreflight` | `cli.run`, `preflight.Run` | specification and instance |
| `PreflightProofs` | – | theorems about `Verdicts` and `Preflight` |

`Probes`, `NetworkProbe` and `Preflight` extend `Verdicts`, so that what a probe
found and what its check says of it are judged together.

Operators whose name begins with `Broken` are seeded faults: variants of the
definition that follows them, with the kind of slip a maintainer could make.
Nothing uses them. Putting one in place of its definition must break the
property it is paired with in `PROJECT.json`, which shows that the property
depends on the code and not on the shape of the model.

### 2.1 CappedWriter

`buf` and `truncated` are the fields of the struct, `mu` is the holder of the
mutex, `arg` and `room` are the locals of a `Write`, `pc` says where a goroutine
is. `CallWrite`, `LockWrite`, `ReadRoom`, one of `StoreAll`, `StorePart`,
`StoreNone`, perhaps `SetTruncated`, and `ReturnWrite` follow lines 22-40;
`String` and `Truncated` are a lock, a load and a return. `log` is a history
variable, everything written in the order of the stores. The mutex is modelled
as a guard on taking it, never as an atomic block, so that its need is visible.

### 2.2 CommandRunner

`main` is the goroutine of `runCommand`; `Start`, `ProcessWait`,
`TakeWatchResult`, `CopierEnded`/`AwaitExpires`/`DrainEnds` and `Return` are the
steps of `command.Run()` and the lines after it. `watcher` is the goroutine
os/exec starts for the context (lines 20-24 configure it), `copier` the one that
copies the single pipe (lines 29-31 give both streams the same writer). os/exec,
the kernel pipe and the processes are not this repository's code: their actions
are external, modelled from the documented behaviour of `exec.Cmd` for the
fields set here. The child may print, fork, exit with 0 or not, or hang; the
descendant may print or hold the pipe, with no obligation to end. `now` is a
clock that moves only when no step of Run, of the watcher or of the kill is due
(`Urgent`); reading the pipe is not urgent, so a slow copier is among the
behaviours. `printed` is history, everything printed.

`ImplementsBoundedCall` maps it to `BoundedCall`: the call is *ready* until the
child is started (also when starting failed), *running* until `runCommand`
returns, and *done* then; the clock, the output and the text are the same. What
the mapping hides is the pipe, the copier, the watcher, the kill and both
timers. What it shows is that a caller may read the text of a nil error as the
beginning of everything printed by a command that exited with 0, and that it
waits at most the timeout, the kill lag and the grace.

### 2.3 ConfigReader

A file is a sequence of pieces. `path` is what the path names now and `fd` what
was opened; `Open`, `Stat`, `ReadSome` (any part of what is left), `ReadEnd`,
`Check` and the failures follow lines 20-48 in order. Between any two of them
another process may append to a file, truncate it, rename another file over the
path or remove it. `atEOF` is the content of the open file when the last read
found the end, `shrunk` whether it was truncated in place: no reader can be
whole then, and the properties say so. `Parse` is reduced to whether the content
has a piece it rejects.

### 2.4 ConfigParser

`section` and `facts` are the variables of `Parse`; one action per kind of line
in the section it stands in (`ServerLine`, `NodeSizeLine`, …) does what
`parse.go:64-104` does with it. The file is chosen line by line as it is read
(`read` is history), so every file of up to `MaxLines` lines is a behaviour.
`Listeners`, `Effective` and `GRPCListener` are `listener.go`; the tokens of a protocol
are a set, as nothing but membership is asked of them. The properties
never follow the scan: they look at the whole file, its sections and its last
values, and compare.

`ConfigVerdicts` puts the checks behind the parser. The parser keeps values as
written; `PortNumber`, `Bind` and `isAPIListener` are what `peerPortCheck` and
`validatorAPIBindCheck` make of them, and `Judged` hands the result to the
operators of `Verdicts`. The checks keep no state, so the verdicts are functions
of the parser's state, and the properties compare them with the text of the file.
`ConfigFacts` and `Settings` are the two structures of `facts.go`.

### 2.5 Probes

`pc` names the command being run. Its call is an instance of `BoundedCall` with
that command's timeout, which does everything between `Starts` and `Returns`;
then one `Read…` action does all that the probe does with the answer, which
decides whether `TimeSync` falls back to `chronyc`. A line of output is reduced
to what the probe looks for in it. `heard` and `spent` are history: what each
command of the latest probe printed, and the ticks of the calls before.

### 2.6 StoragePath and NetworkProbe

Both are a chain of system calls during which the host may change. In
`StoragePath` the chain is `Stat` (once per ancestor), `Statfs`, `ReadTable` or
`ReadTableFails`, `ResolveDevice` and one `Climb` per directory of `/sys`; others
make and remove directories and mount filesystems in between (`Mkdir`, `Rmdir`,
`Mount`). `Real`, `StatWorks` and `Holds` are the kernel: where a path leads
through a link, whether this process can look at it, which filesystem it is on.
`Path` and `TableLine` are the clean paths and the lines of the table; the entries
that `ParseMountinfo` yields keep the number of their line, which is their order.
A component of a path is the sequence of the pieces the escapes tell apart, so that
`DecodeMountEscapes` scans it from left to right as `mountinfo.go:66-98` does; only
how the kernel prints a component (`Spell`) is a constant. What is mounted where
(`Mounted`) is what the kernel printed, whatever the code decodes from it (`Point`).
In `NetworkProbe` the table is scanned with `best` and `bestMetric`, then the
interface is looked up and two of its files read, while it changes
(`LinkChanges`); `Judge` is `networkCheck`.

### 2.7 Verdicts and Preflight

`Verdicts` has one operator per check function, from its facts to its status;
texts are left out. `strings.ToLower` is the function `lower` given to the two checks
that fold a word; trimming is the parser's and done before. Memory is in GiB and
capacity in units of 50 GB, the units of the thresholds. `Preflight` is the run: `ParseArgs`, which looks for the faults of
the command line in the order of `app.go` (`ArgOrder`; of several empty flags it
names any, as a map is ranged over), then `ReadConfig`,
`ResolveStorageTarget`, `ProbeStorage`, `ProbeMemory`, one `EvaluateCheck` per
check in public order, `AssembleReport`, and `Write` or `WriteFails`.
`WorldChanges` may replace the host between any two of these. What the code keeps
in a variable (`config`, `target`, `storage`, `memory`) is kept in one here; what
it asks of a probe inside a check is read from the world at that moment. `written`
is a history variable: whether the report has reached standard output. `Blind` is the
host on which every probe and `os.Stat` return an error, the lookup of an interface
included. `Host`,
`Facts` and `StorageInfo` say what a host and a file may be; the worlds of a run are
some of them.

## 3. Runs

| Run | Bounds | Shows |
|---|---|---|
| `capped_writer` | 2 writers, 1 reader, cap 2, slices of 0 to 3 bytes, at most 3 bytes logged before the last calls | `TypeOK`, `BoundedBuffer`, `KeepsPrefix`, `FlagExact`, `FrozenOnceTruncated`, `ImplementsSink`, `EveryCallReturns` |
| `command_runner` | timeout 2, WaitDelay 1, kill lag 2, cap 2, pipe 2, 3 prints | `SuccessIsComplete`, `NothingOutlivesTheCall`, `StaysDrained`, `CallReturns`, `ImplementsBoundedCall` |
| `probes` | timeouts 1 and 2, grace 1, cap 2 lines, 3 lines printed per command | `VerdictIsWitnessed`, `NoAnswerIsAWarning`, `RunIsBounded`, `ProbesEnd` |
| `config_reader` | 2 regular files and a directory, limit 2, files grow to 4 | `BoundedRead`, `AcceptedIsWhole`, `AcceptedIsRegular`, `ReadsOneFile` |
| `config_reader_fifo` | a regular file and a fifo | violates `NonRegularIsRefused` |
| `config_verdicts` | every file of up to 5 lines of 16 kinds | `FactsAsWritten`, `OnePeerListener`, `ExposureIsReviewed` |
| `storage_path` | 3 targets, one of them below a directory that may not be searched, 5 kinds of device, a mount point printed with escapes, 2 changes of the host | `MeasuresNearestAncestor`, `OneFilesystem` |
| `storage_path_link` | one host with a linked data directory | violates `OneFilesystem` |
| `network_probe` | every route table of up to 3 lines of 9 kinds, 2 changes of the link | `LowestMetric`, `LinkIsWitnessed` |
| `network_probe_mask` | tables of up to 3 lines, of a default route and a route to 0.0.0.0/1 | violates `OnlyDefaultRoute` |
| `preflight` | 59 worlds, most of which differ from a good host in one fact, 23 command lines, one change of the world at any step | `Cascade`, `ExitTellsTheReport`, `OneMemoryReading`, `OneStorageTarget`, `ProductionIsStricter`, `ErrorsFailOnlyNamedInterface` |
| `preflight_one_failure` | the same | violates `OneFailureForConfig` |

Each passing run checks a `TypeOK` as well.

Why the bounds are enough to see what matters: the cap of the buffer is reached,
met exactly and passed, by one slice and by several; the pipe fills up and the
cap of the output is passed while the child still prints; the kill lag is longer
than WaitDelay, so the grace period ends before the process does; a file passes
the limit by the one byte the code asks for and by one more; each threshold is
met with the value that passes and the one just below it. Memory and `node_size`,
the one pair of facts that two checks share, are varied together. Five lines are
a header, two contents of it, another header and one content: a section split in
two, a key repeated across the split, a listener before or after `[server]`, and
a malformed line behind any of that; and a default of `[server]` with a listener and
the override that turns it back. Three printed lines pass the cap of two, so
a decisive line is kept, cut off, or contradicted by another. Three route lines
are two candidates and one between them that says nothing. Two changes of a host
or a link are one that makes a step go wrong and one that undoes it; two
directories are missing on the longest target, so that the climb to an ancestor
has two steps. Usage errors come alone and in pairs that the code looks at in
different order.

Deadlock is checked for `capped_writer`. The other systems stop on their own when
the call or the run is over, and their configurations say so.

### Fairness

* `CappedWriter`: a goroutine inside a body goes on (weak), and one that waits
  for the mutex gets it (strong), which `sync.Mutex` guarantees by its starvation
  mode. Nobody has to call.
* `CommandRunner`: Run, the watcher and the copier go on, a killed process dies,
  and time passes when nothing is due. The child and its descendant have no
  obligation whatever.
* `Probes`: each probe goes on, and a call that was made returns, which is what
  `CallReturns` shows of `CommandRunner`. No command has to print or to exit.
* `ConfigReader`: each step of the reader that the system answers is taken
  eventually (weak). No failure is assumed to come, and writers may go on for
  ever; a fifo's open is answered only by another process, which is free not to
  come. The run `config_reader_fifo` needs this fairness: without it the refusal
  would be missed for no reason at all.

The other specifications state safety only.

### Disagreements found

1. **The open that comes before the check** (`xrpld/parse.go:21`). README.md:181
   says the file must be a regular file and that a configuration that cannot be
   read is one failure. Opening a fifo waits for a writer, so the refusal at line
   31 is not reached and the run reports nothing. Run `config_reader_fifo`.
2. **Two failures for one file** (`preflight/validator.go:21`). README.md:181
   promises one failure on `config.file`; with the validator role
   `validator.config` fails as well. Run `preflight_one_failure`.
3. **The mask of a route is not looked at** (`probe/route.go:33`). The comment at
   `route.go:16` speaks of the default route, but every route whose destination
   is 0.0.0.0 is taken for one. The usual way for a tunnel to cover all addresses
   is a pair of routes to 0.0.0.0/1 and 128.0.0.0/1 beside the default route. The run
   `network_probe_mask` reads a default route by `eth0` with metric 100 and a route to
   0.0.0.0/1 by `tun0` with metric 0, and `tun0` is chosen: the speed of the tunnel is
   judged. What is violated is that a table with a default route yields the interface
   of one; a table with only the shorter route is not held against the code.
4. **Capacity and media of two filesystems** (`probe/linux.go:114`). `statfs`
   follows a symbolic link, the mount entry is found by the spelling of the path.
   With a data directory that is a link to a second disk, the capacity is that
   disk's and the media that of the disk the link is on, although `linux.go:67`
   measures "the filesystem holding path". Run `storage_path_link`. Two mounts on
   one mount point, from before the run, have the same effect
   (`mountinfo.go:46` keeps the first, the last hides it), and so has a mount over
   a directory above an earlier one; the hosts of the passing run have no such
   pair at their start.

## 4. Proofs

Every safety invariant, action property and refinement that a passing run checks
is also a theorem `Spec => …`, for every value of the constants that meets the
assumptions named in the modules (`OneFilesystem` under two more, section 4.5). A run
fixes the table, the files and the number of
steps others may take; the theorem quantifies over them. The bounds of the runs
(`Budget`, `Room`, `Prints`, `MaxPrints`, `MaxLines`, `Changes`) are constants too,
so that each holds whatever the bound.

Each proof module defines an inductive invariant `IInv`, proves that `Init` implies
it and each action keeps it (one lemma per action, or per conjunct that many actions
touch), names the result `Invariance` (`Inductive` in the first one) and derives the
properties from it. TLC checked each `IInv` on a small instance before it
was proved.

| Module | Theorem | States |
|---|---|---|
| `CappedWriterProofs` | `TypeCorrect`, `NeverOverCap`, `AlwaysPrefix`, `FlagAlwaysExact` | `TypeOK`, `BoundedBuffer`, `KeepsPrefix`, `FlagExact` |
| | `TruncatedIsFrozen` | the action property `FrozenOnceTruncated` |
| | `WriterImplementsSink` | `ImplementsSink`, the refinement of `PrefixSink` |
| `CommandRunnerProofs` | `TypeCorrect`, `SuccessHidesNoLoss`, `CallLeavesNothing`, `ChildIsDrained` | `TypeOK`, `SuccessIsComplete`, `NothingOutlivesTheCall`, `StaysDrained` |
| | `RunnerImplementsBoundedCall` | `ImplementsBoundedCall`, the refinement of `BoundedCall` |
| `ConfigReaderProofs` | `TypeCorrect`, `ReadIsBounded`, `AcceptsOnlyWholeFiles`, `AcceptsOnlyRegularFiles`, `OneFileIsRead` | `TypeOK`, `BoundedRead`, `AcceptedIsWhole`, `AcceptedIsRegular`, `ReadsOneFile` |
| `ConfigVerdictsProofs` | `TypeCorrect`, `FactsAreAsWritten` | `TypeOK`, `FactsAsWritten` of `ConfigParser` |
| | `PeerPortIsJudgedByTheText`, `ExposureIsJudgedByTheText` | `OnePeerListener`, `ExposureIsReviewed` |
| `ProbesProofs` | `TypeCorrect`, `VerdictsHaveWitnesses`, `SilenceIsAWarning`, `ProbesAreBounded` | `TypeOK`, `VerdictIsWitnessed`, `NoAnswerIsAWarning`, `RunIsBounded` |
| `NetworkProbeProofs` | `TypeCorrect`, `FindsTheLowestMetric`, `VerdictsHaveWitnesses` | `TypeOK`, `LowestMetric`, `LinkIsWitnessed` |
| `StoragePathProofs` | `TypeCorrect`, `AncestorIsNearest` | `TypeOK`, `MeasuresNearestAncestor` |
| | `StorageIsOneFilesystem` | `OneFilesystem`, of hosts without links and hidden mounts |
| | `MediaIsOfAMountAbove` | its second half, of any host, when no link was followed |
| `PreflightProofs` | `TypeCorrect`, `ConfigurationChecksAgree`, `ExitCodeIsTruthful`, `MemoryIsReadOnce`, `StorageIsReadOnce`, `MinimumIsNeverStricter`, `ErrorsAreNotFailures` | `TypeOK`, `Cascade`, `ExitTellsTheReport`, `OneMemoryReading`, `OneStorageTarget`, `ProductionIsStricter`, `ErrorsFailOnlyNamedInterface` |

### 4.1 The capped writer

`KeepsPrefix` alone is not inductive: `StorePart`
stores as much as a `room` read earlier allows, so one needs that this room is
still the current one (`RoomFresh`), which in turn needs that no other goroutine
is in a body (`Exclusive`: a goroutine is inside exactly when it holds the
mutex). `FlagExact` speaks only of moments with a free mutex; `FlagTracks` says
where the flag lags in between, at the one program point that will set it. Each
conjunct has a lemma `Next…`, and four lemmas about `FirstOf` carry the
arithmetic of prefixes. `NeverOverCap` follows from the prefix; the two
step properties and the refinement follow from `IInv` and one pass over the
actions each. Under the refinement a store is the instant at which a `Write`
takes effect and a load that of a `String` or `Truncated`; `SetTruncated` and the
returns are invisible or end the call. The load of the flag is where `FlagTracks`
is needed: the reader holds the mutex, so no writer is between store and flag.
Assumed: `MaxAssumption`, `BudgetAssumption`, `ChunkAssumption`, `ThreadAssumption`.

### 4.2 The command runner

`SuccessIsComplete` looks at one moment, the return; that it holds there depends on
what the watcher, the copier and Run did before. `Phases` and `PipeEnds` fix where the
three can be relative to each other and who may have closed the pipe. `Lossless`
accounts for every piece printed: in the buffer, in the copier's hands or in the
pipe, in that order. `Drained` says that a copier that ended by itself left nothing,
and `LossIsReported` that a pipe closed earlier than that has left an error with the
watcher or with Run. Together: no error, no loss. `Timing` bounds the clock by what
each timer was set to, which is the second half of the refinement: the end
of a `BoundedCall` comes by the timeout plus the longer of `WaitDelay` and `KillLag`.
Assumed: `TimingAssumption`, `SizeAssumption`.

### 4.3 The configuration reader

`CheckedBeforeRead` keeps the kind of the opened file up to the last step and says
that nothing is collected before the checks. `ReadAllEnds` is the state between the
last read and the length check, about which no property speaks: either the limit
is passed or the end of the file was seen, and without a truncation what was
collected is a prefix of it. `AcceptedIsWhole` then follows from the length check
alone. Assumed: `SizeAssumption`, `FileAssumption`.

### 4.4 The parser and the verdicts on its facts

`FactsAsWritten` holds at the end of the file; `ReadSoFar` says it after every line,
with the section that the next line will stand in (`InSection`). The lemmas say what one
more line adds to the sets by which `AsWritten` looks at a file: to the
contents of a section (`In`), to the pairs of a key, to the least and the greatest of
such a set (`MinIsLeast`, `MaxIsGreatest`), to the listeners in file order. That
`facts.names` is in file order is stated by an order function and not by a fold over
the file, so no induction over data is needed.

The two verdict theorems are about composition: the check sees the listeners
`Listeners` builds from the facts, the property sees lines. `ListenersAsWritten`
states each setting of each listener by the lines of the file; the rest carries the
conditions of `Verdicts` over. Two lines that name one listener are two listeners,
which is why the order function must be one-to-one. Assumed:
`LinesAssumption`, which types the lines, and `LowerAssumption` (a folded name stays
as it is); which spellings are numbers or addresses does not matter.

### 4.5 The probes

In `Probes` the answer of a call is judged by an action after its return, so that
`CallKept` must carry what `BoundedCall` promises across it (a nil error comes with
the beginning of what was printed), `HeardSoFar` what a failed first command leaves
to its fallback, and `ResultsInOrder` that no later result is there yet.
`TimeSpent` sums the timeouts up command by command. Assumed: `TimeoutAssumption`,
`OutputAssumption` (`infinity` is no number).

In `NetworkProbe`, `BestSoFar` is the invariant of the scan: the line held is the
first of the lowest usable ones so far. `NameKept` ties the interface to it when none
was asked for, `Witnessed` each thing known of the interface to a state it had.
Assumed: `BoundAssumption`, `NameAssumption`, `LineAssumption`, `LinkAssumption`.

In `StoragePath`, `SawAncestors` is what the climb of `existingAncestor` leaves
behind while directories come and go. `FromTable` and `Climbed` describe the way from
the mount entry to the attribute. For `MediaIsOfAMountAbove` they are enough, as
long as no link was followed on the way to the ancestor: `findMount` looks for mounts
above the path as it is spelled, and under a link those are not the mounts above what
`statfs` measured. That
capacity and media are of one filesystem (`StorageIsOneFilesystem`) also needs
`Measured` and `SameMount` and two conditions on the host: `NoLinks` (no directory
of a path is a symbolic link) and `NothingHidden` (no mount the host starts with
covers the point of an earlier one). Neither can be dropped: run
`storage_path_link` violates the property without the first, and without the second
`mountinfo.go:46` takes the hidden one of two mounts. The hosts of the run
`storage_path` meet both. Assumed otherwise: that paths are clean, that the table is
typed, and that decoding what the kernel prints gives the component back
(`PathAssumption`, `SpellAssumption`, `ChainAssumption`, `LinkAssumption`,
`ChangesAssumption`). The decoding itself is translated; TLC evaluates it on the
components of the instance, one of which holds a blank and the text of an escape.

### 4.6 The run

The first half of `PreflightProofs` is about `Verdicts` alone: which statuses each
check can answer, and in which cases. `Evaluated` then says that check number *i* is
the *i*th of the public order and the verdict on what the run has kept and on some
state the host had, the present one if nothing has changed. That separates what
may be contradictory in a changing host (one check against another that asked later)
from what may not: the checks on memory, storage and configuration read a
variable of the run. `Resolved` links the target to the configuration, `Reported` the
report and the exit code to the checks, `Judged` and `InOrder` say that a refused
command line ends the run before anything was read. `MinimumIsNeverStricter` and
`ErrorsAreNotFailures` compare verdicts across levels and across answers, for all facts;
they need the lemmas on the single checks and, for the run, `Evaluated`.

Each of the two has one exception, which its property names. `config.node_size` warns
of `huge` on less than 32 GiB at the minimum level and recommends it without looking at
the memory for production (`config.go:63-75`); such a host fails `host.memory` for
production, so that the report as a whole still gets no better. And
`network.interface` takes an error of the lookup for the absence of the interface when
the operator named one, and fails (`network.go:31-36`); every other error of a probe
warns. `SECURITY.md:43`, "A probe that cannot answer produces a warning", is about the
probes that run commands, and holds of them. `ExitCodeIsTruthful` needs of `Reported`
what the exit code is in either case, the report written or not, and `OthersAnswer`
is why `Cascade` can say that nothing else is skipped.
Assumed: the types of the inputs (`WordsAssumption` to `ChangesAssumption`); of the
case folding only that it maps words to words and the empty word to itself.

### 4.7 Only model-checked, and why

* `EveryCallReturns`, `CallReturns`, `ProbesEnd`: liveness under fairness; the
  prover has no rule for ENABLED.
* `NonRegularIsRefused`, `OneFailureForConfig`, `OnlyDefaultRoute`: false of the
  code (section 3). `OneFilesystem` of a host with links: false as well.
* What the models take as constants: how the kernel prints the components of a path
  (`Spell`), which spellings `ParseUint` accepts (`Number`), which letters
  `ToLower` folds (`Lower`). The instances spell them out for a few values.

The specifications have no recursive operators (`DecodeMountEscapes` is a recursive
function, of which the proofs use nothing but `SpellAssumption`), so that nothing else
is out of the prover's reach.

## 5. Not modelled, and why

* `MemoryTotal`, `OS`, `Arch` and `CPUCount`: single readings with no step in
  between; their results are inputs of `Preflight`. `AvailableBytes` is shown and
  never judged.
* Sanitizing, rendering, formatting: pure text transformations without state.
  Line endings are normalised before `Parse` sees a line, and a line of the model
  is what remains.
* The cap of `runCommand` falls between lines in `Probes`; a line cut in two is
  left out, as none of the four commands prints that much. That a probe takes the
  kept lines for the complete answer is in the model and no property objects to it:
  the code never asks `Truncated()` and promises nothing beyond the cap.
* A file overwritten in place while it is read: `ConfigReader` has files that grow,
  shrink, are replaced or removed, and exempts the ones that shrink (`shrunk`).
* That capacity and media are of one filesystem while directories and mounts change
  between the two readings: `OneFilesystem` compares them on a host that holds still.
* How a relative path is made absolute (`storage.go`, `workingDir`): a target is
  the path that results. In `StoragePath` nothing is unmounted and no device is
  unplugged during a run.
* An interface that the kernel does not let this process list counts as absent in
  `NetworkProbe`: the code cannot tell either.
* The race behind `validator.config_mode` (`validator.go:73`) is in the model,
  but the code promises nothing about it, so no property is stated.

## 6. Plan

Modelling: a composition in which `Preflight` reads its configuration through
`ConfigReader` and `ConfigParser` and its probes through `Probes`,
`NetworkProbe` and `StoragePath`. `ConfigVerdicts` is the part of it between the
parser and the checks on listeners. Elsewhere the seam between them is the record each
hands over: `Preflight` takes any such record from its worlds.

Proving: the safety properties of the runs are all stated by theorems. What is left
are results that no run states yet: action properties of the scans (a result once
decided is never revised: the chosen interface, the first `node_size`, the text of a
finished call), that the verdicts of `Preflight` on a host that holds still are
those on that host, and the two conditions of `StorageIsOneFilesystem` restated as
the weakest ones, on the ancestor at hand and the mounts above it.
