--------------------------- MODULE CommandRunner ---------------------------
(***************************************************************************)
(* runCommand (internal/probe/command.go) with the os/exec machinery it    *)
(* configures: CommandContext with a timeout, WaitDelay, and one           *)
(* cappedWriter as both Stdout and Stderr.  os/exec gives both streams one *)
(* pipe and one copying goroutine (the copier), starts a goroutine that    *)
(* watches the context (the watcher), and Run waits for the process, then  *)
(* for the watcher's result, then for the copier.                          *)
(*                                                                         *)
(* The child prints, may fork a descendant that inherits the pipe (the     *)
(* heir), and may never exit; the heir may outlive it.  Time is a clock;   *)
(* a step of Run or of the watcher that is due is taken before time        *)
(* passes, and a killed process is gone after at most KillLag.  The        *)
(* definitions of os/exec are external: they are modelled from how it      *)
(* behaves with the fields this code sets.                                 *)
(***************************************************************************)
EXTENDS Integers, Sequences, FiniteSetsExt

CONSTANTS Timeout,    \* the timeout argument, in ticks
          WaitDelay,  \* command.WaitDelay, in ticks
          KillLag,    \* how long a killed process may take to disappear
          MaxOutput,  \* maxCommandOutput
          PipeSize,   \* capacity of the kernel pipe
          Prints      \* bound: how many pieces of output are ever printed

ASSUME TimingAssumption ==
  /\ Timeout \in Nat \ {0} /\ WaitDelay \in Nat \ {0} /\ KillLag \in Nat
ASSUME SizeAssumption ==
  /\ MaxOutput \in Nat \ {0} /\ PipeSize \in Nat \ {0} /\ Prints \in Nat

VARIABLES main,      \* where the goroutine of runCommand is
          err,       \* the error Run will return
          text,      \* output.String() after Run
          child,     \* the process: none, running, zombie or reaped
          code,      \* how it ended: none, ok, fail or killed
          killAt,    \* when it was first sent SIGKILL, or Never
          heir,      \* the descendant that inherited the pipe
          pipe,      \* what was printed and not yet read
          pipeOpen,  \* whether the read end is open
          copier,    \* none, reading, writing, sent or collected
          held,      \* what the copier read and not yet wrote
          copied,    \* every piece given to the cappedWriter
          watcher,   \* none, watching, grace, closing, offering or gone
          watchErr,  \* the error in the watcher's result
          deadline,  \* when the WaitDelay timer fires, or Never
          now,       \* the clock
          printed    \* history: every piece printed, by whoever holds the pipe

vars == <<main, err, text, child, code, killAt, heir, pipe, pipeOpen, copier, held,
          copied, watcher, watchErr, deadline, now, printed>>

procVars == <<child, code, killAt, heir>>
pipeVars == <<pipe, pipeOpen, copier, held, copied>>
watchVars == <<watcher, watchErr>>

Never == -1
FirstOf(n, s) == IF Len(s) <= n THEN s ELSE SubSeq(s, 1, n)
Due(at) == at # Never /\ now >= at

\* Seeded fault: exec.Command in place of exec.CommandContext.
BrokenExpired == FALSE

\* context.WithTimeout: the context of the command is done.
Expired == now >= Timeout

\* Seeded fault: WaitDelay is left at zero, so that there is no timer.
BrokenGraceEnd == Never

\* command.WaitDelay: when a timer started now fires.
GraceEnd == now + WaitDelay

Init ==
  /\ main = "ready" /\ err = "none" /\ text = << >>
  /\ child = "none" /\ code = "none" /\ killAt = Never /\ heir = "none"
  /\ pipe = << >> /\ pipeOpen = FALSE
  /\ copier = "none" /\ held = << >> /\ copied = << >>
  /\ watcher = "none" /\ watchErr = "none"
  /\ deadline = Never /\ now = 0 /\ printed = << >>

-----------------------------------------------------------------------------
(* The goroutine that called runCommand                                    *)

\* The executable is missing or cannot be started: nothing runs.
StartFails ==
  /\ main = "ready"
  /\ main' = "ran" /\ err' = "start"
  /\ UNCHANGED <<text, procVars, pipeVars, watchVars, deadline, now, printed>>

Start ==
  /\ main = "ready"
  /\ main' = "waiting"
  /\ child' = "running" /\ pipeOpen' = TRUE
  /\ copier' = "reading" /\ watcher' = "watching"
  /\ UNCHANGED <<err, text, code, killAt, heir, pipe, held, copied, watchErr, deadline,
                 now, printed>>

\* Process.Wait returns: only exit status 0 is a success.
ProcessWait ==
  /\ main = "waiting" /\ child = "zombie"
  /\ main' = "watch" /\ child' = "reaped"
  /\ err' = IF code = "ok" THEN "none" ELSE "exit"
  /\ UNCHANGED <<text, code, killAt, heir, pipeVars, watchVars, deadline, now, printed>>

\* Wait takes the watcher's result.  A watcher still in its grace period
\* hands over its running timer; otherwise awaitGoroutines starts one.
TakeWatchResult ==
  /\ main = "watch" /\ watcher \in {"watching", "grace", "offering"}
  /\ main' = "await" /\ watcher' = "gone"
  /\ err' = IF err = "none" THEN watchErr ELSE err
  /\ deadline' = IF watcher = "watching" THEN GraceEnd ELSE deadline
  /\ UNCHANGED <<text, procVars, pipeVars, watchErr, now, printed>>

\* The copier ended by itself, or the watcher has already collected it.
CopierEnded ==
  /\ main = "await" /\ copier \in {"sent", "collected"}
  /\ main' = "ran" /\ copier' = "collected"
  /\ pipeOpen' = FALSE
  /\ UNCHANGED <<err, text, procVars, pipe, held, copied, watchVars, deadline, now, printed>>

\* WaitDelay expired with the pipe still held open: close it.
AwaitExpires ==
  /\ main = "await" /\ copier # "collected" /\ Due(deadline)
  /\ main' = "drain" /\ pipeOpen' = FALSE
  /\ err' = IF err = "none" THEN "waitdelay" ELSE err
  /\ UNCHANGED <<text, procVars, pipe, copier, held, copied, watchVars, deadline, now, printed>>

DrainEnds ==
  /\ main = "drain" /\ copier = "sent"
  /\ main' = "ran" /\ copier' = "collected"
  /\ UNCHANGED <<err, text, procVars, pipe, pipeOpen, held, copied, watchVars, deadline,
                 now, printed>>

\* Seeded fault: the exit code is returned for the error.
BrokenReturnCode ==
  /\ main = "ran"
  /\ main' = "done" /\ text' = FirstOf(MaxOutput, copied) /\ err' = code
  /\ UNCHANGED <<procVars, pipeVars, watchVars, deadline, now, printed>>

\* Seeded fault: an error does not matter once there is some output.
BrokenReturnError ==
  /\ main = "ran"
  /\ main' = "done" /\ text' = FirstOf(MaxOutput, copied)
  /\ err' = IF copied = << >> THEN err ELSE "none"
  /\ UNCHANGED <<procVars, pipeVars, watchVars, deadline, now, printed>>

\* Seeded fault: the process is waited for, but not the copier.
BrokenReturnEarly ==
  /\ main \in {"ran", "await"}
  /\ main' = "done" /\ text' = FirstOf(MaxOutput, copied)
  /\ UNCHANGED <<err, procVars, pipeVars, watchVars, deadline, now, printed>>

\* text := output.String(), and runCommand returns it with the error.
Return ==
  /\ main = "ran"
  /\ main' = "done" /\ text' = FirstOf(MaxOutput, copied)
  /\ UNCHANGED <<err, procVars, pipeVars, watchVars, deadline, now, printed>>

Run == StartFails \/ Start \/ ProcessWait \/ TakeWatchResult \/ CopierEnded
         \/ AwaitExpires \/ DrainEnds \/ Return

-----------------------------------------------------------------------------
(* The watcher                                                             *)

\* Sending SIGKILL works until the process has been waited for.
KillSent == child \in {"running", "zombie"}

SendKill == killAt' = IF killAt = Never /\ child = "running" THEN now ELSE killAt

\* The context expires: cancel, and give the process WaitDelay to go.
ContextDone ==
  /\ watcher = "watching" /\ Expired
  /\ watcher' = "grace" /\ deadline' = GraceEnd
  /\ SendKill
  /\ watchErr' = IF KillSent THEN "ctx" ELSE "none"
  /\ UNCHANGED <<main, err, text, child, code, heir, pipeVars, now, printed>>

\* WaitDelay expired before Wait asked for the result: kill again, and close
\* the pipe unless the copier has already ended.
GraceExpires ==
  /\ watcher = "grace" /\ Due(deadline)
  /\ SendKill
  /\ IF copier = "sent"
     THEN watcher' = "offering" /\ copier' = "collected" /\ UNCHANGED <<pipeOpen, watchErr>>
     ELSE /\ watcher' = "closing" /\ pipeOpen' = FALSE
          /\ watchErr' = IF watchErr = "none" /\ ~KillSent THEN "waitdelay" ELSE watchErr
          /\ UNCHANGED copier
  /\ UNCHANGED <<main, err, text, child, code, heir, pipe, held, copied, deadline, now, printed>>

WatcherCollects ==
  /\ watcher = "closing" /\ copier = "sent"
  /\ watcher' = "offering" /\ copier' = "collected"
  /\ UNCHANGED <<main, err, text, procVars, pipe, pipeOpen, held, copied, watchErr, deadline,
                 now, printed>>

Watch == ContextDone \/ GraceExpires \/ WatcherCollects

-----------------------------------------------------------------------------
(* The copier: io.Copy from the pipe to the cappedWriter                   *)

CopierRead ==
  /\ copier = "reading" /\ pipeOpen /\ pipe # << >>
  /\ copier' = "writing" /\ held' = pipe /\ pipe' = << >>
  /\ UNCHANGED <<main, err, text, procVars, pipeOpen, copied, watchVars, deadline, now, printed>>

\* Seeded fault: a full writer reports a short write, and io.Copy stops.
BrokenCopierWrite ==
  /\ copier = "writing"
  /\ copied' = copied \o held /\ held' = << >>
  /\ copier' = IF Len(copied) + Len(held) > MaxOutput THEN "sent" ELSE "reading"
  /\ UNCHANGED <<main, err, text, procVars, pipe, pipeOpen, watchVars, deadline, now, printed>>

\* io.Copy goes on only because Write reports every piece as written.
CopierWrite ==
  /\ copier = "writing"
  /\ copier' = "reading" /\ copied' = copied \o held /\ held' = << >>
  /\ UNCHANGED <<main, err, text, procVars, pipe, pipeOpen, watchVars, deadline, now, printed>>

WriteEndsClosed == child # "running" /\ heir # "alive"

\* End of file once nobody holds the write end, or a closed read end.
CopierStops ==
  /\ copier = "reading"
  /\ ~pipeOpen \/ (pipe = << >> /\ WriteEndsClosed)
  /\ copier' = "sent"
  /\ UNCHANGED <<main, err, text, procVars, pipe, pipeOpen, held, copied, watchVars, deadline,
                 now, printed>>

-----------------------------------------------------------------------------
(* The child and its descendant                                            *)

\* A print into a full pipe blocks: it has no step.
Emit(who) ==
  /\ pipeOpen /\ Len(pipe) < PipeSize
  /\ Len(printed) < Prints
  /\ pipe' = Append(pipe, who) /\ printed' = Append(printed, who)
  /\ UNCHANGED <<main, err, text, procVars, pipeOpen, copier, held, copied, watchVars,
                 deadline, now>>

ChildPrints == child = "running" /\ Emit("child")

HeirPrints == heir = "alive" /\ Emit("heir")

ChildForks ==
  /\ child = "running" /\ heir = "none"
  /\ heir' = "alive"
  /\ UNCHANGED <<main, err, text, child, code, killAt, pipeVars, watchVars, deadline, now,
                 printed>>

ChildEnds(how) ==
  /\ child = "running"
  /\ child' = "zombie" /\ code' = how
  /\ UNCHANGED <<main, err, text, killAt, heir, pipeVars, watchVars, deadline, now, printed>>

ChildExits == \E how \in {"ok", "fail"} : ChildEnds(how)

ChildDies == killAt # Never /\ ChildEnds("killed")

HeirExits ==
  /\ heir = "alive"
  /\ heir' = "gone"
  /\ UNCHANGED <<main, err, text, child, code, killAt, pipeVars, watchVars, deadline, now,
                 printed>>

-----------------------------------------------------------------------------
(* Time                                                                    *)

\* What is taken before the clock moves.  Reading the pipe is not: the
\* copier may be slow, which is what WaitDelay also has to cope with.
Urgent ==
  \/ main \in {"ready", "ran"}
  \/ main = "waiting" /\ child = "zombie"
  \/ main = "watch" /\ watcher \in {"watching", "grace", "offering"}
  \/ main = "await" /\ (copier \in {"sent", "collected"} \/ Due(deadline))
  \/ main = "drain" /\ copier = "sent"
  \/ watcher = "watching" /\ Expired
  \/ watcher = "grace" /\ Due(deadline)
  \/ watcher = "closing" /\ copier = "sent"
  \/ copier = "writing" \/ (copier = "reading" /\ ~pipeOpen)
  \/ child = "running" /\ killAt # Never /\ now >= killAt + KillLag

\* The last moment runCommand may still be running.
LastMoment == Timeout + Max({WaitDelay, KillLag})

\* Bound: the clock stops once the call is over, or hopelessly late.
Tick ==
  /\ ~Urgent
  /\ main # "done" /\ now <= LastMoment
  /\ now' = now + 1
  /\ UNCHANGED <<main, err, text, procVars, pipeVars, watchVars, deadline, printed>>

Next ==
  \/ Run \/ Watch \/ CopierRead \/ CopierWrite \/ CopierStops
  \/ ChildPrints \/ HeirPrints \/ ChildForks \/ ChildExits \/ ChildDies \/ HeirExits
  \/ Tick

(***************************************************************************)
(* The goroutines run, time passes and SIGKILL works.  Nothing is assumed  *)
(* of the child or the heir: they may hang, print or hold the pipe.        *)
(***************************************************************************)
Spec ==
  /\ Init /\ [][Next]_vars
  /\ WF_vars(Run) /\ WF_vars(Watch) /\ WF_vars(CopierRead) /\ WF_vars(CopierWrite)
  /\ WF_vars(CopierStops) /\ WF_vars(ChildDies) /\ SF_vars(Tick)

-----------------------------------------------------------------------------
(* Properties                                                              *)

Pieces == Seq({"child", "heir"})

\* Each variable holds a value the code or the kernel can give it.
TypeOK ==
  /\ main \in {"ready", "waiting", "watch", "await", "drain", "ran", "done"}
  /\ err \in {"none", "start", "exit", "ctx", "waitdelay"}
  /\ watchErr \in {"none", "ctx", "waitdelay"}
  /\ child \in {"none", "running", "zombie", "reaped"}
  /\ code \in {"none", "ok", "fail", "killed"}
  /\ heir \in {"none", "alive", "gone"}
  /\ copier \in {"none", "reading", "writing", "sent", "collected"}
  /\ watcher \in {"none", "watching", "grace", "closing", "offering", "gone"}
  /\ pipeOpen \in BOOLEAN
  /\ now \in Nat /\ deadline \in Nat \cup {Never} /\ killAt \in Nat \cup {Never}
  /\ {pipe, held, copied, text, printed} \subseteq Pieces

Returned == main = "done"
Succeeded == Returned /\ err = "none"

\* A nil error means what the callers take it to mean: the command exited
\* with status 0 and the text is the beginning of everything it printed,
\* nothing lost in the pipe or in the copier, whatever the timers did.
SuccessIsComplete ==
  Succeeded => code = "ok" /\ copied = printed /\ text = FirstOf(MaxOutput, printed)

\* Nothing of the call outlives it: the process has been waited for, both
\* goroutines have ended, and no late write changes the buffer the text was
\* taken from.
NothingOutlivesTheCall ==
  Returned /\ err # "start" =>
    /\ child = "reaped" /\ watcher = "gone" /\ copier = "collected"
    /\ text = FirstOf(MaxOutput, copied)

\* Reaching the cap never stops the copier, so until its timeout a child
\* finds somebody draining the pipe.
StaysDrained == child = "running" /\ killAt = Never => copier \in {"reading", "writing"}

\* Every call returns, however the child and its descendant behave.
CallReturns == <>Returned

\* The call seen from outside, in the variables of BoundedCall.
CallStatus ==
  CASE main = "ready" \/ (main = "ran" /\ err = "start") -> "ready"
    [] Returned -> "done"
    [] OTHER -> "running"

CallExited == CASE code = "none" -> "no" [] code = "ok" -> "ok" [] OTHER -> "bad"

CallAnswer ==
  CASE ~Returned -> "none" [] Succeeded -> "ok" [] OTHER -> "error"

Call == INSTANCE BoundedCall WITH
  Bound <- LastMoment, Pieces <- {"child", "heir"}, elapsed <- now,
  status <- CallStatus, exited <- CallExited, answer <- CallAnswer

\* Pipe, copier, watcher and timers together are one bounded call: however
\* they interleave, a caller sees nothing that BoundedCall does not allow, which
\* is what the probes rely on when they parse the text of a nil error.  The call
\* is over by the timeout plus one WaitDelay (or the time the kernel takes to end
\* a killed process), even with a descendant holding the pipe.
ImplementsBoundedCall == Call!CallSpec

=============================================================================
