---------------------------- MODULE BoundedCall ----------------------------
(***************************************************************************)
(* What runCommand promises the probes, with no pipe, goroutine or signal: *)
(* a call is answered at most Bound ticks after it was made.  A nil error  *)
(* means that the command exited with status 0, and the text is then the   *)
(* beginning of all that was printed; with an error it is the beginning of *)
(* some of it.  The command prints what it likes, the descendants it left  *)
(* behind too, and it may never exit.                                      *)
(***************************************************************************)
EXTENDS Integers, Sequences

CONSTANTS Bound,      \* the longest a call may take, in ticks
          MaxOutput,  \* how many pieces of output are kept
          Pieces      \* what can be printed

VARIABLES status,   \* ready, running or done
          exited,   \* how the command exited: no, ok or bad
          printed,  \* every piece printed
          elapsed,  \* ticks since the call was made
          answer,   \* none, ok (a nil error) or error
          text      \* the text returned

callVars == <<status, exited, printed, elapsed, answer, text>>

FirstOf(n, s) == IF Len(s) <= n THEN s ELSE SubSeq(s, 1, n)

CallInit ==
  /\ status = "ready" /\ exited = "no" /\ printed = << >>
  /\ elapsed = 0 /\ answer = "none" /\ text = << >>

\* The executable is missing or cannot be started.
CallFails ==
  /\ status = "ready"
  /\ status' = "done" /\ answer' = "error" /\ text' = << >>
  /\ UNCHANGED <<exited, printed, elapsed>>

CallStarts ==
  /\ status = "ready"
  /\ status' = "running"
  /\ UNCHANGED <<exited, printed, elapsed, answer, text>>

CommandPrints(piece) ==
  /\ status = "running"
  /\ printed' = Append(printed, piece)
  /\ UNCHANGED <<status, exited, elapsed, answer, text>>

CommandExits(how) ==
  /\ status = "running" /\ exited = "no"
  /\ exited' = how
  /\ UNCHANGED <<status, printed, elapsed, answer, text>>

CallTicks ==
  /\ status = "running" /\ elapsed < Bound
  /\ elapsed' = elapsed + 1
  /\ UNCHANGED <<status, exited, printed, answer, text>>

CallSucceeds ==
  /\ status = "running" /\ exited = "ok"
  /\ status' = "done" /\ answer' = "ok" /\ text' = FirstOf(MaxOutput, printed)
  /\ UNCHANGED <<exited, printed, elapsed>>

\* A bad exit, the timeout, or a pipe still held after the exit.
CallGivesUp ==
  /\ status = "running"
  /\ status' = "done" /\ answer' = "error"
  /\ \E n \in 0 .. Len(printed) : text' = FirstOf(MaxOutput, FirstOf(n, printed))
  /\ UNCHANGED <<exited, printed, elapsed>>

CallReturns == CallFails \/ CallSucceeds \/ CallGivesUp

CallNext ==
  \/ CallReturns \/ CallStarts \/ CallTicks
  \/ \E piece \in Pieces : CommandPrints(piece)
  \/ \E how \in {"ok", "bad"} : CommandExits(how)

CallSpec == CallInit /\ [][CallNext]_callVars

=============================================================================
