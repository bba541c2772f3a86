----------------------------- MODULE PrefixSink -----------------------------
(***************************************************************************)
(* What a bounded output sink promises its callers, with no mutex and no   *)
(* buffer: it has been given a log of bytes, it accepts every write whole, *)
(* a reader gets the first Max bytes of the log, and the truncation flag   *)
(* says exactly whether the log is longer than that.  Each operation takes *)
(* effect at one instant between its call and its return.                  *)
(***************************************************************************)
EXTENDS Integers, Sequences

CONSTANTS Writers,   \* threads that write
          Readers,   \* threads that read
          Chunk,     \* what one write can be given
          Max        \* how many bytes are kept

VARIABLES log,      \* every byte given to the sink, in the order it took effect
          status,   \* per thread: "idle", "called" (no effect yet) or "done"
          arg,      \* per writer: the bytes of its current write
          wrote,    \* per writer: the count its last write reported
          text,     \* per reader: the bytes its last read of the buffer returned
          cut       \* per reader: what its last read of the flag returned

sinkVars == <<log, status, arg, wrote, text, cut>>

\* The first n elements of a sequence, or all of it when it is shorter.
FirstOf(n, s) == IF Len(s) <= n THEN s ELSE SubSeq(s, 1, n)

SinkInit ==
  /\ log = << >>
  /\ status = [t \in Writers \cup Readers |-> "idle"]
  /\ arg = [w \in Writers |-> << >>]
  /\ wrote = [w \in Writers |-> 0]
  /\ text = [r \in Readers |-> << >>]
  /\ cut = [r \in Readers |-> FALSE]

SinkCall(t) ==
  /\ status[t] = "idle"
  /\ status' = [status EXCEPT ![t] = "called"]
  /\ UNCHANGED <<log, wrote, text, cut>>
  /\ IF t \in Writers
     THEN \E p \in Chunk : arg' = [arg EXCEPT ![t] = p]
     ELSE UNCHANGED arg

SinkWrite(w) ==
  /\ status[w] = "called"
  /\ status' = [status EXCEPT ![w] = "done"]
  /\ log' = log \o arg[w]
  /\ UNCHANGED <<arg, wrote, text, cut>>

SinkText(r) ==
  /\ status[r] = "called"
  /\ status' = [status EXCEPT ![r] = "done"]
  /\ text' = [text EXCEPT ![r] = FirstOf(Max, log)]
  /\ UNCHANGED <<log, arg, wrote, cut>>

SinkCut(r) ==
  /\ status[r] = "called"
  /\ status' = [status EXCEPT ![r] = "done"]
  /\ cut' = [cut EXCEPT ![r] = Len(log) > Max]
  /\ UNCHANGED <<log, arg, wrote, text>>

\* A write reports the whole chunk as written, however little of it is kept.
SinkReturn(t) ==
  /\ status[t] = "done"
  /\ status' = [status EXCEPT ![t] = "idle"]
  /\ UNCHANGED <<log, arg, text, cut>>
  /\ IF t \in Writers
     THEN wrote' = [wrote EXCEPT ![t] = Len(arg[t])]
     ELSE UNCHANGED wrote

SinkNext ==
  \/ \E t \in Writers \cup Readers : SinkCall(t) \/ SinkReturn(t)
  \/ \E w \in Writers : SinkWrite(w)
  \/ \E r \in Readers : SinkText(r) \/ SinkCut(r)

SinkSpec == SinkInit /\ [][SinkNext]_sinkVars

=============================================================================
