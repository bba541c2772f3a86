---------------------------- MODULE CappedWriter ----------------------------
(***************************************************************************)
(* internal/probe/capped_writer.go: the buffer that retains the output of a *)
(* child process.  Any number of goroutines call Write, String and         *)
(* Truncated on one instance; every body runs between mu.Lock() and the    *)
(* deferred mu.Unlock().  A body is several steps here, one per access to   *)
(* shared memory, so that what the mutex is for can be seen: the room is    *)
(* computed from buf.Len() before buf.Write uses it, and truncated is set   *)
(* after the bytes are stored.                                              *)
(*                                                                         *)
(* log is a history variable: every byte Write was given, in the order the *)
(* writes took effect.  The code keeps no such thing.                      *)
(***************************************************************************)
EXTENDS Integers, Sequences

CONSTANTS Writers,   \* goroutines that call Write
          Readers,   \* goroutines that call String or Truncated
          Nobody,    \* the holder of a free mutex
          Byte,      \* the bytes a child prints
          Chunk,     \* the slices Write is called with
          Max,       \* w.max
          Budget     \* bound: no new Write once the log has this many bytes

Threads == Writers \cup Readers

ASSUME MaxAssumption    == Max \in Nat
ASSUME BudgetAssumption == Budget \in Nat
ASSUME ChunkAssumption  == Chunk \subseteq Seq(Byte)
ASSUME ThreadAssumption == /\ Writers \cap Readers = {}
                           /\ Nobody \notin Threads

VARIABLES buf,        \* w.buf
          truncated,  \* w.truncated
          mu,         \* the holder of w.mu, or Nobody
          pc,         \* where each goroutine is in its call
          arg,        \* the slice p of each writer
          room,       \* the local room of each writer
          wrote,      \* the count each writer's last call returned
          text,       \* what each reader's last String returned
          cut,        \* what each reader's last Truncated returned
          log         \* history: every byte written so far

vars == <<buf, truncated, mu, pc, arg, room, wrote, text, cut, log>>

FirstOf(n, s) == IF Len(s) <= n THEN s ELSE SubSeq(s, 1, n)

\* newCappedWriter: an empty buffer nobody has truncated.
Init ==
  /\ buf = << >> /\ truncated = FALSE /\ mu = Nobody
  /\ pc = [t \in Threads |-> "idle"]
  /\ arg = [w \in Writers |-> << >>]
  /\ room = [w \in Writers |-> 0]
  /\ wrote = [w \in Writers |-> 0]
  /\ text = [r \in Readers |-> << >>]
  /\ cut = [r \in Readers |-> FALSE]
  /\ log = << >>

Goto(t, from, to) == pc[t] = from /\ pc' = [pc EXCEPT ![t] = to]

-----------------------------------------------------------------------------
(* The mutex                                                               *)

\* Seeded fault: the lock is taken by everybody.
BrokenMutexFree == TRUE

MutexFree == mu = Nobody

Lock(t, from, to) ==
  /\ Goto(t, from, to)
  /\ MutexFree
  /\ mu' = t
  /\ UNCHANGED <<buf, truncated, arg, room, wrote, text, cut, log>>

-----------------------------------------------------------------------------
(* Write                                                                   *)

CallWrite(w) ==
  /\ Len(log) < Budget
  /\ Goto(w, "idle", "write")
  /\ \E p \in Chunk : arg' = [arg EXCEPT ![w] = p]
  /\ UNCHANGED <<buf, truncated, mu, room, wrote, text, cut, log>>

LockWrite(w) == Lock(w, "write", "room")

ReadRoom(w) ==
  /\ Goto(w, "room", "store")
  /\ room' = [room EXCEPT ![w] = Max - Len(buf)]
  /\ UNCHANGED <<buf, truncated, mu, arg, wrote, text, cut, log>>

\* Seeded fault: the buffer is started afresh after a truncation.
BrokenStore(w, to, kept) ==
  /\ Goto(w, "store", to)
  /\ buf' = IF truncated THEN kept ELSE buf \o kept
  /\ log' = log \o arg[w]
  /\ UNCHANGED <<truncated, mu, arg, room, wrote, text, cut>>

\* Each store appends part of the slice to the buffer; log records all of it.
Store(w, to, kept) ==
  /\ Goto(w, "store", to)
  /\ buf' = buf \o kept
  /\ log' = log \o arg[w]
  /\ UNCHANGED <<truncated, mu, arg, room, wrote, text, cut>>

Fits(w) == Len(arg[w]) <= room[w]

\* Seeded fault: one byte too many.
BrokenKept(w) == SubSeq(arg[w], 1, room[w] + 1)

Kept(w) == SubSeq(arg[w], 1, room[w])

\* if len(p) <= room: w.buf.Write(p)
StoreAll(w) == room[w] > 0 /\ Fits(w) /\ Store(w, "unlock", arg[w])

\* else: w.buf.Write(p[:room])
StorePart(w) == room[w] > 0 /\ ~Fits(w) /\ Store(w, "flag", Kept(w))

\* Seeded fault: an empty slice counts as a loss.
BrokenStoreNone(w) == room[w] <= 0 /\ Store(w, "flag", << >>)

\* No room: nothing is stored, and only a non-empty slice is lost.
StoreNone(w) ==
  /\ room[w] <= 0
  /\ Store(w, IF arg[w] = << >> THEN "unlock" ELSE "flag", << >>)

SetTruncated(w) ==
  /\ Goto(w, "flag", "unlock")
  /\ truncated' = TRUE
  /\ UNCHANGED <<buf, mu, arg, room, wrote, text, cut, log>>

\* Seeded fault: the room left is reported in place of the bytes taken.
BrokenReported(w) == room[w] - Len(arg[w])

Reported(w) == Len(arg[w])

\* Seeded fault: the unlock is forgotten.
BrokenReturnWrite(w) ==
  /\ w \in Writers
  /\ Goto(w, "unlock", "idle")
  /\ wrote' = [wrote EXCEPT ![w] = Reported(w)]
  /\ UNCHANGED <<buf, truncated, mu, arg, room, text, cut, log>>

\* return len(p), nil, then the deferred Unlock
ReturnWrite(w) ==
  /\ w \in Writers
  /\ Goto(w, "unlock", "idle")
  /\ mu' = Nobody
  /\ wrote' = [wrote EXCEPT ![w] = Reported(w)]
  /\ UNCHANGED <<buf, truncated, arg, room, text, cut, log>>

-----------------------------------------------------------------------------
(* String and Truncated                                                    *)

CallString(r) ==
  /\ Goto(r, "idle", "string")
  /\ UNCHANGED <<buf, truncated, mu, arg, room, wrote, text, cut, log>>

CallTruncated(r) ==
  /\ Goto(r, "idle", "truncated")
  /\ UNCHANGED <<buf, truncated, mu, arg, room, wrote, text, cut, log>>

LockString(r) == Lock(r, "string", "loadText")

\* Seeded fault: the flag is read without the lock.
BrokenLockTruncated(r) ==
  /\ Goto(r, "truncated", "loadFlag")
  /\ UNCHANGED <<buf, truncated, mu, arg, room, wrote, text, cut, log>>

LockTruncated(r) == Lock(r, "truncated", "loadFlag")

LoadText(r) ==
  /\ Goto(r, "loadText", "unlock")
  /\ text' = [text EXCEPT ![r] = buf]
  /\ UNCHANGED <<buf, truncated, mu, arg, room, wrote, cut, log>>

LoadFlag(r) ==
  /\ Goto(r, "loadFlag", "unlock")
  /\ cut' = [cut EXCEPT ![r] = truncated]
  /\ UNCHANGED <<buf, truncated, mu, arg, room, wrote, text, log>>

ReturnRead(r) ==
  /\ r \in Readers
  /\ Goto(r, "unlock", "idle")
  /\ mu' = Nobody
  /\ UNCHANGED <<buf, truncated, arg, room, wrote, text, cut, log>>

-----------------------------------------------------------------------------

\* A body once the mutex is held, up to the return.
Body(t) ==
  \/ /\ t \in Writers
     /\ \/ ReadRoom(t) \/ StoreAll(t) \/ StorePart(t) \/ StoreNone(t)
        \/ SetTruncated(t) \/ ReturnWrite(t)
  \/ /\ t \in Readers
     /\ LoadText(t) \/ LoadFlag(t) \/ ReturnRead(t)

Acquire(t) ==
  \/ t \in Writers /\ LockWrite(t)
  \/ t \in Readers /\ (LockString(t) \/ LockTruncated(t))

Next ==
  \/ \E w \in Writers : CallWrite(w)
  \/ \E r \in Readers : CallString(r) \/ CallTruncated(r)
  \/ \E t \in Threads : Acquire(t) \/ Body(t)

Spec == Init /\ [][Next]_vars

(***************************************************************************)
(* A goroutine inside a body keeps running, and a waiting one is not       *)
(* overtaken forever: sync.Mutex hands the lock over in arrival order once *)
(* a waiter has starved for a millisecond.  Nobody is obliged to call.     *)
(***************************************************************************)
FairSpec ==
  /\ Spec
  /\ \A t \in Threads : WF_vars(Body(t)) /\ SF_vars(Acquire(t))

-----------------------------------------------------------------------------
(* Properties                                                              *)

WriterPC == {"idle", "write", "room", "store", "flag", "unlock"}
ReaderPC == {"idle", "string", "truncated", "loadText", "loadFlag", "unlock"}

\* Each variable holds a value of the type the code gives it.
TypeOK ==
  /\ buf \in Seq(Byte) /\ truncated \in BOOLEAN
  /\ mu \in Threads \cup {Nobody}
  /\ pc \in [Threads -> WriterPC \cup ReaderPC]
  /\ \A w \in Writers : pc[w] \in WriterPC
  /\ \A r \in Readers : pc[r] \in ReaderPC
  /\ arg \in [Writers -> Seq(Byte)]
  /\ room \in [Writers -> Int]
  /\ wrote \in [Writers -> Nat]
  /\ text \in [Readers -> Seq(Byte)]
  /\ cut \in [Readers -> BOOLEAN]
  /\ log \in Seq(Byte)

\* Whatever writers interleave, the retained bytes never exceed the cap (the
\* memory bound of capped_writer.go:8), not even in the middle of a Write.
BoundedBuffer == Len(buf) <= Max

\* What is kept is the beginning of the output with no gap and no
\* reordering, although every Write decides on a room it read earlier.
KeepsPrefix == buf = FirstOf(Max, log)

\* When nobody holds the mutex, truncated says exactly whether a byte was
\* dropped: no loss goes unflagged and no complete output is flagged.
FlagExact == MutexFree => (truncated <=> Len(log) > Max)

\* Nothing already retained is ever rewritten, and once a reader can have
\* seen the truncation flag the text is final: a later Write changes neither.
FrozenOnceTruncated ==
  [][/\ Len(buf) <= Len(buf') /\ SubSeq(buf', 1, Len(buf)) = buf
     /\ truncated => truncated' /\ buf' = buf]_vars

\* The code implements the abstract sink: each call takes effect atomically,
\* at its store or load, between its call and its return.
StatusOf(t) ==
  CASE pc[t] = "idle" -> "idle"
    [] pc[t] \in {"flag", "unlock"} -> "done"
    [] OTHER -> "called"

statusBar == [t \in Threads |-> StatusOf(t)]

Sink == INSTANCE PrefixSink WITH status <- statusBar

ImplementsSink == Sink!SinkSpec

\* Write always takes everything it is given: no call blocks for good, so
\* the goroutine that drains the child's pipe always comes back for more.
EveryCallReturns == \A t \in Threads : pc[t] # "idle" ~> pc[t] = "idle"

=============================================================================
