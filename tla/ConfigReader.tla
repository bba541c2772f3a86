---------------------------- MODULE ConfigReader ----------------------------
(***************************************************************************)
(* xrpld.ReadFile (internal/xrpld/parse.go) reading a configuration that   *)
(* other processes keep changing: they append to it, truncate it in place, *)
(* rename another file over it, or remove it.  A file is the sequence of   *)
(* its pieces, one piece standing for the bytes between two sizes the code *)
(* can tell apart.  The file descriptor keeps naming the file it was       *)
(* opened on, whatever its path names later.                               *)
(***************************************************************************)
EXTENDS Integers, Sequences

CONSTANTS Files,      \* the files that may be at the path
          Kind,       \* of each file: "regular", "directory" or "fifo"
          Missing,    \* what a path with no file names
          Contents,   \* what a regular file may hold at the start
          Piece,      \* what a file is made of
          Appended,   \* what a writer may append
          Bad,        \* a piece no valid configuration contains
          Max,        \* MaxConfigBytes, in pieces
          Room        \* bound: writers let no file grow beyond this

ASSUME SizeAssumption == Max \in Nat /\ Room \in Nat
ASSUME FileAssumption ==
  /\ Kind \in [Files -> {"regular", "directory", "fifo"}]
  /\ Missing \notin Files
  /\ Contents \subseteq Seq(Piece) /\ Appended \subseteq Piece

VARIABLES path,     \* the file the path names, or Missing
          data,     \* the content of each file
          pc,       \* where ReadFile is
          fd,       \* the open file, or Missing
          got,      \* the bytes io.ReadAll has collected
          outcome,  \* what ReadFile returned
          atEOF,    \* history: the open file's content when a read found its end
          shrunk    \* history: whether the open file was truncated in place

vars == <<path, data, pc, fd, got, outcome, atEOF, shrunk>>

Regular == {f \in Files : Kind[f] = "regular"}

Init ==
  /\ path \in Files \cup {Missing}
  /\ data \in [Files -> Contents \cup {<< >>}]
  /\ \A f \in Files \ Regular : data[f] = << >>
  /\ pc = "open" /\ fd = Missing /\ got = << >> /\ outcome = "none"
  /\ atEOF = << >> /\ shrunk = FALSE

-----------------------------------------------------------------------------
(* ReadFile                                                                *)

Finish(result) ==
  /\ pc' = "done" /\ outcome' = result
  /\ UNCHANGED <<path, data, fd, got, shrunk>>

\* os.Open of a fifo waits for somebody to open it for writing.
OpenBlocks == path # Missing /\ Kind[path] = "fifo"

Open ==
  /\ pc = "open" /\ ~OpenBlocks
  /\ IF path = Missing
     THEN Finish("openError")
     ELSE /\ pc' = "stat" /\ fd' = path
          /\ UNCHANGED <<path, data, got, outcome, shrunk>>
  /\ UNCHANGED atEOF

\* Seeded fault: os.Stat(path) in place of file.Stat().
BrokenChecked == IF path = Missing THEN fd ELSE path

\* The check is made on the open file, not on the path.
Checked == fd

Stat ==
  /\ pc = "stat"
  /\ IF Kind[Checked] # "regular" THEN Finish("notRegular")
     ELSE IF Len(data[Checked]) > Max THEN Finish("tooLarge")
     ELSE /\ pc' = "read"
          /\ UNCHANGED <<path, data, fd, got, outcome, shrunk>>
  /\ UNCHANGED atEOF

StatFails == pc = "stat" /\ Finish("statError") /\ UNCHANGED atEOF

\* Seeded fault: exactly the limit is asked for.
BrokenLimit == Max

\* Seeded fault: io.ReadAll without io.LimitReader.
BrokenNoLimit == Len(data[fd]) + 1

\* One byte beyond the limit is asked for.
Limit == Max + 1

Left == Len(data[fd]) - Len(got)

\* Seeded fault: each read opens the path again.
BrokenReadSome ==
  /\ pc = "read" /\ path \in Regular /\ Len(got) < Limit
  /\ \E n \in 1 .. Len(data[path]) - Len(got) :
       /\ Len(got) + n <= Limit
       /\ got' = got \o SubSeq(data[path], Len(got) + 1, Len(got) + n)
  /\ UNCHANGED <<path, data, pc, fd, outcome, atEOF, shrunk>>

\* One read of the LimitReader that returns something.
ReadSome ==
  /\ pc = "read" /\ Len(got) < Limit /\ Left > 0
  /\ \E n \in 1 .. Left :
       /\ Len(got) + n <= Limit
       /\ got' = got \o SubSeq(data[fd], Len(got) + 1, Len(got) + n)
  /\ UNCHANGED <<path, data, pc, fd, outcome, atEOF, shrunk>>

\* The read that ends io.ReadAll: the end of the file, or of the limit.
ReadEnd ==
  /\ pc = "read" /\ (Len(got) >= Limit \/ Left <= 0)
  /\ pc' = "check" /\ atEOF' = data[fd]
  /\ UNCHANGED <<path, data, fd, got, outcome, shrunk>>

ReadFails == pc = "read" /\ Finish("readError") /\ UNCHANGED atEOF

Parses(s) == \A i \in 1 .. Len(s) : s[i] # Bad

TooLong == Len(got) > Max

\* Seeded fault: what is too long is cut, and used under another name.
BrokenCheck ==
  /\ pc = "check"
  /\ IF TooLong THEN Finish("truncated")
     ELSE IF Parses(got) THEN Finish("accepted") ELSE Finish("parseError")
  /\ UNCHANGED atEOF

\* The length check on what was read, then Parse.
Check ==
  /\ pc = "check"
  /\ IF TooLong THEN Finish("tooLarge")
     ELSE IF Parses(got) THEN Finish("accepted") ELSE Finish("parseError")
  /\ UNCHANGED atEOF

\* What the reader does when the operating system answers.
Proceed == Open \/ Stat \/ ReadSome \/ ReadEnd \/ Check

ReadFile == Proceed \/ StatFails \/ ReadFails

-----------------------------------------------------------------------------
(* The other processes                                                     *)

Append1(f) ==
  /\ Len(data[f]) < Room
  /\ \E p \in Appended : data' = [data EXCEPT ![f] = Append(@, p)]
  /\ UNCHANGED <<path, pc, fd, got, outcome, atEOF, shrunk>>

Truncate(f) ==
  /\ data' = [data EXCEPT ![f] = << >>]
  /\ shrunk' = (shrunk \/ (f = fd /\ data[f] # << >>))
  /\ UNCHANGED <<path, pc, fd, got, outcome, atEOF>>

Replace(f) ==
  /\ path' = f
  /\ UNCHANGED <<data, pc, fd, got, outcome, atEOF, shrunk>>

Others ==
  \/ \E f \in Regular : Append1(f) \/ Truncate(f)
  \/ \E f \in Files \cup {Missing} : Replace(f)

Next == pc # "done" /\ (ReadFile \/ Others)

\* The reader runs; nothing has to fail, nobody else has to move, and nobody
\* else has to stop.
Spec == Init /\ [][Next]_vars /\ WF_vars(Proceed)

-----------------------------------------------------------------------------
(* Properties                                                              *)

Outcomes == {"none", "openError", "notRegular", "tooLarge", "statError", "readError",
             "parseError", "accepted"}

\* Each variable holds a value the code can give it.
TypeOK ==
  /\ path \in Files \cup {Missing} /\ fd \in Files \cup {Missing}
  /\ data \in [Files -> Seq(Piece)]
  /\ got \in Seq(Piece) /\ atEOF \in Seq(Piece)
  /\ pc \in {"open", "stat", "read", "check", "done"}
  /\ outcome \in Outcomes
  /\ shrunk \in BOOLEAN

\* However fast the file grows, no more than the limit and one byte is ever
\* held (the bounded reading of SECURITY.md:21).
BoundedRead == Len(got) <= Max + 1

Accepted == outcome = "accepted"

\* A file that grows between the stat and the read is rejected rather than
\* silently truncated (parse.go:38): what is parsed reaches the end the file
\* had at the last read, and is exactly the file unless somebody truncated
\* that same file in place, in which case no read can be whole.
AcceptedIsWhole ==
  Accepted => /\ Len(atEOF) <= Len(got) /\ Len(got) <= Max
              /\ ~shrunk => got = atEOF

\* Nothing but a regular file is ever parsed, even when the path is replaced
\* between the open and the checks.
AcceptedIsRegular == Accepted => fd # Missing /\ Kind[fd] = "regular"

\* A read in progress collects one file: pieces of the file that was opened,
\* in its order, never of another one renamed over it.
ReadsOneFile ==
  pc = "read" /\ ~shrunk => Len(got) <= Len(data[fd]) /\ got = SubSeq(data[fd], 1, Len(got))

\* The file must be a regular file (README.md:181): a path that names
\* anything else is refused, and the run goes on.
NonRegularIsRefused ==
  pc = "open" /\ path # Missing /\ Kind[path] # "regular" ~> pc = "done"

=============================================================================
