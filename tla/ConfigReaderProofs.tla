------------------------- MODULE ConfigReaderProofs -------------------------
(***************************************************************************)
(* Theorems about ConfigReader, for every set of files and contents, every *)
(* limit and every number of writers' steps.  The argument: the descriptor *)
(* is fixed by the open and checked before the first read, so everything   *)
(* that is collected is a prefix of one regular file as long as nobody     *)
(* truncates it; and the one byte asked for beyond the limit is what tells *)
(* a file that fits from one that grew past the limit during the read.     *)
(***************************************************************************)
EXTENDS ConfigReader, SequenceTheorems, TLAPS

-----------------------------------------------------------------------------
(* Prefixes of a file                                                      *)

\* The piece of a sequence that one read returns.
LEMMA ReadProperties ==
  ASSUME NEW S, NEW s \in Seq(S), NEW k \in Nat, NEW n \in 1 .. Len(s) - k
  PROVE  /\ SubSeq(s, k + 1, k + n) \in Seq(S)
         /\ Len(SubSeq(s, k + 1, k + n)) = n
<1>1. Len(s) \in Nat
  BY LenProperties
<1>2. \A i \in k + 1 .. k + n : s[i] \in S
  BY <1>1, ElementOfSeq
<1>3. /\ SubSeq(s, k + 1, k + n) \in Seq(S)
      /\ Len(SubSeq(s, k + 1, k + n)) = IF k + 1 <= k + n THEN k + n - (k + 1) + 1 ELSE 0
  BY <1>1, <1>2, SubSeqProperties
<1> QED  BY <1>1, <1>3

\* A read that continues where the prefix ends gives the longer prefix.
LEMMA PrefixGrows ==
  ASSUME NEW S, NEW s \in Seq(S), NEW k \in Nat, NEW n \in 1 .. Len(s) - k
  PROVE  SubSeq(s, 1, k) \o SubSeq(s, k + 1, k + n) = SubSeq(s, 1, k + n)
<1>1. 1 \in 1 .. Len(s) + 1 /\ k \in 1 - 1 .. Len(s) /\ k + n \in k .. Len(s)
  BY LenProperties
<1> QED  BY <1>1, ConcatAdjacentSubSeq

\* What somebody appends to a file changes none of its prefixes.
LEMMA PrefixOfAppend ==
  ASSUME NEW S, NEW s \in Seq(S), NEW e \in S, NEW k \in 0 .. Len(s)
  PROVE  SubSeq(Append(s, e), 1, k) = SubSeq(s, 1, k)
<1>1. Len(s) \in Nat /\ <<e>> \in Seq(S) /\ Append(s, e) = s \o <<e>>
  BY LenProperties, AppendIsConcat
<1>2. CASE k = 0
  <2>1. k \in Int /\ k < 1
    BY <1>2
  <2> QED  BY <2>1, SubSeqEmpty
<1>3. CASE k # 0
  <2>1. 1 \in 1 .. Len(s) /\ k \in 1 .. Len(s)
    BY <1>1, <1>3
  <2> QED  BY <1>1, <2>1, SubSeqOfConcat1
<1> QED  BY <1>2, <1>3

-----------------------------------------------------------------------------
(* The inductive invariant                                                 *)

\* The checks are made on the open file before anything is read from it.
CheckedBeforeRead ==
  /\ pc \in {"stat", "read", "check"} => fd \in Files
  /\ pc \in {"read", "check"} => Kind[fd] = "regular"
  /\ pc \in {"open", "stat"} => got = << >>

\* ReadFile returns once, and by then it has returned something.
ReturnsOnce == outcome # "none" <=> pc = "done"

\* What io.ReadAll hands over: the whole file as it was at the last read, or
\* more than the limit; and bytes of that file only, unless it was truncated.
ReadAllEnds ==
  pc = "check" =>
    /\ Len(got) > Max \/ Len(atEOF) <= Len(got)
    /\ ~shrunk => Len(got) <= Len(atEOF) /\ got = SubSeq(atEOF, 1, Len(got))

IInv ==
  /\ TypeOK /\ CheckedBeforeRead /\ ReturnsOnce /\ ReadAllEnds
  /\ BoundedRead /\ AcceptedIsWhole /\ AcceptedIsRegular /\ ReadsOneFile

\* The call has not begun.
LEMMA InitIInv == Init => IInv
<1> SUFFICES ASSUME Init PROVE IInv
  OBVIOUS
<1>1. << >> \in Seq(Piece) /\ Len(<< >>) = 0
  BY EmptySeq
<1>2. TypeOK
  <2>1. data \in [Files -> Seq(Piece)]
    BY <1>1, FileAssumption DEF Init
  <2>2. shrunk \in BOOLEAN
    BY Zenon DEF Init
  <2> QED  BY <1>1, <2>1, <2>2 DEF Init, TypeOK, Outcomes
<1>3. BoundedRead
  BY <1>1, SizeAssumption DEF Init, BoundedRead
<1> QED  BY <1>2, <1>3 DEF Init, IInv, CheckedBeforeRead, ReturnsOnce, ReadAllEnds, AcceptedIsWhole,
                         AcceptedIsRegular, Accepted, ReadsOneFile

-----------------------------------------------------------------------------
(* Preservation: the steps of ReadFile                                     *)

\* The lengths the tests of ReadFile compare are natural numbers.
LEMMA Lengths ==
  ASSUME TypeOK
  PROVE  Len(got) \in Nat /\ Len(atEOF) \in Nat /\ \A f \in Files : Len(data[f]) \in Nat
BY LenProperties DEF TypeOK

\* A return with an error keeps the invariant: nothing was accepted.
LEMMA FailureIInv ==
  ASSUME IInv, NEW result \in Outcomes \ {"none", "accepted"}, Finish(result), UNCHANGED atEOF
  PROVE  IInv'
<1>1. TypeOK'
  <2>1. shrunk' \in BOOLEAN
    BY Zenon DEF IInv, TypeOK, Finish
  <2> QED  BY <2>1 DEF IInv, TypeOK, Finish
<1>2. BoundedRead'
  BY DEF IInv, BoundedRead, Finish
<1> QED  BY <1>1, <1>2 DEF IInv, Finish, CheckedBeforeRead, ReturnsOnce, ReadAllEnds, AcceptedIsWhole,
                         AcceptedIsRegular, Accepted, ReadsOneFile, Outcomes

\* The open fixes the descriptor; nothing has been read from it yet.
LEMMA OpenIInv == IInv /\ Open => IInv'
<1> SUFFICES ASSUME IInv, Open PROVE IInv'
  OBVIOUS
<1>1. CASE path = Missing
  BY <1>1, FailureIInv DEF Open, Outcomes
<1>2. CASE path # Missing
  <2>1. /\ pc = "open" /\ pc' = "stat" /\ fd' = path /\ path \in Files
        /\ UNCHANGED <<path, data, got, outcome, shrunk, atEOF>>
    BY <1>2 DEF IInv, TypeOK, Open
  <2>2. TypeOK'
    <3>1. shrunk' \in BOOLEAN
      BY <2>1, Zenon DEF IInv, TypeOK
    <3> QED  BY <2>1, <3>1 DEF IInv, TypeOK
  <2>3. BoundedRead'
    BY <2>1 DEF IInv, BoundedRead
  <2> QED  BY <2>1, <2>2, <2>3 DEF IInv, CheckedBeforeRead, ReturnsOnce, ReadAllEnds, AcceptedIsWhole,
                                 AcceptedIsRegular, Accepted, ReadsOneFile
<1> QED  BY <1>1, <1>2

\* The checks on the open file: only a regular file is read.
LEMMA StatIInv == IInv /\ Stat => IInv'
<1> SUFFICES ASSUME IInv, Stat PROVE IInv'
  OBVIOUS
<1>1. CASE Kind[Checked] # "regular" \/ Len(data[Checked]) > Max
  BY <1>1, FailureIInv DEF Stat, Outcomes
<1>2. CASE ~(Kind[Checked] # "regular" \/ Len(data[Checked]) > Max)
  <2>1. /\ pc = "stat" /\ pc' = "read" /\ fd \in Files /\ Kind[fd] = "regular" /\ got = << >>
        /\ UNCHANGED <<path, data, fd, got, outcome, shrunk, atEOF>>
    BY <1>2 DEF IInv, CheckedBeforeRead, Stat, Checked
  <2>2. TypeOK'
    <3>1. shrunk' \in BOOLEAN
      BY <2>1, Zenon DEF IInv, TypeOK
    <3> QED  BY <2>1, <3>1 DEF IInv, TypeOK
  <2>3. BoundedRead'
    BY <2>1 DEF IInv, BoundedRead
  <2>4. ReadsOneFile'
    <3>1. Len(got) = 0 /\ Len(data[fd]) \in Nat /\ SubSeq(data[fd], 1, 0) = << >>
      BY <2>1, EmptySeq, Lengths, SubSeqEmpty DEF IInv
    <3> QED  BY <2>1, <3>1 DEF ReadsOneFile
  <2> QED  BY <2>1, <2>2, <2>3, <2>4 DEF IInv, CheckedBeforeRead, ReturnsOnce, ReadAllEnds, AcceptedIsWhole,
                                       AcceptedIsRegular, Accepted
<1> QED  BY <1>1, <1>2

\* One read: it goes on in the open file where the last one stopped, and
\* never beyond one byte after the limit.
LEMMA ReadSomeIInv == IInv /\ ReadSome => IInv'
<1> SUFFICES ASSUME IInv, ReadSome PROVE IInv'
  OBVIOUS
<1>1. PICK n \in 1 .. Left :
        /\ Len(got) + n <= Limit
        /\ got' = got \o SubSeq(data[fd], Len(got) + 1, Len(got) + n)
  BY DEF ReadSome
<1>2. /\ pc = "read" /\ fd \in Files /\ Kind[fd] = "regular" /\ outcome = "none"
      /\ UNCHANGED <<path, data, pc, fd, outcome, atEOF, shrunk>>
  BY DEF IInv, CheckedBeforeRead, ReturnsOnce, ReadSome
<1> DEFINE k == Len(got)
           s == data[fd]
           piece == SubSeq(s, k + 1, k + n)
<1>3. /\ got \in Seq(Piece) /\ s \in Seq(Piece) /\ k \in Nat /\ Len(s) \in Nat
      /\ n \in 1 .. Len(s) - k
  BY <1>2, Lengths DEF IInv, TypeOK, Left
<1>4. piece \in Seq(Piece) /\ Len(piece) = n
  BY <1>3, ReadProperties
<1>5. got' \in Seq(Piece) /\ Len(got') = k + n
  BY <1>1, <1>3, <1>4, ConcatProperties
<1>6. TypeOK'
  <2>1. shrunk' \in BOOLEAN
    BY <1>2, Zenon DEF IInv, TypeOK
  <2> QED  BY <1>2, <1>5, <2>1 DEF IInv, TypeOK
<1>7. BoundedRead'
  BY <1>1, <1>5, SizeAssumption DEF BoundedRead, Limit
<1>8. ReadsOneFile'
  <2>1. SUFFICES ASSUME ~shrunk
                 PROVE  Len(got') <= Len(s) /\ got' = SubSeq(s, 1, Len(got'))
    BY <1>2 DEF ReadsOneFile
  <2>2. got = SubSeq(s, 1, k)
    BY <1>2, <2>1 DEF IInv, ReadsOneFile
  <2>3. SubSeq(s, 1, k) \o piece = SubSeq(s, 1, k + n)
    BY <1>3, PrefixGrows
  <2> QED  BY <1>1, <1>3, <1>5, <2>2, <2>3
<1> QED  BY <1>2, <1>6, <1>7, <1>8 DEF IInv, CheckedBeforeRead, ReturnsOnce, ReadAllEnds, AcceptedIsWhole,
                                     AcceptedIsRegular, Accepted

\* The last read: what was collected is beyond the limit, or reaches the end.
LEMMA ReadEndIInv == IInv /\ ReadEnd => IInv'
<1> SUFFICES ASSUME IInv, ReadEnd PROVE IInv'
  OBVIOUS
<1>1. /\ pc = "read" /\ pc' = "check" /\ atEOF' = data[fd] /\ (Len(got) >= Limit \/ Left <= 0)
      /\ fd \in Files /\ Kind[fd] = "regular" /\ outcome = "none"
      /\ UNCHANGED <<path, data, fd, got, outcome, shrunk>>
  BY DEF IInv, CheckedBeforeRead, ReturnsOnce, ReadEnd
<1>2. TypeOK'
  <2>1. shrunk' \in BOOLEAN
    BY <1>1, Zenon DEF IInv, TypeOK
  <2> QED  BY <1>1, <2>1 DEF IInv, TypeOK
<1>3. BoundedRead'
  BY <1>1 DEF IInv, BoundedRead
<1>4. ReadAllEnds'
  <2>1. Len(got) > Max \/ Len(data[fd]) <= Len(got)
    BY <1>1, Lengths, SizeAssumption DEF IInv, ReadEnd, Limit, Left
  <2>2. ~shrunk => Len(got) <= Len(data[fd]) /\ got = SubSeq(data[fd], 1, Len(got))
    BY <1>1 DEF IInv, ReadsOneFile
  <2> QED  BY <1>1, <2>1, <2>2 DEF ReadAllEnds
<1> QED  BY <1>1, <1>2, <1>3, <1>4 DEF IInv, CheckedBeforeRead, ReturnsOnce, AcceptedIsWhole,
                                     AcceptedIsRegular, Accepted, ReadsOneFile

\* The test on the length tells a file read whole from one that outgrew the
\* limit.
LEMMA CheckIInv == IInv /\ Check => IInv'
<1> SUFFICES ASSUME IInv, Check PROVE IInv'
  OBVIOUS
<1>1. CASE TooLong \/ ~Parses(got)
  BY <1>1, FailureIInv DEF Check, Outcomes
<1>2. CASE ~(TooLong \/ ~Parses(got))
  <2>1. /\ pc = "check" /\ pc' = "done" /\ outcome' = "accepted" /\ Len(got) <= Max
        /\ fd \in Files /\ Kind[fd] = "regular"
        /\ UNCHANGED <<path, data, fd, got, shrunk, atEOF>>
    BY <1>2, Lengths, SizeAssumption DEF IInv, CheckedBeforeRead, Check, Finish, TooLong
  <2>2. TypeOK'
    <3>1. shrunk' \in BOOLEAN
      BY <2>1, Zenon DEF IInv, TypeOK
    <3> QED  BY <2>1, <3>1 DEF IInv, TypeOK, Outcomes
  <2>3. BoundedRead'
    BY <2>1 DEF IInv, BoundedRead
  <2>4. Len(atEOF) <= Len(got)
    BY <2>1, Lengths, SizeAssumption DEF IInv, ReadAllEnds
  <2>5. ~shrunk => got = atEOF
    <3>1. SUFFICES ASSUME ~shrunk PROVE got = atEOF
      OBVIOUS
    <3>2. Len(got) = Len(atEOF) /\ got = SubSeq(atEOF, 1, Len(got))
      BY <2>1, <2>4, <3>1, Lengths DEF IInv, ReadAllEnds
    <3>3. SubSeq(atEOF, 1, Len(atEOF)) = atEOF
      BY SubSeqFull DEF IInv, TypeOK
    <3> QED  BY <3>2, <3>3
  <2>6. AcceptedIsWhole' /\ AcceptedIsRegular'
    BY <2>1, <2>4, <2>5, FileAssumption DEF AcceptedIsWhole, AcceptedIsRegular, Accepted
  <2> QED  BY <2>1, <2>2, <2>3, <2>6 DEF IInv, CheckedBeforeRead, ReturnsOnce, ReadAllEnds, ReadsOneFile
<1> QED  BY <1>1, <1>2

\* Every step of ReadFile keeps the invariant.
LEMMA ReadFileIInv == IInv /\ ReadFile => IInv'
<1>1. IInv /\ (StatFails \/ ReadFails) => IInv'
  BY FailureIInv DEF StatFails, ReadFails, Outcomes
<1> QED  BY <1>1, OpenIInv, StatIInv, ReadSomeIInv, ReadEndIInv, CheckIInv DEF ReadFile, Proceed

-----------------------------------------------------------------------------
(* Preservation: the steps of the other processes                          *)

\* A file that grows keeps the prefix that was read of it.
LEMMA AppendIInv ==
  ASSUME IInv, pc # "done", NEW f \in Regular, Append1(f)
  PROVE  IInv'
<1>1. PICK p \in Appended : data' = [data EXCEPT ![f] = Append(@, p)]
  BY DEF Append1
<1>2. f \in Files /\ p \in Piece /\ data[f] \in Seq(Piece)
      /\ UNCHANGED <<path, pc, fd, got, outcome, atEOF, shrunk>>
  BY FileAssumption DEF IInv, TypeOK, Regular, Append1
<1>3. TypeOK'
  <2>1. shrunk' \in BOOLEAN
    BY <1>2, Zenon DEF IInv, TypeOK
  <2>2. data' \in [Files -> Seq(Piece)]
    BY <1>1, <1>2, AppendProperties DEF IInv, TypeOK
  <2> QED  BY <1>2, <2>1, <2>2 DEF IInv, TypeOK
<1>4. BoundedRead'
  BY <1>2 DEF IInv, BoundedRead
<1>5. ReadsOneFile'
  <2>1. SUFFICES ASSUME pc = "read", ~shrunk
                 PROVE  Len(got) <= Len(data'[fd]) /\ got = SubSeq(data'[fd], 1, Len(got))
    BY <1>2 DEF ReadsOneFile
  <2>2. fd \in Files /\ Len(got) \in 0 .. Len(data[fd]) /\ got = SubSeq(data[fd], 1, Len(got))
    BY <2>1, Lengths DEF IInv, CheckedBeforeRead, ReadsOneFile
  <2>3. CASE f = fd
    <3>1. data'[fd] = Append(data[fd], p)
      BY <1>1, <2>2, <2>3 DEF IInv, TypeOK
    <3>2. Len(Append(data[fd], p)) = Len(data[fd]) + 1
      BY <1>2, <2>3, AppendProperties
    <3>3. SubSeq(Append(data[fd], p), 1, Len(got)) = SubSeq(data[fd], 1, Len(got))
      BY <1>2, <2>2, <2>3, PrefixOfAppend
    <3> QED  BY <1>2, <2>2, <2>3, <3>1, <3>2, <3>3, LenProperties
  <2>4. CASE f # fd
    BY <1>1, <2>2, <2>4 DEF IInv, TypeOK
  <2> QED  BY <2>3, <2>4
<1> QED  BY <1>2, <1>3, <1>4, <1>5 DEF IInv, CheckedBeforeRead, ReturnsOnce, ReadAllEnds, AcceptedIsWhole,
                                     AcceptedIsRegular, Accepted

\* A truncation of the open file is remembered, or it changed nothing.
LEMMA TruncateIInv ==
  ASSUME IInv, pc # "done", NEW f \in Regular, Truncate(f)
  PROVE  IInv'
<1>1. /\ f \in Files /\ UNCHANGED <<path, pc, fd, got, outcome, atEOF>>
      /\ data' = [data EXCEPT ![f] = << >>]
  BY DEF Regular, Truncate
<1>2. outcome = "none"
  BY DEF IInv, ReturnsOnce
<1>3. /\ shrunk' \in BOOLEAN
      /\ ~shrunk' => ~shrunk /\ (f = fd => data[f] = << >>)
  BY Zenon DEF IInv, TypeOK, Truncate
<1>4. TypeOK'
  <2>1. data' \in [Files -> Seq(Piece)]
    BY <1>1, EmptySeq DEF IInv, TypeOK
  <2> QED  BY <1>1, <1>3, <2>1 DEF IInv, TypeOK
<1>5. BoundedRead'
  BY <1>1 DEF IInv, BoundedRead
<1>6. ReadsOneFile'
  <2>1. SUFFICES ASSUME pc = "read", ~shrunk'
                 PROVE  data'[fd] = data[fd]
    BY <1>1, <1>3 DEF IInv, ReadsOneFile
  <2> QED  BY <1>1, <1>3, <2>1 DEF IInv, TypeOK, CheckedBeforeRead
<1>7. ReadAllEnds'
  BY <1>1, <1>3 DEF IInv, ReadAllEnds
<1> QED  BY <1>1, <1>2, <1>4, <1>5, <1>6, <1>7 DEF IInv, CheckedBeforeRead, ReturnsOnce, AcceptedIsWhole,
                                                 AcceptedIsRegular, Accepted

\* The path does not matter once the file is open.
LEMMA ReplaceIInv ==
  ASSUME IInv, NEW f \in Files \cup {Missing}, Replace(f)
  PROVE  IInv'
<1>1. path' = f /\ UNCHANGED <<data, pc, fd, got, outcome, atEOF, shrunk>>
  BY DEF Replace
<1>2. TypeOK'
  <2>1. shrunk' \in BOOLEAN
    BY <1>1, Zenon DEF IInv, TypeOK
  <2> QED  BY <1>1, <2>1 DEF IInv, TypeOK
<1>3. BoundedRead'
  BY <1>1 DEF IInv, BoundedRead
<1> QED  BY <1>1, <1>2, <1>3 DEF IInv, CheckedBeforeRead, ReturnsOnce, ReadAllEnds, AcceptedIsWhole,
                               AcceptedIsRegular, Accepted, ReadsOneFile

\* Every step keeps the invariant.
LEMMA NextIInv == IInv /\ [Next]_vars => IInv'
<1> SUFFICES ASSUME IInv, [Next]_vars PROVE IInv'
  OBVIOUS
<1>1. CASE UNCHANGED vars
  <2>1. TypeOK'
    <3>1. shrunk' \in BOOLEAN
      BY <1>1, Zenon DEF IInv, TypeOK, vars
    <3> QED  BY <1>1, <3>1 DEF IInv, TypeOK, vars
  <2>2. BoundedRead'
    BY <1>1 DEF IInv, BoundedRead, vars
  <2> QED  BY <1>1, <2>1, <2>2 DEF IInv, vars, CheckedBeforeRead, ReturnsOnce, ReadAllEnds, AcceptedIsWhole,
                                 AcceptedIsRegular, Accepted, ReadsOneFile
<1>2. CASE ReadFile
  BY <1>2, ReadFileIInv
<1>3. CASE pc # "done" /\ Others
  BY <1>3, AppendIInv, TruncateIInv, ReplaceIInv DEF Others
<1> QED  BY <1>1, <1>2, <1>3 DEF Next

-----------------------------------------------------------------------------
(* The theorems                                                            *)

\* The invariant holds whatever the other processes do to the files.
THEOREM Invariance == Spec => []IInv
BY InitIInv, NextIInv, PTL DEF Spec

\* Every variable of ReadFile has a value the code can give it.
THEOREM TypeCorrect == Spec => []TypeOK
<1>1. IInv => TypeOK
  BY DEF IInv
<1> QED  BY <1>1, Invariance, PTL

\* ReadFile never holds more than the limit and one byte (parse.go:41).
THEOREM ReadIsBounded == Spec => []BoundedRead
<1>1. IInv => BoundedRead
  BY DEF IInv
<1> QED  BY <1>1, Invariance, PTL

\* A configuration that grows between the stat and the read is read whole or
\* refused, never cut: what ReadFile parses is what the file held at its last
\* read, unless that very file was truncated meanwhile.
THEOREM AcceptsOnlyWholeFiles == Spec => []AcceptedIsWhole
<1>1. IInv => AcceptedIsWhole
  BY DEF IInv
<1> QED  BY <1>1, Invariance, PTL

\* What ReadFile parses came from a regular file, whatever was renamed over
\* the path between the open and the checks.
THEOREM AcceptsOnlyRegularFiles == Spec => []AcceptedIsRegular
<1>1. IInv => AcceptedIsRegular
  BY DEF IInv
<1> QED  BY <1>1, Invariance, PTL

\* The bytes collected are a prefix of the file that was opened.
THEOREM OneFileIsRead == Spec => []ReadsOneFile
<1>1. IInv => ReadsOneFile
  BY DEF IInv
<1> QED  BY <1>1, Invariance, PTL

=============================================================================
