------------------------- MODULE CommandRunnerProofs -------------------------
(***************************************************************************)
(* Theorems about CommandRunner, for every timeout, delay, cap and pipe    *)
(* size.  The argument: main, watcher and copier move in step (Phases,     *)
(* PipeEnds); nothing that was printed is anywhere but in the buffer, in   *)
(* the copier or in the pipe (Lossless); whoever closes the pipe before    *)
(* the copier has drained it leaves an error behind (LossIsReported); and  *)
(* each timer, and the kill, is set no later than the timeout (Timing).    *)
(***************************************************************************)
EXTENDS CommandRunner, SequenceTheorems, TLAPS

-----------------------------------------------------------------------------
(* The inductive invariant                                                 *)

Started == main # "ready" /\ err # "start"

\* Before the start, and after a start that failed, there is nothing.
NothingYet ==
  ~Started =>
    /\ main \in {"ready", "ran", "done"} /\ (main = "ready" => err = "none")
    /\ child = "none" /\ heir = "none" /\ killAt = Never
    /\ copier = "none" /\ watcher = "none" /\ ~pipeOpen
    /\ printed = << >> /\ copied = << >>

\* Where the process, the watcher and the copier are when Run is somewhere.
Phases ==
  /\ Started =>
       /\ main = "waiting" => child \in {"running", "zombie"} /\ err = "none"
       /\ main # "waiting" => child = "reaped"
       /\ main \in {"waiting", "watch"} => watcher \in {"watching", "grace", "closing", "offering"}
       /\ main \notin {"waiting", "watch"} => watcher = "gone"
       /\ copier # "none"
       /\ main \in {"ran", "done"} => copier = "collected" /\ ~pipeOpen
  /\ code = "none" <=> child \in {"none", "running"}

\* Who has closed the pipe, and who has taken the copier's result.
PipeEnds ==
  /\ watcher \in {"watching", "grace"} => pipeOpen /\ copier # "collected"
  /\ watcher = "closing" => ~pipeOpen /\ copier # "collected"
  /\ watcher = "offering" => copier = "collected"
  /\ main = "await" /\ copier # "collected" => pipeOpen
  /\ main = "drain" => ~pipeOpen /\ copier # "collected"

\* What was printed is in the buffer, in the copier or in the pipe, in this
\* order.
Lossless == printed = copied \o held \o pipe

\* A copier between two rounds holds nothing, and one that ended by itself has
\* left nothing behind.
Drained ==
  /\ copier # "writing" => held = << >>
  /\ copier \in {"sent", "collected"} /\ pipeOpen => pipe = << >> /\ WriteEndsClosed

\* A pipe closed before it was drained leaves an error in the watcher or in Run.
LossIsReported ==
  /\ watcher = "grace" /\ watchErr = "none" => child = "reaped"
  /\ watcher \in {"closing", "offering"} /\ ~pipeOpen => watchErr # "none"
  /\ main \in {"await", "drain", "ran", "done"} /\ Started /\ ~pipeOpen /\ err = "none" =>
       copier = "collected" /\ pipe = << >>
  /\ main \in {"watch", "await", "drain", "ran", "done"} /\ err = "none" => code = "ok"

\* The kill comes with the timeout, and no timer is set to fire later than
\* one WaitDelay after it.
Timing ==
  /\ main = "ready" => now = 0
  /\ watcher = "watching" => now <= Timeout
  /\ killAt \in {Never, Timeout}
  /\ child = "running" /\ watcher # "watching" => killAt = Timeout
  /\ deadline # Never => deadline <= Timeout + WaitDelay
  /\ watcher = "grace" \/ (main = "await" /\ copier # "collected") => deadline # Never

\* The text is taken once, when nothing can change the buffer any more.
TextKept == text = IF Returned THEN FirstOf(MaxOutput, copied) ELSE << >>

IInv ==
  /\ TypeOK /\ NothingYet /\ Phases /\ PipeEnds /\ Lossless /\ Drained /\ LossIsReported
  /\ Timing /\ TextKept

\* Nothing has been started.
LEMMA InitIInv == Init => IInv
<1> SUFFICES ASSUME Init PROVE IInv
  OBVIOUS
<1>1. << >> \in Pieces /\ << >> \o << >> = << >>
  BY EmptySeq, ConcatEmptySeq DEF Pieces
<1>2. pipeOpen \in BOOLEAN /\ ~pipeOpen
  BY Zenon DEF Init
<1>3. TypeOK
  BY <1>1, <1>2 DEF Init, TypeOK
<1>4. NothingYet /\ Phases /\ PipeEnds /\ LossIsReported
  BY <1>2 DEF Init, NothingYet, Started, Phases, PipeEnds, LossIsReported
<1>5. Lossless /\ Drained /\ TextKept
  BY <1>1 DEF Init, Lossless, Drained, TextKept, Returned
<1>6. Timing
  BY TimingAssumption DEF Init, Timing, Never
<1> QED  BY <1>3, <1>4, <1>5, <1>6 DEF IInv

-----------------------------------------------------------------------------
(* Preservation                                                            *)

\* The first n pieces of an output are pieces.
LEMMA FirstOfPieces ==
  ASSUME NEW s \in Pieces, NEW n \in Nat
  PROVE  FirstOf(n, s) \in Pieces
<1>1. Len(s) \in Nat /\ n \in Int
  BY LenProperties DEF Pieces
<1>2. CASE Len(s) <= n
  BY <1>2 DEF FirstOf
<1>3. CASE ~(Len(s) <= n)
  <2>1. \A i \in 1 .. n : s[i] \in {"child", "heir"}
    BY <1>1, <1>3, ElementOfSeq DEF Pieces
  <2>2. SubSeq(s, 1, n) \in Seq({"child", "heir"})
    BY <1>1, <2>1, SubSeqProperties
  <2> QED  BY <1>3, <2>2 DEF FirstOf, Pieces
<1> QED  BY <1>2, <1>3

\* Every step keeps the types.
LEMMA NextTypeOK == IInv /\ [Next]_vars => TypeOK'
<1> SUFFICES ASSUME TypeOK, [Next]_vars PROVE TypeOK'
  BY DEF IInv
<1> USE TimingAssumption, SizeAssumption DEF TypeOK, procVars, pipeVars, watchVars
<1>1. pipeOpen' \in BOOLEAN
  BY Zenon DEF Next, vars, Run, StartFails, Start, ProcessWait, TakeWatchResult, CopierEnded,
       AwaitExpires, DrainEnds, Return, Watch, ContextDone, GraceExpires, WatcherCollects,
       CopierRead, CopierWrite, CopierStops, ChildPrints, HeirPrints, Emit, ChildForks,
       ChildExits, ChildDies, ChildEnds, HeirExits, Tick
<1>2. ASSUME StartFails \/ Start \/ ProcessWait \/ CopierEnded \/ AwaitExpires \/ DrainEnds
      PROVE  TypeOK'
  BY <1>1, <1>2 DEF StartFails, Start, ProcessWait, CopierEnded, AwaitExpires, DrainEnds
<1>3. ASSUME TakeWatchResult \/ ContextDone \/ GraceExpires \/ WatcherCollects
      PROVE  TypeOK'
  BY <1>1, <1>3 DEF TakeWatchResult, ContextDone, GraceExpires, WatcherCollects, GraceEnd, SendKill
<1>4. ASSUME Return PROVE TypeOK'
  BY <1>1, <1>4, FirstOfPieces DEF Return
<1>5. ASSUME CopierRead \/ CopierWrite \/ CopierStops PROVE TypeOK'
  <2>1. << >> \in Pieces /\ copied \o held \in Pieces
    BY EmptySeq, ConcatProperties DEF Pieces
  <2>2. ASSUME CopierWrite PROVE TypeOK'
    <3>1. {pipe', held', copied', text', printed'} \subseteq Pieces
      BY <2>1, <2>2 DEF CopierWrite
    <3> QED  BY <1>1, <2>2, <3>1 DEF CopierWrite
  <2> QED  BY <1>1, <1>5, <2>1, <2>2 DEF CopierRead, CopierStops
<1>6. ASSUME NEW who \in {"child", "heir"}, Emit(who) PROVE TypeOK'
  <2>1. Append(pipe, who) \in Pieces /\ Append(printed, who) \in Pieces
    BY AppendProperties DEF Pieces
  <2> QED  BY <1>1, <1>6, <2>1 DEF Emit
<1>7. ASSUME ChildForks \/ ChildExits \/ ChildDies \/ HeirExits \/ Tick PROVE TypeOK'
  BY <1>1, <1>7 DEF ChildForks, ChildExits, ChildDies, ChildEnds, HeirExits, Tick
<1>8. ASSUME UNCHANGED vars PROVE TypeOK'
  BY <1>1, <1>8 DEF vars
<1> QED
  BY <1>2, <1>3, <1>4, <1>5, <1>6, <1>7, <1>8 DEF Next, Run, Watch, ChildPrints, HeirPrints

\* Nothing happens before the start, or after one that failed.
LEMMA NextNothingYet == IInv /\ [Next]_vars => NothingYet'
<1> SUFFICES ASSUME IInv, [Next]_vars PROVE NothingYet'
  OBVIOUS
<1> USE DEF IInv, TypeOK, NothingYet, Started, PipeEnds, procVars, pipeVars, watchVars
<1>1. ASSUME Run PROVE NothingYet'
  BY <1>1 DEF Run, StartFails, Start, ProcessWait, TakeWatchResult, CopierEnded, AwaitExpires, DrainEnds, Return
<1>2. ASSUME Watch PROVE NothingYet'
  BY <1>2 DEF Watch, ContextDone, GraceExpires, WatcherCollects
<1>3. ASSUME CopierRead \/ CopierWrite \/ CopierStops PROVE NothingYet'
  BY <1>3 DEF CopierRead, CopierWrite, CopierStops
<1>4. ASSUME NEW who \in {"child", "heir"}, Emit(who) PROVE NothingYet'
  BY <1>4 DEF Emit
<1>5. ASSUME ChildForks \/ ChildExits \/ ChildDies \/ HeirExits PROVE NothingYet'
  BY <1>5 DEF ChildForks, ChildExits, ChildDies, ChildEnds, HeirExits
<1>6. ASSUME Tick \/ UNCHANGED vars PROVE NothingYet'
  BY <1>6 DEF Tick, vars
<1> QED
  BY <1>1, <1>2, <1>3, <1>4, <1>5, <1>6 DEF Next, ChildPrints, HeirPrints

\* The goroutines stay in step.
LEMMA NextPhases == IInv /\ [Next]_vars => Phases'
<1> SUFFICES ASSUME IInv, [Next]_vars PROVE Phases'
  OBVIOUS
<1> USE DEF IInv, TypeOK, NothingYet, Started, Phases, PipeEnds, procVars, pipeVars, watchVars
<1>1. ASSUME Run PROVE Phases'
  BY <1>1 DEF Run, StartFails, Start, ProcessWait, TakeWatchResult, CopierEnded, AwaitExpires, DrainEnds, Return
<1>2. ASSUME Watch PROVE Phases'
  BY <1>2 DEF Watch, ContextDone, GraceExpires, WatcherCollects
<1>3. ASSUME CopierRead \/ CopierWrite \/ CopierStops PROVE Phases'
  BY <1>3 DEF CopierRead, CopierWrite, CopierStops
<1>4. ASSUME NEW who \in {"child", "heir"}, Emit(who) PROVE Phases'
  BY <1>4 DEF Emit
<1>5. ASSUME ChildForks \/ ChildExits \/ ChildDies \/ HeirExits PROVE Phases'
  BY <1>5 DEF ChildForks, ChildExits, ChildDies, ChildEnds, HeirExits
<1>6. ASSUME Tick \/ UNCHANGED vars PROVE Phases'
  BY <1>6 DEF Tick, vars
<1> QED
  BY <1>1, <1>2, <1>3, <1>4, <1>5, <1>6 DEF Next, ChildPrints, HeirPrints

\* The pipe is closed, and the copier collected, by one of them.
LEMMA NextPipeEnds == IInv /\ [Next]_vars => PipeEnds'
<1> SUFFICES ASSUME IInv, [Next]_vars PROVE PipeEnds'
  OBVIOUS
<1> USE DEF IInv, TypeOK, NothingYet, Started, Phases, PipeEnds, procVars, pipeVars, watchVars
<1>1. ASSUME Run PROVE PipeEnds'
  BY <1>1 DEF Run, StartFails, Start, ProcessWait, TakeWatchResult, CopierEnded, AwaitExpires, DrainEnds, Return
<1>2. ASSUME Watch PROVE PipeEnds'
  BY <1>2 DEF Watch, ContextDone, GraceExpires, WatcherCollects
<1>3. ASSUME CopierRead \/ CopierWrite \/ CopierStops PROVE PipeEnds'
  BY <1>3 DEF CopierRead, CopierWrite, CopierStops
<1>4. ASSUME NEW who \in {"child", "heir"}, Emit(who) PROVE PipeEnds'
  BY <1>4 DEF Emit
<1>5. ASSUME ChildForks \/ ChildExits \/ ChildDies \/ HeirExits PROVE PipeEnds'
  BY <1>5 DEF ChildForks, ChildExits, ChildDies, ChildEnds, HeirExits
<1>6. ASSUME Tick \/ UNCHANGED vars PROVE PipeEnds'
  BY <1>6 DEF Tick, vars
<1> QED
  BY <1>1, <1>2, <1>3, <1>4, <1>5, <1>6 DEF Next, ChildPrints, HeirPrints

\* Closing the pipe too early leaves an error behind.
LEMMA NextLossIsReported == IInv /\ [Next]_vars => LossIsReported'
<1> SUFFICES ASSUME IInv, [Next]_vars PROVE LossIsReported'
  OBVIOUS
<1> USE DEF IInv, TypeOK, NothingYet, Started, Phases, PipeEnds, Drained, LossIsReported, procVars, pipeVars, watchVars
<1>1. ASSUME Run PROVE LossIsReported'
  BY <1>1 DEF Run, StartFails, Start, ProcessWait, TakeWatchResult, CopierEnded, AwaitExpires, DrainEnds, Return
<1>2. ASSUME Watch PROVE LossIsReported'
  BY <1>2 DEF Watch, ContextDone, GraceExpires, WatcherCollects, KillSent
<1>3. ASSUME CopierRead \/ CopierWrite \/ CopierStops PROVE LossIsReported'
  BY <1>3 DEF CopierRead, CopierWrite, CopierStops
<1>4. ASSUME NEW who \in {"child", "heir"}, Emit(who) PROVE LossIsReported'
  BY <1>4 DEF Emit
<1>5. ASSUME ChildForks \/ ChildExits \/ ChildDies \/ HeirExits PROVE LossIsReported'
  BY <1>5 DEF ChildForks, ChildExits, ChildDies, ChildEnds, HeirExits
<1>6. ASSUME Tick \/ UNCHANGED vars PROVE LossIsReported'
  BY <1>6 DEF Tick, vars
<1> QED
  BY <1>1, <1>2, <1>3, <1>4, <1>5, <1>6 DEF Next, ChildPrints, HeirPrints

\* Timers and kills are set by the timeout, and due before they are late.
LEMMA NextTiming == IInv /\ [Next]_vars => Timing'
<1> SUFFICES ASSUME IInv, [Next]_vars PROVE Timing'
  OBVIOUS
<1> USE TimingAssumption DEF IInv, Never, TypeOK, NothingYet, Started, Phases, PipeEnds, Drained, Timing, procVars, pipeVars, watchVars
<1>1. ASSUME Run PROVE Timing'
  BY <1>1 DEF Run, StartFails, Start, ProcessWait, TakeWatchResult, CopierEnded, AwaitExpires, DrainEnds, Return, GraceEnd
<1>2. ASSUME Watch PROVE Timing'
  BY <1>2 DEF Watch, ContextDone, GraceExpires, WatcherCollects, GraceEnd, SendKill, Expired
<1>3. ASSUME CopierRead \/ CopierWrite \/ CopierStops PROVE Timing'
  BY <1>3 DEF CopierRead, CopierWrite, CopierStops
<1>4. ASSUME NEW who \in {"child", "heir"}, Emit(who) PROVE Timing'
  BY <1>4 DEF Emit
<1>5. ASSUME ChildForks \/ ChildExits \/ ChildDies \/ HeirExits PROVE Timing'
  BY <1>5 DEF ChildForks, ChildExits, ChildDies, ChildEnds, HeirExits
<1>6. ASSUME Tick \/ UNCHANGED vars PROVE Timing'
  BY <1>6 DEF Tick, vars, Urgent, Expired
<1> QED
  BY <1>1, <1>2, <1>3, <1>4, <1>5, <1>6 DEF Next, ChildPrints, HeirPrints

\* The text of the buffer is taken at the end, after its last write.
LEMMA NextTextKept == IInv /\ [Next]_vars => TextKept'
<1> SUFFICES ASSUME IInv, [Next]_vars PROVE TextKept'
  OBVIOUS
<1> USE DEF IInv, NothingYet, Started, Phases, TextKept, Returned, procVars, pipeVars, watchVars
<1>1. ASSUME Run PROVE TextKept'
  BY <1>1 DEF Run, StartFails, Start, ProcessWait, TakeWatchResult, CopierEnded, AwaitExpires,
       DrainEnds, Return
<1>2. ASSUME UNCHANGED <<main, text>>, copied' = copied \/ main # "done" PROVE TextKept'
  BY <1>2
<1>3. ASSUME CopierWrite PROVE main # "done"
  BY <1>3 DEF CopierWrite
<1> QED
  BY <1>1, <1>2, <1>3 DEF Next, vars, Watch, ContextDone, GraceExpires, WatcherCollects, CopierRead,
       CopierWrite, CopierStops, ChildPrints, HeirPrints, Emit, ChildForks, ChildExits, ChildDies,
       ChildEnds, HeirExits, Tick

\* A copier that has ended has drained the pipe, or somebody closed it.
LEMMA NextDrained == IInv /\ [Next]_vars => Drained'
<1> SUFFICES ASSUME IInv, [Next]_vars PROVE Drained'
  OBVIOUS
<1> USE DEF IInv, TypeOK, NothingYet, Started, Phases, PipeEnds, Drained, WriteEndsClosed,
            procVars, pipeVars, watchVars
<1>1. ASSUME Run PROVE Drained'
  BY <1>1 DEF Run, StartFails, Start, ProcessWait, TakeWatchResult, CopierEnded, AwaitExpires,
       DrainEnds, Return
<1>2. ASSUME Watch PROVE Drained'
  BY <1>2 DEF Watch, ContextDone, GraceExpires, WatcherCollects
<1>3. ASSUME CopierRead \/ CopierWrite \/ CopierStops PROVE Drained'
  BY <1>3 DEF CopierRead, CopierWrite, CopierStops
<1>4. ASSUME ChildPrints \/ HeirPrints PROVE Drained'
  BY <1>4 DEF ChildPrints, HeirPrints, Emit
<1>5. ASSUME ChildForks \/ ChildExits \/ ChildDies \/ HeirExits PROVE Drained'
  BY <1>5 DEF ChildForks, ChildExits, ChildDies, ChildEnds, HeirExits
<1>6. ASSUME Tick \/ UNCHANGED vars PROVE Drained'
  BY <1>6 DEF Tick, vars
<1> QED
  BY <1>1, <1>2, <1>3, <1>4, <1>5, <1>6 DEF Next

\* Appending to the end of two sequences is appending to the second.
LEMMA AppendToConcat ==
  ASSUME NEW s \in Pieces, NEW t \in Pieces, NEW e \in {"child", "heir"}
  PROVE  Append(s \o t, e) = s \o Append(t, e)
<1> DEFINE S == {"child", "heir"}
<1>1. s \in Seq(S) /\ t \in Seq(S) /\ e \in S
  BY DEF Pieces
<1> HIDE DEF S
<1>2. s \o t \in Seq(S) /\ <<e>> \in Seq(S)
  BY <1>1, ConcatProperties
<1>3. Append(t, e) = t \o <<e>> /\ Append(s \o t, e) = (s \o t) \o <<e>>
  BY <1>1, <1>2, AppendIsConcat
<1>4. (s \o t) \o <<e>> = s \o (t \o <<e>>)
  BY <1>1, <1>2, ConcatAssociative
<1> QED  BY <1>3, <1>4

\* No piece is lost between the pipe, the copier and the buffer.
LEMMA NextLossless == IInv /\ [Next]_vars => Lossless'
<1> SUFFICES ASSUME IInv, [Next]_vars PROVE Lossless'
  OBVIOUS
<1> USE DEF IInv, Lossless, procVars, pipeVars, watchVars
<1>0. /\ pipe \in Seq({"child", "heir"}) /\ held \in Seq({"child", "heir"})
      /\ copied \in Seq({"child", "heir"})
  BY DEF TypeOK, Pieces
<1>1. ASSUME CopierRead PROVE Lossless'
  <2>1. held = << >> /\ copied \o << >> = copied
    BY <1>0, <1>1, ConcatEmptySeq DEF Drained, CopierRead
  <2>2. (copied \o pipe) \o << >> = copied \o pipe
    BY <1>0, ConcatProperties, ConcatEmptySeq
  <2> QED  BY <1>1, <2>1, <2>2 DEF CopierRead
<1>2. ASSUME CopierWrite PROVE Lossless'
  <2> DEFINE all == copied \o held
  <2>1. all \o << >> = all /\ all \in Seq({"child", "heir"})
    BY <1>0, ConcatProperties, ConcatEmptySeq
  <2>2. copied' = all /\ held' = << >> /\ pipe' = pipe /\ printed' = all \o pipe
    BY <1>2 DEF CopierWrite
  <2> QED  BY <2>1, <2>2
<1>3. ASSUME NEW who \in {"child", "heir"}, Emit(who) PROVE Lossless'
  <2> DEFINE before == copied \o held
  <2>1. before \in Pieces /\ pipe \in Pieces
    BY <1>0, ConcatProperties DEF Pieces
  <2>2. /\ copied' \o held' = before /\ printed = before \o pipe
        /\ pipe' = Append(pipe, who) /\ printed' = Append(printed, who)
    BY <1>3 DEF Emit
  <2> HIDE DEF before
  <2>3. Append(before \o pipe, who) = before \o Append(pipe, who)
    BY <2>1, AppendToConcat, Zenon
  <2> QED  BY <2>2, <2>3, Zenon
<1>4. ASSUME UNCHANGED <<printed, copied, held, pipe>> PROVE Lossless'
  BY <1>4
<1>5. ASSUME Run \/ Watch \/ CopierStops \/ ChildForks \/ ChildExits \/ ChildDies \/ HeirExits
               \/ Tick \/ UNCHANGED vars
      PROVE  UNCHANGED <<printed, copied, held, pipe>>
  BY <1>5 DEF Run, StartFails, Start, ProcessWait, TakeWatchResult, CopierEnded, AwaitExpires,
       DrainEnds, Return, Watch, ContextDone, GraceExpires, WatcherCollects, CopierStops,
       ChildForks, ChildExits, ChildDies, ChildEnds, HeirExits, Tick, vars
<1> QED
  BY <1>1, <1>2, <1>3, <1>4, <1>5 DEF Next, ChildPrints, HeirPrints

\* Every step keeps the invariant.
LEMMA NextIInv == IInv /\ [Next]_vars => IInv'
BY NextTypeOK, NextNothingYet, NextPhases, NextPipeEnds, NextLossless, NextDrained, NextLossIsReported,
   NextTiming, NextTextKept DEF IInv

-----------------------------------------------------------------------------
(* The theorems                                                            *)

\* The invariant holds however the timers, the goroutines, the child and its
\* descendant interleave.
THEOREM Invariance == Spec => []IInv
BY InitIInv, NextIInv, PTL DEF Spec

\* Every variable has a value the code or the kernel can give it.
THEOREM TypeCorrect == Spec => []TypeOK
<1>1. IInv => TypeOK
  BY DEF IInv
<1> QED  BY <1>1, Invariance, PTL

\* A nil error of runCommand means exit status 0 and the beginning of all
\* that was printed, for every timeout, delay and pipe.
THEOREM SuccessHidesNoLoss == Spec => []SuccessIsComplete
<1>1. IInv => SuccessIsComplete
  <2> SUFFICES ASSUME IInv, Succeeded
               PROVE  code = "ok" /\ copied = printed /\ text = FirstOf(MaxOutput, printed)
    BY DEF SuccessIsComplete
  <2>1. Started /\ main = "done" /\ err = "none"
    BY DEF Succeeded, Returned, Started
  <2>2. copier = "collected" /\ ~pipeOpen /\ code = "ok"
    BY <2>1 DEF IInv, Phases, LossIsReported
  <2>3. pipe = << >> /\ held = << >> /\ printed = copied \o held \o pipe
    BY <2>1, <2>2 DEF IInv, Lossless, Drained, LossIsReported
  <2>4. copied \o << >> = copied
    BY ConcatEmptySeq DEF IInv, TypeOK, Pieces
  <2>5. text = FirstOf(MaxOutput, copied)
    BY <2>1 DEF IInv, TextKept, Returned
  <2> QED  BY <2>2, <2>3, <2>4, <2>5
<1> QED  BY <1>1, Invariance, PTL

\* When runCommand returns, the process is reaped, both goroutines are over and
\* the buffer is the one the text was taken from.
THEOREM CallLeavesNothing == Spec => []NothingOutlivesTheCall
<1>1. IInv => NothingOutlivesTheCall
  BY DEF IInv, NothingOutlivesTheCall, Phases, Started, TextKept, Returned
<1> QED  BY <1>1, Invariance, PTL

\* As long as nobody has killed the child, somebody drains its pipe, however
\* much it prints.
THEOREM ChildIsDrained == Spec => []StaysDrained
<1>1. IInv => StaysDrained
  <2> SUFFICES ASSUME IInv, child = "running", killAt = Never
               PROVE  copier \in {"reading", "writing"}
    BY DEF StaysDrained
  <2>1. watcher = "watching" /\ Started
    BY TimingAssumption DEF IInv, Timing, Never, NothingYet
  <2>2. pipeOpen /\ copier \notin {"none", "collected"}
    BY <2>1 DEF IInv, PipeEnds, Phases
  <2>3. copier # "sent"
    BY <2>2 DEF IInv, Drained, WriteEndsClosed
  <2> QED  BY <2>2, <2>3 DEF IInv, TypeOK
<1> QED  BY <1>1, Invariance, PTL

-----------------------------------------------------------------------------
(* The refinement of BoundedCall                                           *)

\* The last moment leaves room for the WaitDelay, and for a slow kill.
LEMMA LastMomentBounds ==
  /\ LastMoment \in Nat
  /\ Timeout + WaitDelay <= LastMoment /\ Timeout + KillLag <= LastMoment
<1> DEFINE S == {WaitDelay, KillLag}
<1>1. \E m \in S : \A n \in S : m >= n
  BY TimingAssumption
<1>2. Max(S) \in S /\ \A n \in S : Max(S) >= n
  BY <1>1 DEF Max
<1> QED  BY <1>2, TimingAssumption DEF LastMoment

\* Time passes only while the call runs, and never beyond its last moment:
\* whatever the call still waits for then is due by the timeout, one
\* WaitDelay after it, or once the kill has taken effect.
LEMMA TickIsInTime ==
  ASSUME IInv, Tick
  PROVE  main \in {"waiting", "await"} /\ now < LastMoment
<1>1. ~Urgent /\ main # "done"
  BY DEF Tick
<1>2. /\ now \in Nat /\ deadline \in Nat \cup {Never} /\ main \notin {"ready", "ran", "done"}
      /\ Started /\ err # "start"
  BY <1>1 DEF IInv, TypeOK, Urgent, NothingYet, Started
<1>3. CASE main = "waiting"
  <2>1. child = "running"
    BY <1>1, <1>2, <1>3 DEF IInv, Phases, Urgent
  <2>2. CASE watcher = "watching"
    <3>1. now < Timeout
      BY <1>1, <1>2, <2>2, TimingAssumption DEF Urgent, Expired
    <3> QED  BY <1>2, <1>3, <3>1, LastMomentBounds, TimingAssumption
  <2>3. CASE watcher # "watching"
    <3>1. killAt = Timeout /\ killAt # Never
      BY <2>1, <2>3, TimingAssumption DEF IInv, Timing, Never
    <3>2. now < Timeout + KillLag
      BY <1>1, <1>2, <2>1, <3>1, TimingAssumption DEF Urgent
    <3> QED  BY <1>2, <1>3, <3>2, LastMomentBounds, TimingAssumption
  <2> QED  BY <2>2, <2>3
<1>4. CASE main = "watch"
  <2>1. watcher = "closing"
    BY <1>1, <1>2, <1>4 DEF IInv, Phases, Urgent
  <2> QED  BY <1>1, <1>2, <2>1 DEF IInv, TypeOK, Phases, PipeEnds, Urgent
<1>5. CASE main = "await"
  <2>1. copier # "collected" /\ ~Due(deadline)
    BY <1>1, <1>5 DEF Urgent
  <2>2. deadline \in Nat /\ deadline <= Timeout + WaitDelay /\ now < deadline
    BY <1>2, <1>5, <2>1, TimingAssumption DEF IInv, Timing, Due
  <2> QED  BY <1>2, <1>5, <2>2, LastMomentBounds, TimingAssumption
<1>6. CASE main = "drain"
  BY <1>1, <1>2, <1>6 DEF IInv, TypeOK, Phases, PipeEnds, Urgent
<1> QED  BY <1>2, <1>3, <1>4, <1>5, <1>6 DEF IInv, TypeOK

StatusAt(m, e) ==
  IF m = "ready" \/ (m = "ran" /\ e = "start") THEN "ready"
  ELSE IF m = "done" THEN "done" ELSE "running"

AnswerAt(m, e) == IF m # "done" THEN "none" ELSE IF e = "none" THEN "ok" ELSE "error"

ExitedAt(c) == IF c = "none" THEN "no" ELSE IF c = "ok" THEN "ok" ELSE "bad"

\* What a caller sees is a function of main, err and code.
LEMMA CallView ==
  /\ CallStatus = StatusAt(main, err) /\ CallStatus' = StatusAt(main', err')
  /\ CallAnswer = AnswerAt(main, err) /\ CallAnswer' = AnswerAt(main', err')
  /\ CallExited = ExitedAt(code) /\ CallExited' = ExitedAt(code')
<1>1. CallStatus = StatusAt(main, err) /\ CallStatus' = StatusAt(main', err')
  BY Zenon DEF CallStatus, StatusAt, Returned
<1>2. CallAnswer = AnswerAt(main, err) /\ CallAnswer' = AnswerAt(main', err')
  BY Zenon DEF CallAnswer, AnswerAt, Returned, Succeeded
<1>3. CallExited = ExitedAt(code) /\ CallExited' = ExitedAt(code')
  BY Zenon DEF CallExited, ExitedAt
<1> QED  BY <1>1, <1>2, <1>3

\* The first pieces of an output, as many as the copier has copied, are the
\* ones it has copied.
LEMMA FirstOfCopied ==
  ASSUME IInv
  PROVE  Len(copied) \in 0 .. Len(printed) /\ Call!FirstOf(Len(copied), printed) = copied
<1> DEFINE S == {"child", "heir"}
           rest == held \o pipe
<1>1. copied \in Seq(S) /\ held \in Seq(S) /\ pipe \in Seq(S) /\ printed = copied \o held \o pipe
  BY DEF IInv, TypeOK, Pieces, Lossless
<1> HIDE DEF S
<1>2. rest \in Seq(S) /\ printed = copied \o rest
  <2>1. held \o pipe \in Seq(S)
    BY <1>1, ConcatProperties
  <2>2. (copied \o held) \o pipe = copied \o (held \o pipe)
    BY <1>1, ConcatAssociative
  <2> QED  BY <1>1, <2>1, <2>2, Zenon
<1> HIDE DEF rest
<1>3. /\ Len(copied) \in Nat /\ Len(rest) \in Nat /\ printed \in Seq(S)
      /\ Len(printed) = Len(copied) + Len(rest)
  BY <1>1, <1>2, LenProperties, ConcatProperties
<1>4. CASE rest = << >>
  BY <1>1, <1>2, <1>3, <1>4, ConcatEmptySeq DEF Call!FirstOf
<1>5. CASE rest # << >>
  <2>1. Len(rest) > 0
    BY <1>2, <1>5, EmptySeq
  <2>2. Call!FirstOf(Len(copied), printed) = SubSeq(copied \o rest, 1, Len(copied))
    BY <1>2, <1>3, <2>1 DEF Call!FirstOf
  <2>3. SubSeq(copied \o rest, 1, Len(copied)) = copied
    <3>1. CASE copied = << >>
      <4>1. Len(copied) = 0
        BY <3>1, EmptySeq
      <4> QED  BY <3>1, <4>1, SubSeqEmpty
    <3>2. CASE copied # << >>
      <4>1. Len(copied) \in 1 .. Len(copied) /\ 1 \in 1 .. Len(copied)
        BY <1>1, <1>3, <3>2, EmptySeq
      <4> QED  BY <1>1, <1>2, <4>1, SubSeqOfConcat1, SubSeqFull
    <3> QED  BY <3>1, <3>2
  <2> QED  BY <1>3, <2>2, <2>3
<1> QED  BY <1>4, <1>5

\* Every step of Run, the watcher, the copier, the child, its descendant and
\* the clock is a step of the call a caller sees, or leaves it alone.
LEMMA StepImplementsCall == IInv /\ [Next]_vars => [Call!CallNext]_Call!callVars
<1> SUFFICES ASSUME IInv, [Next]_vars PROVE Call!CallNext \/ UNCHANGED Call!callVars
  OBVIOUS
<1> USE CallView DEF procVars, pipeVars, watchVars
<1>1. ASSUME Start PROVE Call!CallStarts
  BY <1>1 DEF Start, StatusAt, AnswerAt, Call!CallStarts
<1>2. ASSUME Return PROVE Call!CallReturns
  <2>1. /\ main = "ran" /\ main' = "done" /\ text' = FirstOf(MaxOutput, copied)
        /\ UNCHANGED <<err, code, copied, printed, now>>
    BY <1>2 DEF Return
  <2>2. CASE err = "start"
    <3>1. copied = << >>
      BY <2>2 DEF IInv, NothingYet, Started
    <3>2. FirstOf(MaxOutput, << >>) = << >>
      BY EmptySeq, SizeAssumption DEF FirstOf
    <3> QED  BY <2>1, <2>2, <3>1, <3>2 DEF StatusAt, AnswerAt, Call!CallReturns, Call!CallFails
  <2>3. CASE err = "none"
    <3>1. Started /\ copier = "collected" /\ ~pipeOpen
      BY <2>1, <2>3 DEF IInv, Phases, Started
    <3>2. code = "ok" /\ pipe = << >> /\ held = << >> /\ printed = copied \o held \o pipe
      BY <2>1, <2>3, <3>1 DEF IInv, LossIsReported, Drained, Lossless
    <3>3. copied \o << >> = copied
      BY ConcatEmptySeq DEF IInv, TypeOK, Pieces
    <3>4. text' = Call!FirstOf(MaxOutput, printed)
      BY <2>1, <3>2, <3>3 DEF FirstOf, Call!FirstOf
    <3> QED  BY <2>1, <2>3, <3>2, <3>4 DEF StatusAt, AnswerAt, ExitedAt, Call!CallReturns, Call!CallSucceeds
  <2>4. CASE err \notin {"start", "none"}
    <3>1. /\ Len(copied) \in 0 .. Len(printed)
          /\ text' = Call!FirstOf(MaxOutput, Call!FirstOf(Len(copied), printed))
      BY <2>1, FirstOfCopied DEF FirstOf, Call!FirstOf
    <3> QED  BY <2>1, <2>4, <3>1 DEF StatusAt, AnswerAt, Call!CallReturns, Call!CallGivesUp
  <2> QED  BY <2>2, <2>3, <2>4
<1>3. ASSUME NEW who \in {"child", "heir"}, Emit(who) PROVE Call!CommandPrints(who)
  <2>1. pipeOpen /\ Started /\ main \notin {"ran", "done"}
    BY <1>3 DEF Emit, IInv, NothingYet, Phases
  <2> QED  BY <1>3, <2>1 DEF Emit, Started, StatusAt, Call!CommandPrints
<1>4. ASSUME NEW how \in {"ok", "fail", "killed"}, ChildEnds(how)
      PROVE  Call!CommandExits("ok") \/ Call!CommandExits("bad")
  <2>1. main = "waiting" /\ code = "none"
    BY <1>4 DEF ChildEnds, IInv, NothingYet, Phases
  <2> QED  BY <1>4, <2>1 DEF ChildEnds, StatusAt, AnswerAt, ExitedAt, Call!CommandExits
<1>5. ASSUME Tick PROVE Call!CallTicks
  BY <1>5, TickIsInTime DEF Tick, StatusAt, AnswerAt, Call!CallTicks
<1>6. ASSUME UNCHANGED <<printed, now, text, code>>, StatusAt(main', err') = StatusAt(main, err),
             AnswerAt(main', err') = AnswerAt(main, err)
      PROVE  UNCHANGED Call!callVars
  BY <1>6 DEF Call!callVars
<1>7. ASSUME StartFails \/ ProcessWait \/ TakeWatchResult \/ CopierEnded \/ AwaitExpires
               \/ DrainEnds \/ Watch \/ CopierRead \/ CopierWrite \/ CopierStops
               \/ ChildForks \/ HeirExits \/ UNCHANGED vars
      PROVE  UNCHANGED Call!callVars
  <2>1. UNCHANGED <<printed, now, text, code>>
    BY <1>7 DEF StartFails, ProcessWait, TakeWatchResult, CopierEnded, AwaitExpires, DrainEnds,
         Watch, ContextDone, GraceExpires, WatcherCollects, CopierRead, CopierWrite, CopierStops,
         ChildForks, HeirExits, vars
  <2>2. \/ main' = main /\ err' = err
        \/ main = "ready" /\ main' = "ran" /\ err' = "start"
        \/ main \notin {"ready", "ran", "done"} /\ main' # "done" /\ main' # "ready" /\ err' # "start"
    BY <1>7 DEF StartFails, ProcessWait, TakeWatchResult, CopierEnded, AwaitExpires, DrainEnds,
         Watch, ContextDone, GraceExpires, WatcherCollects, CopierRead, CopierWrite, CopierStops,
         ChildForks, HeirExits, vars, IInv, TypeOK, NothingYet, Started
  <2> QED  BY <1>6, <2>1, <2>2 DEF StatusAt, AnswerAt
<1> QED
  BY <1>1, <1>2, <1>3, <1>4, <1>5, <1>7 DEF Next, Run, ChildPrints, HeirPrints, ChildExits, ChildDies,
     Call!CallNext

\* runCommand is a bounded call: whatever its pipe, goroutines and timers do, a
\* caller gets a complete prefix with a nil error or a partial one with an error,
\* by the timeout plus one WaitDelay or the time a kill takes.
THEOREM RunnerImplementsBoundedCall == Spec => ImplementsBoundedCall
<1>1. Init => Call!CallInit
  BY CallView DEF Init, Call!CallInit, StatusAt, AnswerAt, ExitedAt
<1> QED
  BY <1>1, Invariance, StepImplementsCall, PTL DEF Spec, ImplementsBoundedCall, Call!CallSpec

=============================================================================
