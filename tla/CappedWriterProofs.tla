------------------------- MODULE CappedWriterProofs -------------------------
(***************************************************************************)
(* Theorems about CappedWriter, for every cap, every set of goroutines and *)
(* every set of slices.  The argument: the mutex makes the room a writer   *)
(* read still exact when it stores (RoomFresh), so each store extends the  *)
(* buffer by just what keeps it a prefix of the log; and the flag lags the *)
(* log only while its writer is between the store and the assignment.      *)
(***************************************************************************)
EXTENDS CappedWriter, SequenceTheorems, TLAPS

-----------------------------------------------------------------------------
(* The first n elements of a sequence                                      *)

\* FirstOf returns a sequence as long as the argument, or n when it is shorter.
LEMMA FirstOfLen ==
  ASSUME NEW S, NEW s \in Seq(S), NEW n \in Nat
  PROVE  /\ FirstOf(n, s) \in Seq(S)
         /\ Len(FirstOf(n, s)) = IF Len(s) <= n THEN Len(s) ELSE n
         /\ \A i \in 1 .. Len(FirstOf(n, s)) : FirstOf(n, s)[i] = s[i]
<1>1. Len(s) \in Nat
  BY LenProperties
<1>2. CASE Len(s) <= n
  BY <1>2 DEF FirstOf
<1>3. CASE ~(Len(s) <= n)
  <2>1. \A i \in 1 .. n : s[i] \in S
    BY <1>1, <1>3, ElementOfSeq
  <2>2. /\ SubSeq(s, 1, n) \in Seq(S)
        /\ Len(SubSeq(s, 1, n)) = IF 1 <= n THEN n - 1 + 1 ELSE 0
        /\ \A i \in 1 .. n - 1 + 1 : SubSeq(s, 1, n)[i] = s[1 + i - 1]
    BY <2>1, SubSeqProperties
  <2> QED  BY <1>1, <1>3, <2>2 DEF FirstOf
<1> QED  BY <1>2, <1>3

\* Appending what fits below the cap appends it to the retained prefix.
LEMMA FirstOfFits ==
  ASSUME NEW S, NEW s \in Seq(S), NEW t \in Seq(S), NEW n \in Nat,
         Len(s) + Len(t) <= n
  PROVE  FirstOf(n, s \o t) = FirstOf(n, s) \o t
<1>1. Len(s) \in Nat /\ Len(t) \in Nat
  BY LenProperties
<1>2. Len(s \o t) = Len(s) + Len(t)
  BY ConcatProperties
<1> QED  BY <1>1, <1>2 DEF FirstOf

\* Once the log fills the cap, nothing appended to it is retained.
LEMMA FirstOfFull ==
  ASSUME NEW S, NEW s \in Seq(S), NEW t \in Seq(S), NEW n \in Nat,
         n <= Len(s)
  PROVE  FirstOf(n, s \o t) = FirstOf(n, s)
<1>1. Len(s) \in Nat /\ Len(t) \in Nat
  BY LenProperties
<1>2. /\ s \o t \in Seq(S)
      /\ Len(s \o t) = Len(s) + Len(t)
      /\ \A i \in 1 .. Len(s) + Len(t) :
           (s \o t)[i] = IF i <= Len(s) THEN s[i] ELSE t[i - Len(s)]
  BY ConcatProperties
<1>3. /\ FirstOf(n, s \o t) \in Seq(S)
      /\ Len(FirstOf(n, s \o t)) = n
      /\ \A i \in 1 .. n : FirstOf(n, s \o t)[i] = (s \o t)[i]
  <2> DEFINE whole == s \o t
  <2>1. whole \in Seq(S) /\ Len(whole) >= n
    BY <1>1, <1>2
  <2> HIDE DEF whole
  <2>2. /\ FirstOf(n, whole) \in Seq(S)
        /\ Len(FirstOf(n, whole)) = IF Len(whole) <= n THEN Len(whole) ELSE n
        /\ \A i \in 1 .. Len(FirstOf(n, whole)) : FirstOf(n, whole)[i] = whole[i]
    BY <2>1, FirstOfLen
  <2>3. Len(whole) \in Nat
    BY <2>1, LenProperties
  <2> QED  BY <2>1, <2>2, <2>3 DEF whole
<1>4. /\ FirstOf(n, s) \in Seq(S)
      /\ Len(FirstOf(n, s)) = n
      /\ \A i \in 1 .. n : FirstOf(n, s)[i] = s[i]
  BY <1>1, FirstOfLen
<1>5. \A i \in 1 .. n : FirstOf(n, s \o t)[i] = FirstOf(n, s)[i]
  BY <1>1, <1>2, <1>3, <1>4
<1> QED  BY <1>3, <1>4, <1>5, SeqEqual

\* A slice that exceeds the room left fills the cap exactly with its own
\* first bytes.
LEMMA FirstOfPart ==
  ASSUME NEW S, NEW s \in Seq(S), NEW t \in Seq(S), NEW n \in Nat,
         Len(s) <= n, n < Len(s) + Len(t)
  PROVE  /\ FirstOf(n, s \o t) = s \o SubSeq(t, 1, n - Len(s))
         /\ SubSeq(t, 1, n - Len(s)) \in Seq(S)
<1> DEFINE k == n - Len(s)
           u == SubSeq(t, 1, k)
<1>1. Len(s) \in Nat /\ Len(t) \in Nat /\ k \in Nat
  BY LenProperties
<1>2. \A i \in 1 .. k : t[i] \in S
  BY <1>1, ElementOfSeq
<1>3. /\ u \in Seq(S)
      /\ Len(u) = k
      /\ \A i \in 1 .. k : u[i] = t[i]
  <2>1. /\ u \in Seq(S)
        /\ Len(u) = IF 1 <= k THEN k - 1 + 1 ELSE 0
        /\ \A i \in 1 .. k - 1 + 1 : u[i] = t[1 + i - 1]
    BY <1>1, <1>2, SubSeqProperties
  <2> QED  BY <1>1, <2>1
<1>4. /\ s \o t \in Seq(S)
      /\ Len(s \o t) = Len(s) + Len(t)
      /\ \A i \in 1 .. Len(s) + Len(t) :
           (s \o t)[i] = IF i <= Len(s) THEN s[i] ELSE t[i - Len(s)]
  BY ConcatProperties
<1>5. /\ s \o u \in Seq(S)
      /\ Len(s \o u) = n
      /\ \A i \in 1 .. n :
           (s \o u)[i] = IF i <= Len(s) THEN s[i] ELSE u[i - Len(s)]
  <2>1. Len(s) + Len(u) = n
    BY <1>1, <1>3
  <2>2. /\ s \o u \in Seq(S)
        /\ Len(s \o u) = Len(s) + Len(u)
        /\ \A i \in 1 .. Len(s) + Len(u) :
             (s \o u)[i] = IF i <= Len(s) THEN s[i] ELSE u[i - Len(s)]
    BY <1>3, ConcatProperties
  <2> QED  BY <2>1, <2>2
<1>6. /\ FirstOf(n, s \o t) \in Seq(S)
      /\ Len(FirstOf(n, s \o t)) = n
      /\ \A i \in 1 .. n : FirstOf(n, s \o t)[i] = (s \o t)[i]
  <2> DEFINE whole == s \o t
  <2>1. whole \in Seq(S) /\ Len(whole) > n
    BY <1>1, <1>4
  <2> HIDE DEF whole
  <2>2. /\ FirstOf(n, whole) \in Seq(S)
        /\ Len(FirstOf(n, whole)) = IF Len(whole) <= n THEN Len(whole) ELSE n
        /\ \A i \in 1 .. Len(FirstOf(n, whole)) : FirstOf(n, whole)[i] = whole[i]
    BY <2>1, FirstOfLen
  <2>3. Len(whole) \in Nat
    BY <2>1, LenProperties
  <2> QED  BY <2>1, <2>2, <2>3 DEF whole
<1>7. ASSUME NEW i \in 1 .. n
      PROVE  FirstOf(n, s \o t)[i] = (s \o u)[i]
  <2>1. CASE i <= Len(s)
    BY <1>1, <1>4, <1>5, <1>6, <2>1
  <2>2. CASE ~(i <= Len(s))
    <3>1. i - Len(s) \in 1 .. k
      BY <1>1, <2>2
    <3>2. (s \o t)[i] = t[i - Len(s)]
      BY <1>1, <1>4, <2>2
    <3>3. (s \o u)[i] = u[i - Len(s)]
      BY <1>1, <1>5, <2>2
    <3>4. u[i - Len(s)] = t[i - Len(s)]
      BY <1>3, <3>1
    <3> QED  BY <1>6, <3>2, <3>3, <3>4
  <2> QED  BY <2>1, <2>2
<1>8. FirstOf(n, s \o t) = s \o u
  BY <1>5, <1>6, <1>7, SeqEqual
<1> QED  BY <1>3, <1>8

-----------------------------------------------------------------------------
(* The inductive invariant                                                 *)

Inside == {"room", "store", "flag", "unlock", "loadText", "loadFlag"}

\* A goroutine is inside a body exactly while it holds the mutex.
Exclusive == \A t \in Threads : pc[t] \in Inside <=> mu = t

\* The room a writer read is still the room there is when it stores.
RoomFresh == \A w \in Writers : pc[w] = "store" => room[w] = Max - Len(buf)

\* The flag is never ahead of the log, and behind it only while the writer
\* that lost bytes has yet to set it.
FlagTracks ==
  /\ truncated => Len(log) > Max
  /\ \A w \in Writers : pc[w] = "flag" => Len(log) > Max
  /\ Len(log) > Max => truncated \/ \E w \in Writers : pc[w] = "flag"

IInv == TypeOK /\ Exclusive /\ RoomFresh /\ KeepsPrefix /\ FlagTracks

\* The cap bounds the buffer because the buffer is a prefix of the log.
LEMMA PrefixIsBounded ==
  ASSUME TypeOK, KeepsPrefix
  PROVE  BoundedBuffer
<1>1. Len(buf) = IF Len(log) <= Max THEN Len(log) ELSE Max
  BY MaxAssumption, FirstOfLen DEF TypeOK, KeepsPrefix
<1>2. Len(log) \in Nat
  BY LenProperties DEF TypeOK
<1> QED  BY <1>1, <1>2, MaxAssumption DEF BoundedBuffer

\* A new writer satisfies the invariant: it is empty and nobody is in a body.
LEMMA InitIInv == Init => IInv
<1> SUFFICES ASSUME Init PROVE IInv
  OBVIOUS
<1>1. << >> \in Seq(Byte) /\ Len(<< >>) = 0
  BY EmptySeq
<1>2. TypeOK
  <2>1. buf \in Seq(Byte) /\ log \in Seq(Byte)
    BY <1>1 DEF Init
  <2>2. arg \in [Writers -> Seq(Byte)] /\ text \in [Readers -> Seq(Byte)]
    BY <1>1 DEF Init
  <2>3. mu \in Threads \cup {Nobody} /\ room \in [Writers -> Int] /\ wrote \in [Writers -> Nat]
    BY DEF Init
  <2>5. truncated \in BOOLEAN /\ cut \in [Readers -> BOOLEAN]
    BY Zenon DEF Init
  <2>4. /\ pc \in [Threads -> WriterPC \cup ReaderPC]
        /\ \A w \in Writers : pc[w] \in WriterPC
        /\ \A r \in Readers : pc[r] \in ReaderPC
    BY DEF Init, WriterPC, ReaderPC, Threads
  <2> QED  BY <2>1, <2>2, <2>3, <2>4, <2>5 DEF TypeOK
<1>3. Exclusive
  BY ThreadAssumption DEF Init, Exclusive, Inside
<1>4. RoomFresh
  BY DEF Init, RoomFresh, Threads
<1>5. KeepsPrefix
  BY <1>1, MaxAssumption DEF Init, KeepsPrefix, FirstOf
<1>6. FlagTracks
  BY <1>1, MaxAssumption DEF Init, FlagTracks, Threads
<1> QED  BY <1>2, <1>3, <1>4, <1>5, <1>6 DEF IInv

\* What a store must do to the buffer: extend it so that it stays the prefix
\* of the log extended with the whole slice.
LEMMA StoreKeepsPrefix ==
  ASSUME IInv, NEW w \in Writers, pc[w] = "store"
  PROVE  /\ room[w] > 0 /\ Fits(w) =>
              /\ buf \o arg[w] = FirstOf(Max, log \o arg[w])
              /\ Len(log \o arg[w]) <= Max
         /\ room[w] > 0 /\ ~Fits(w) =>
              /\ buf \o Kept(w) = FirstOf(Max, log \o arg[w])
              /\ Kept(w) \in Seq(Byte)
              /\ Len(log \o arg[w]) > Max
         /\ room[w] <= 0 =>
              /\ buf \o << >> = FirstOf(Max, log \o arg[w])
              /\ arg[w] # << >> => Len(log \o arg[w]) > Max
              /\ arg[w] = << >> => log \o arg[w] = log
         /\ log \o arg[w] \in Seq(Byte)
         /\ Len(log \o arg[w]) >= Len(log)
<1> DEFINE p == arg[w]
<1>1. /\ buf \in Seq(Byte) /\ log \in Seq(Byte) /\ p \in Seq(Byte)
      /\ Len(buf) \in Nat /\ Len(log) \in Nat /\ Len(p) \in Nat
  BY LenProperties DEF IInv, TypeOK
<1>0. room[w] \in Int
  BY DEF IInv, TypeOK
<1>2. room[w] = Max - Len(buf)
  BY DEF IInv, RoomFresh
<1>3. buf = FirstOf(Max, log)
  BY DEF IInv, KeepsPrefix
<1>4. Len(buf) = IF Len(log) <= Max THEN Len(log) ELSE Max
  BY <1>1, <1>3, MaxAssumption, FirstOfLen
<1>5. log \o p \in Seq(Byte) /\ Len(log \o p) = Len(log) + Len(p)
  BY <1>1, ConcatProperties
<1> HIDE DEF p
<1>6. CASE room[w] > 0
  <2>1. Len(log) < Max /\ buf = log
    BY <1>1, <1>2, <1>3, <1>4, <1>6, MaxAssumption DEF FirstOf
  <2>2. room[w] = Max - Len(log)
    BY <1>2, <2>1
  <2>3. CASE Len(p) <= room[w]
    <3>1. Len(log) + Len(p) <= Max
      BY <1>1, <2>2, <2>3, MaxAssumption
    <3>2. FirstOf(Max, log \o p) = FirstOf(Max, log) \o p
      BY <1>1, <3>1, MaxAssumption, FirstOfFits
    <3>3. Len(log \o p) <= Max /\ Len(log \o p) >= Len(log)
      BY <1>1, <1>5, <3>1, MaxAssumption
    <3>4. Fits(w) /\ ~(room[w] <= 0)
      BY <1>0, <1>6, <2>3 DEF p, Fits
    <3> QED  BY <1>3, <1>5, <3>2, <3>3, <3>4 DEF p
  <2>4. CASE ~(Len(p) <= room[w])
    <3>1. Max < Len(log) + Len(p) /\ Len(log) <= Max
      BY <1>1, <2>1, <2>2, <2>4, MaxAssumption
    <3>2. /\ FirstOf(Max, log \o p) = log \o SubSeq(p, 1, Max - Len(log))
          /\ SubSeq(p, 1, Max - Len(log)) \in Seq(Byte)
      BY <1>1, <3>1, MaxAssumption, FirstOfPart
    <3>3. Kept(w) = SubSeq(p, 1, Max - Len(log))
      BY <2>2 DEF p, Kept
    <3>4. ~Fits(w) /\ ~(room[w] <= 0)
      BY <1>0, <1>6, <2>4 DEF p, Fits
    <3>5. Len(log \o p) > Max /\ Len(log \o p) >= Len(log)
      BY <1>1, <1>5, <3>1, MaxAssumption
    <3> QED  BY <1>5, <2>1, <3>2, <3>3, <3>4, <3>5 DEF p
  <2> QED  BY <2>3, <2>4
<1>7. CASE ~(room[w] > 0)
  <2>1. Len(log) >= Max
    BY <1>1, <1>2, <1>4, <1>7, MaxAssumption
  <2>2. FirstOf(Max, log \o p) = FirstOf(Max, log)
    BY <1>1, <2>1, MaxAssumption, FirstOfFull
  <2>3. buf \o << >> = buf /\ log \o << >> = log
    BY <1>1, ConcatEmptySeq
  <2>4. p # << >> => Len(p) > 0
    BY <1>1, EmptySeq
  <2>5. p # << >> => Len(log \o p) > Max
    BY <1>1, <1>5, <2>1, <2>4, MaxAssumption
  <2>6. Len(log \o p) >= Len(log)
    BY <1>1, <1>5
  <2>7. ~(room[w] > 0 /\ Fits(w)) /\ ~(room[w] > 0 /\ ~Fits(w))
    BY <1>7
  <2> QED  BY <1>3, <1>5, <2>2, <2>3, <2>5, <2>6, <2>7 DEF p
<1> QED  BY <1>6, <1>7

-----------------------------------------------------------------------------
(* Preservation                                                            *)

\* Every step keeps the types.
LEMMA NextTypeOK == IInv /\ [Next]_vars => TypeOK'
<1> SUFFICES ASSUME IInv, [Next]_vars PROVE TypeOK'
  OBVIOUS
<1> USE ThreadAssumption, ChunkAssumption, MaxAssumption DEF TypeOK, Threads, Goto, WriterPC, ReaderPC
<1>0. TypeOK
  BY DEF IInv
<1>1. ASSUME NEW w \in Writers, CallWrite(w) PROVE TypeOK'
  BY <1>0, <1>1 DEF CallWrite
<1>2. ASSUME NEW r \in Readers, CallString(r) \/ CallTruncated(r) PROVE TypeOK'
  BY <1>0, <1>2 DEF CallString, CallTruncated
<1>3. ASSUME NEW w \in Writers, LockWrite(w) PROVE TypeOK'
  BY <1>0, <1>3 DEF LockWrite, Lock
<1>4. ASSUME NEW r \in Readers, LockString(r) \/ LockTruncated(r) PROVE TypeOK'
  BY <1>0, <1>4 DEF LockString, LockTruncated, Lock
<1>5. ASSUME NEW w \in Writers, ReadRoom(w) PROVE TypeOK'
  <2>1. Len(buf) \in Nat
    BY <1>0, LenProperties
  <2> QED  BY <1>0, <1>5, <2>1 DEF ReadRoom
<1>6. ASSUME NEW w \in Writers, StoreAll(w) \/ StorePart(w) \/ StoreNone(w) PROVE TypeOK'
  <2>1. pc[w] = "store"
    BY <1>6 DEF StoreAll, StorePart, StoreNone, Store
  <2>2. arg[w] \in Seq(Byte) /\ << >> \in Seq(Byte) /\ room[w] \in Int
    BY <1>0, EmptySeq
  <2>3. ASSUME NEW to \in {"unlock", "flag"}, NEW kept \in Seq(Byte), Store(w, to, kept)
        PROVE  TypeOK'
    <3>1. buf \o kept \in Seq(Byte) /\ log \o arg[w] \in Seq(Byte)
      BY <1>0, <2>2, ConcatProperties
    <3> QED  BY <1>0, <2>3, <3>1 DEF Store
  <2>4. CASE StoreAll(w)
    BY <2>2, <2>3, <2>4 DEF StoreAll
  <2>5. CASE StorePart(w)
    <3>1. Kept(w) \in Seq(Byte)
      BY <2>1, <2>5, StoreKeepsPrefix DEF StorePart
    <3> QED  BY <2>3, <2>5, <3>1 DEF StorePart
  <2>6. CASE StoreNone(w)
    BY <2>2, <2>3, <2>6 DEF StoreNone
  <2> QED  BY <1>6, <2>4, <2>5, <2>6
<1>7. ASSUME NEW w \in Writers, SetTruncated(w) PROVE TypeOK'
  BY <1>0, <1>7 DEF SetTruncated
<1>8. ASSUME NEW w \in Writers, ReturnWrite(w) PROVE TypeOK'
  <2>1. Reported(w) \in Nat
    BY <1>0, LenProperties DEF Reported
  <2> QED  BY <1>0, <1>8, <2>1 DEF ReturnWrite
<1>9. ASSUME NEW r \in Readers, LoadText(r) PROVE TypeOK'
  BY <1>0, <1>9 DEF LoadText
<1>10. ASSUME NEW r \in Readers, LoadFlag(r) PROVE TypeOK'
  BY <1>0, <1>10 DEF LoadFlag
<1>11. ASSUME NEW r \in Readers, ReturnRead(r) PROVE TypeOK'
  BY <1>0, <1>11 DEF ReturnRead
<1>12. CASE UNCHANGED vars
  BY <1>0, <1>12 DEF vars
<1> QED
  BY <1>1, <1>2, <1>3, <1>4, <1>5, <1>6, <1>7, <1>8, <1>9, <1>10, <1>11, <1>12
     DEF Next, Acquire, Body

\* The mutex keeps bodies apart.
LEMMA NextExclusive == IInv /\ [Next]_vars => Exclusive'
<1> SUFFICES ASSUME IInv, [Next]_vars PROVE Exclusive'
  OBVIOUS
<1> USE ThreadAssumption DEF Exclusive, Inside, Goto
<1>0. Exclusive /\ pc \in [Threads -> WriterPC \cup ReaderPC]
  BY DEF IInv, TypeOK
<1> USE DEF Threads
<1>1. ASSUME NEW w \in Writers, CallWrite(w) PROVE Exclusive'
  BY <1>0, <1>1 DEF CallWrite
<1>2. ASSUME NEW r \in Readers, CallString(r) \/ CallTruncated(r) PROVE Exclusive'
  BY <1>0, <1>2 DEF CallString, CallTruncated
<1>3. ASSUME NEW w \in Writers, LockWrite(w) PROVE Exclusive'
  BY <1>0, <1>3 DEF LockWrite, Lock, MutexFree
<1>4. ASSUME NEW r \in Readers, LockString(r) \/ LockTruncated(r) PROVE Exclusive'
  BY <1>0, <1>4 DEF LockString, LockTruncated, Lock, MutexFree
<1>5. ASSUME NEW w \in Writers, ReadRoom(w) \/ SetTruncated(w) PROVE Exclusive'
  BY <1>0, <1>5 DEF ReadRoom, SetTruncated
<1>6. ASSUME NEW w \in Writers, StoreAll(w) \/ StorePart(w) \/ StoreNone(w) PROVE Exclusive'
  BY <1>0, <1>6 DEF StoreAll, StorePart, StoreNone, Store
<1>7. ASSUME NEW w \in Writers, ReturnWrite(w) PROVE Exclusive'
  BY <1>0, <1>7 DEF ReturnWrite
<1>8. ASSUME NEW r \in Readers, LoadText(r) \/ LoadFlag(r) PROVE Exclusive'
  BY <1>0, <1>8 DEF LoadText, LoadFlag
<1>9. ASSUME NEW r \in Readers, ReturnRead(r) PROVE Exclusive'
  BY <1>0, <1>9 DEF ReturnRead
<1>10. CASE UNCHANGED vars
  BY <1>0, <1>10 DEF vars
<1> QED
  BY <1>1, <1>2, <1>3, <1>4, <1>5, <1>6, <1>7, <1>8, <1>9, <1>10 DEF Next, Acquire, Body

\* No store happens between the reading of a room and its use.
LEMMA NextRoomFresh == IInv /\ [Next]_vars => RoomFresh'
<1> SUFFICES ASSUME IInv, [Next]_vars, NEW v \in Writers, pc'[v] = "store"
             PROVE  room'[v] = Max - Len(buf')
  BY DEF RoomFresh
<1> USE ThreadAssumption DEF Goto, Threads
<1>0. /\ pc \in [Threads -> WriterPC \cup ReaderPC] /\ room \in [Writers -> Int]
      /\ \A t \in Threads : pc[t] \in Inside <=> mu = t
      /\ pc[v] = "store" => room[v] = Max - Len(buf)
  BY DEF IInv, TypeOK, Exclusive, RoomFresh
<1>1. ASSUME NEW w \in Writers, ReadRoom(w) PROVE room'[v] = Max - Len(buf')
  BY <1>0, <1>1 DEF ReadRoom
<1>2. ASSUME NEW w \in Writers, StoreAll(w) \/ StorePart(w) \/ StoreNone(w)
      PROVE  room'[v] = Max - Len(buf')
  <2>1. pc[w] = "store" /\ pc' = [pc EXCEPT ![w] = pc'[w]] /\ pc'[w] # "store"
    BY <1>0, <1>2 DEF StoreAll, StorePart, StoreNone, Store
  <2>2. v # w /\ pc[v] = "store"
    BY <1>0, <2>1
  <2>3. mu = w /\ mu = v
    BY <1>0, <2>1, <2>2 DEF Inside
  <2> QED  BY <2>2, <2>3
<1>3. ASSUME NEW w \in Writers,
             CallWrite(w) \/ LockWrite(w) \/ SetTruncated(w) \/ ReturnWrite(w)
      PROVE  room'[v] = Max - Len(buf')
  BY <1>0, <1>3 DEF CallWrite, LockWrite, Lock, SetTruncated, ReturnWrite
<1>4. ASSUME NEW r \in Readers,
             \/ CallString(r) \/ CallTruncated(r) \/ LockString(r) \/ LockTruncated(r)
             \/ LoadText(r) \/ LoadFlag(r) \/ ReturnRead(r)
      PROVE  room'[v] = Max - Len(buf')
  BY <1>0, <1>4 DEF CallString, CallTruncated, LockString, LockTruncated, Lock,
                    LoadText, LoadFlag, ReturnRead
<1>5. CASE UNCHANGED vars
  BY <1>0, <1>5 DEF vars
<1> QED  BY <1>1, <1>2, <1>3, <1>4, <1>5 DEF Next, Acquire, Body

\* Steps other than a store leave the buffer and the log alone.
LEMMA OnlyStoresStore ==
  ASSUME [Next]_vars
  PROVE  \/ UNCHANGED <<buf, log>>
         \/ \E w \in Writers : StoreAll(w) \/ StorePart(w) \/ StoreNone(w)
BY DEF Next, Acquire, Body, vars, CallWrite, LockWrite, Lock, ReadRoom, SetTruncated,
       ReturnWrite, CallString, CallTruncated, LockString, LockTruncated, LoadText,
       LoadFlag, ReturnRead

\* Write stores exactly what extends the retained prefix.
LEMMA NextKeepsPrefix == IInv /\ [Next]_vars => KeepsPrefix'
<1> SUFFICES ASSUME IInv, [Next]_vars PROVE KeepsPrefix'
  OBVIOUS
<1>1. CASE UNCHANGED <<buf, log>>
  BY <1>1 DEF IInv, KeepsPrefix
<1>2. ASSUME NEW w \in Writers, StoreAll(w) \/ StorePart(w) \/ StoreNone(w)
      PROVE  KeepsPrefix'
  <2>1. pc[w] = "store"
    BY <1>2 DEF StoreAll, StorePart, StoreNone, Store, Goto
  <2>2. CASE StoreAll(w)
    BY <2>1, <2>2, StoreKeepsPrefix DEF StoreAll, Store, KeepsPrefix
  <2>3. CASE StorePart(w)
    BY <2>1, <2>3, StoreKeepsPrefix DEF StorePart, Store, KeepsPrefix
  <2>4. CASE StoreNone(w)
    BY <2>1, <2>4, StoreKeepsPrefix DEF StoreNone, Store, KeepsPrefix
  <2> QED  BY <1>2, <2>2, <2>3, <2>4
<1> QED  BY <1>1, <1>2, OnlyStoresStore

\* Outside the step between a partial store and SetTruncated, truncated tells
\* whether the log has outgrown the cap.
LEMMA NextFlagTracks == IInv /\ [Next]_vars => FlagTracks'
<1> SUFFICES ASSUME IInv, [Next]_vars PROVE FlagTracks'
  OBVIOUS
<1> USE ThreadAssumption DEF Goto
<1>0. /\ pc \in [Threads -> WriterPC \cup ReaderPC]
      /\ \A t \in Threads : pc[t] \in Inside <=> mu = t
      /\ FlagTracks
  BY DEF IInv, TypeOK, Exclusive
<1> USE DEF Threads
<1>1. ASSUME NEW w \in Writers, StoreAll(w) \/ StorePart(w) \/ StoreNone(w)
      PROVE  FlagTracks'
  <2>1. pc[w] = "store" /\ truncated' = truncated /\ log' = log \o arg[w]
    BY <1>1 DEF StoreAll, StorePart, StoreNone, Store
  <2>2. Len(log \o arg[w]) >= Len(log) /\ Len(log) \in Nat /\ Len(log \o arg[w]) \in Nat
    BY <2>1, StoreKeepsPrefix, LenProperties DEF IInv, TypeOK
  <2>3. \A v \in Writers : pc[v] # "flag"
    BY <1>0, <2>1 DEF Inside
  <2>4. \A v \in Writers : v # w => pc'[v] # "flag"
    BY <1>0, <1>1, <2>3 DEF StoreAll, StorePart, StoreNone, Store
  <2>5. truncated <=> Len(log) > Max
    BY <1>0, <2>3 DEF FlagTracks
  <2>6. room[w] \in Int
    BY DEF IInv, TypeOK
  <2>7. CASE StoreAll(w)
    <3>1. Len(log \o arg[w]) <= Max /\ pc'[w] = "unlock"
      BY <1>0, <2>1, <2>7, StoreKeepsPrefix DEF StoreAll, Store
    <3> QED  BY <2>1, <2>2, <2>4, <2>5, <3>1, MaxAssumption DEF FlagTracks
  <2>8. CASE StorePart(w)
    <3>1. Len(log \o arg[w]) > Max /\ pc'[w] = "flag"
      BY <1>0, <2>1, <2>8, StoreKeepsPrefix DEF StorePart, Store
    <3> QED  BY <2>1, <3>1 DEF FlagTracks
  <2>9. CASE StoreNone(w) /\ arg[w] # << >>
    <3>1. Len(log \o arg[w]) > Max /\ pc'[w] = "flag"
      BY <1>0, <2>1, <2>9, StoreKeepsPrefix DEF StoreNone, Store
    <3> QED  BY <2>1, <3>1 DEF FlagTracks
  <2>10. CASE StoreNone(w) /\ arg[w] = << >>
    <3>1. log \o arg[w] = log /\ pc'[w] = "unlock"
      BY <1>0, <2>1, <2>10, StoreKeepsPrefix DEF StoreNone, Store
    <3> QED  BY <2>1, <2>4, <2>5, <3>1 DEF FlagTracks
  <2> QED  BY <1>1, <2>7, <2>8, <2>9, <2>10
<1>2. ASSUME NEW w \in Writers, SetTruncated(w) PROVE FlagTracks'
  <2>1. Len(log) > Max /\ truncated' /\ log' = log
    BY <1>0, <1>2 DEF SetTruncated, FlagTracks
  <2> QED  BY <2>1 DEF FlagTracks
<1>3. ASSUME NEW w \in Writers, CallWrite(w) \/ LockWrite(w) \/ ReadRoom(w) \/ ReturnWrite(w)
      PROVE  FlagTracks'
  BY <1>0, <1>3 DEF FlagTracks, CallWrite, LockWrite, Lock, ReadRoom, ReturnWrite
<1>4. ASSUME NEW r \in Readers,
             \/ CallString(r) \/ CallTruncated(r) \/ LockString(r) \/ LockTruncated(r)
             \/ LoadText(r) \/ LoadFlag(r) \/ ReturnRead(r)
      PROVE  FlagTracks'
  BY <1>0, <1>4 DEF FlagTracks, CallString, CallTruncated, LockString, LockTruncated, Lock,
                    LoadText, LoadFlag, ReturnRead
<1>5. CASE UNCHANGED vars
  BY <1>0, <1>5 DEF vars, FlagTracks
<1> QED  BY <1>1, <1>2, <1>3, <1>4, <1>5 DEF Next, Acquire, Body

\* The invariant is inductive.
THEOREM Inductive == Spec => []IInv
<1>1. IInv /\ [Next]_vars => IInv'
  BY NextTypeOK, NextExclusive, NextRoomFresh, NextKeepsPrefix, NextFlagTracks DEF IInv
<1> QED  BY <1>1, InitIInv, PTL DEF Spec

-----------------------------------------------------------------------------
(* What follows                                                            *)

\* Every variable keeps the type the code gives it, in every behaviour.
THEOREM TypeCorrect == Spec => []TypeOK
<1>1. IInv => TypeOK
  BY DEF IInv
<1> QED  BY <1>1, Inductive, PTL

\* The retained output never exceeds the cap, whatever the cap, the slices
\* and the number of goroutines: the bound capped_writer.go:8 states.
THEOREM NeverOverCap == Spec => []BoundedBuffer
<1>1. IInv => BoundedBuffer
  BY PrefixIsBounded DEF IInv
<1> QED  BY <1>1, Inductive, PTL

\* The retained output is always the exact beginning of what was written.
THEOREM AlwaysPrefix == Spec => []KeepsPrefix
<1>1. IInv => KeepsPrefix
  BY DEF IInv
<1> QED  BY <1>1, Inductive, PTL

\* With the mutex free the flag tells complete output from cut output.
THEOREM FlagAlwaysExact == Spec => []FlagExact
<1>1. ASSUME IInv PROVE FlagExact
  <2>1. MutexFree => \A w \in Writers : pc[w] # "flag"
    BY <1>1, ThreadAssumption DEF IInv, Exclusive, Inside, MutexFree, Threads
  <2> QED  BY <1>1, <2>1 DEF IInv, FlagTracks, FlagExact
<1> QED  BY <1>1, Inductive, PTL

\* Retained bytes are never rewritten, and a truncated text is final.
THEOREM TruncatedIsFrozen == Spec => FrozenOnceTruncated
<1> DEFINE Frozen == /\ Len(buf) <= Len(buf') /\ SubSeq(buf', 1, Len(buf)) = buf
                     /\ truncated => truncated' /\ buf' = buf
<1>1. ASSUME IInv, [Next]_vars PROVE Frozen
  <2>0. buf \in Seq(Byte) /\ Len(buf) \in Nat /\ log \in Seq(Byte) /\ Len(log) \in Nat
    BY <1>1, LenProperties DEF IInv, TypeOK
  <2>1. ASSUME NEW kept \in Seq(Byte), buf' = buf \o kept
        PROVE  Len(buf) <= Len(buf') /\ SubSeq(buf', 1, Len(buf)) = buf
    <3>1. /\ buf' \in Seq(Byte) /\ Len(buf') = Len(buf) + Len(kept)
          /\ \A i \in 1 .. Len(buf) + Len(kept) :
                buf'[i] = IF i <= Len(buf) THEN buf[i] ELSE kept[i - Len(buf)]
      BY <2>0, <2>1, ConcatProperties
    <3>2. Len(kept) \in Nat
      BY LenProperties
    <3>3. Len(buf) <= Len(buf')
      BY <2>0, <3>1, <3>2
    <3>4. FirstOf(Len(buf), buf') = buf
      <4> DEFINE n == Len(buf)
      <4>1. /\ FirstOf(n, buf') \in Seq(Byte) /\ Len(FirstOf(n, buf')) = n
            /\ \A i \in 1 .. n : FirstOf(n, buf')[i] = buf'[i]
        BY <2>0, <3>1, <3>2, FirstOfLen
      <4>2. \A i \in 1 .. n : FirstOf(n, buf')[i] = buf[i]
        BY <2>0, <3>1, <3>2, <4>1
      <4> QED  BY <2>0, <4>1, <4>2, SeqEqual
    <3>5. FirstOf(Len(buf), buf') = SubSeq(buf', 1, Len(buf))
      BY <2>0, <3>1, <3>2, <3>3, SubSeqFull DEF FirstOf
    <3> QED  BY <3>3, <3>4, <3>5
  <2>2. CASE UNCHANGED <<buf, log>>
    <3>1. truncated => truncated'
      BY <1>1 DEF Next, Acquire, Body, vars, CallWrite, LockWrite, Lock, ReadRoom,
           SetTruncated, ReturnWrite, CallString, CallTruncated, LockString, LockTruncated,
           LoadText, LoadFlag, ReturnRead, StoreAll, StorePart, StoreNone, Store
    <3> QED  BY <2>0, <2>2, <3>1, SubSeqFull
  <2>3. ASSUME NEW w \in Writers, StoreAll(w) \/ StorePart(w) \/ StoreNone(w)
        PROVE  Frozen
    <3>1. pc[w] = "store" /\ truncated' = truncated
      BY <2>3 DEF StoreAll, StorePart, StoreNone, Store, Goto
    <3>2. arg[w] \in Seq(Byte) /\ << >> \in Seq(Byte) /\ room[w] \in Int
      BY <1>1, EmptySeq DEF IInv, TypeOK
    <3>3. Len(buf) <= Len(buf') /\ SubSeq(buf', 1, Len(buf)) = buf
      <4>1. CASE StoreAll(w)
        BY <2>1, <3>2, <4>1 DEF StoreAll, Store
      <4>2. CASE StorePart(w)
        <5>1. Kept(w) \in Seq(Byte)
          BY <1>1, <3>1, <4>2, StoreKeepsPrefix DEF StorePart
        <5> QED  BY <2>1, <4>2, <5>1 DEF StorePart, Store
      <4>3. CASE StoreNone(w)
        BY <2>1, <3>2, <4>3 DEF StoreNone, Store
      <4> QED  BY <2>3, <4>1, <4>2, <4>3
    <3>4. ASSUME truncated PROVE buf' = buf
      <4>1. Len(log) > Max
        BY <1>1, <3>4 DEF IInv, FlagTracks
      <4>2. Len(buf) = Max
        BY <1>1, <2>0, <4>1, MaxAssumption, FirstOfLen DEF IInv, KeepsPrefix
      <4>3. room[w] = 0
        BY <1>1, <3>1, <4>2, MaxAssumption DEF IInv, RoomFresh
      <4>4. StoreNone(w)
        BY <2>3, <4>3 DEF StoreAll, StorePart
      <4> QED  BY <2>0, <4>4, ConcatEmptySeq DEF StoreNone, Store
    <3> QED  BY <3>1, <3>3, <3>4
  <2> QED  BY <1>1, <2>2, <2>3, OnlyStoresStore
<1>2. IInv /\ [Next]_vars => [Frozen]_vars
  BY <1>1
<1> QED  BY <1>2, Inductive, PTL DEF Spec, FrozenOnceTruncated

-----------------------------------------------------------------------------
(* The refinement of PrefixSink                                            *)

\* The abstract status that a program counter stands for.
Phase(at) ==
  IF at = "idle" THEN "idle" ELSE IF at \in {"flag", "unlock"} THEN "done" ELSE "called"

\* The abstract status of a thread is a function of its program counter.
LEMMA StatusIsPhase ==
  /\ statusBar = [t \in Threads |-> Phase(pc[t])]
  /\ statusBar' = [t \in Threads |-> Phase(pc'[t])]
BY DEF statusBar, StatusOf, Phase

\* A step of one program counter is a step of its thread's abstract status.
LEMMA GotoMovesStatus ==
  ASSUME TypeOK, NEW t \in Threads, NEW from, NEW to, Goto(t, from, to)
  PROVE  /\ statusBar[t] = Phase(from)
         /\ statusBar' = [statusBar EXCEPT ![t] = Phase(to)]
<1>1. pc \in [Threads -> WriterPC \cup ReaderPC]
  BY DEF TypeOK
<1> QED  BY <1>1, StatusIsPhase DEF Goto

\* A step between two program counters of one phase is invisible to the sink.
LEMMA GotoWithinPhase ==
  ASSUME TypeOK, NEW t \in Threads, NEW from, NEW to, Goto(t, from, to),
         Phase(from) = Phase(to)
  PROVE  statusBar' = statusBar
<1>1. pc \in [Threads -> WriterPC \cup ReaderPC]
  BY DEF TypeOK
<1> QED  BY <1>1, StatusIsPhase DEF Goto

\* Reading the buffer reads the prefix the abstract sink promises, and with
\* the mutex held the flag is the one it promises too.
LEMMA ReadersSeeTheSink ==
  ASSUME IInv, NEW r \in Readers, pc[r] \in {"loadText", "loadFlag"}
  PROVE  /\ buf = FirstOf(Max, log)
         /\ truncated <=> Len(log) > Max
<1>1. \A w \in Writers : pc[w] # "flag"
  BY ThreadAssumption DEF IInv, Exclusive, Inside, Threads
<1> QED  BY <1>1 DEF IInv, KeepsPrefix, FlagTracks

\* Every step of the code is a step of the sink or leaves it alone.
LEMMA StepImplementsSink == IInv /\ [Next]_vars => [Sink!SinkNext]_Sink!sinkVars
<1> SUFFICES ASSUME IInv, [Next]_vars PROVE [Sink!SinkNext]_Sink!sinkVars
  OBVIOUS
<1> USE DEF Sink!SinkNext, Sink!sinkVars
<1>0. TypeOK
  BY DEF IInv
<1>1. ASSUME NEW w \in Writers, CallWrite(w) PROVE Sink!SinkCall(w)
  <2>1. Goto(w, "idle", "write") /\ w \in Threads
    BY <1>1 DEF CallWrite, Threads
  <2>2. statusBar[w] = "idle" /\ statusBar' = [statusBar EXCEPT ![w] = "called"]
    BY <1>0, <2>1, GotoMovesStatus DEF Phase
  <2> QED  BY <1>1, <2>2 DEF CallWrite, Sink!SinkCall
<1>2. ASSUME NEW r \in Readers, CallString(r) \/ CallTruncated(r) PROVE Sink!SinkCall(r)
  <2>1. \E to \in {"string", "truncated"} : Goto(r, "idle", to) /\ r \in Threads
    BY <1>2 DEF CallString, CallTruncated, Threads
  <2>2. statusBar[r] = "idle" /\ statusBar' = [statusBar EXCEPT ![r] = "called"]
    BY <1>0, <2>1, GotoMovesStatus DEF Phase
  <2>3. r \notin Writers
    BY ThreadAssumption
  <2> QED  BY <1>2, <2>2, <2>3 DEF CallString, CallTruncated, Sink!SinkCall
<1>3. ASSUME NEW t \in Threads, Acquire(t) PROVE UNCHANGED Sink!sinkVars
  <2>1. \E from \in {"write", "string", "truncated"}, to \in {"room", "loadText", "loadFlag"} :
            Lock(t, from, to)
    BY <1>3 DEF Acquire, LockWrite, LockString, LockTruncated
  <2>2. statusBar' = statusBar
    BY <1>0, <2>1, GotoWithinPhase DEF Lock, Phase
  <2> QED  BY <2>1, <2>2 DEF Lock
<1>4. ASSUME NEW w \in Writers, ReadRoom(w) \/ SetTruncated(w) PROVE UNCHANGED Sink!sinkVars
  <2>1. w \in Threads /\ (Goto(w, "room", "store") \/ Goto(w, "flag", "unlock"))
    BY <1>4 DEF ReadRoom, SetTruncated, Threads
  <2>2. statusBar' = statusBar
    BY <1>0, <2>1, GotoWithinPhase DEF Phase
  <2> QED  BY <1>4, <2>2 DEF ReadRoom, SetTruncated
<1>5. ASSUME NEW w \in Writers, StoreAll(w) \/ StorePart(w) \/ StoreNone(w)
      PROVE  Sink!SinkWrite(w)
  <2>1. w \in Threads /\ \E to \in {"flag", "unlock"} : Goto(w, "store", to)
    BY <1>5 DEF StoreAll, StorePart, StoreNone, Store, Threads
  <2>2. statusBar[w] = "called" /\ statusBar' = [statusBar EXCEPT ![w] = "done"]
    BY <1>0, <2>1, GotoMovesStatus DEF Phase
  <2> QED  BY <1>5, <2>2 DEF StoreAll, StorePart, StoreNone, Store, Sink!SinkWrite
<1>6. ASSUME NEW w \in Writers, ReturnWrite(w) PROVE Sink!SinkReturn(w)
  <2>1. w \in Threads /\ Goto(w, "unlock", "idle")
    BY <1>6 DEF ReturnWrite, Threads
  <2>2. statusBar[w] = "done" /\ statusBar' = [statusBar EXCEPT ![w] = "idle"]
    BY <1>0, <2>1, GotoMovesStatus DEF Phase
  <2> QED  BY <1>6, <2>2 DEF ReturnWrite, Reported, Sink!SinkReturn
<1>7. ASSUME NEW r \in Readers, LoadText(r) PROVE Sink!SinkText(r)
  <2>1. r \in Threads /\ Goto(r, "loadText", "unlock")
    BY <1>7 DEF LoadText, Threads
  <2>2. statusBar[r] = "called" /\ statusBar' = [statusBar EXCEPT ![r] = "done"]
    BY <1>0, <2>1, GotoMovesStatus DEF Phase
  <2>3. buf = Sink!FirstOf(Max, log)
    BY <2>1, ReadersSeeTheSink DEF Goto, FirstOf, Sink!FirstOf
  <2> QED  BY <1>7, <2>2, <2>3 DEF LoadText, Sink!SinkText
<1>8. ASSUME NEW r \in Readers, LoadFlag(r) PROVE Sink!SinkCut(r)
  <2>1. r \in Threads /\ Goto(r, "loadFlag", "unlock")
    BY <1>8 DEF LoadFlag, Threads
  <2>2. statusBar[r] = "called" /\ statusBar' = [statusBar EXCEPT ![r] = "done"]
    BY <1>0, <2>1, GotoMovesStatus DEF Phase
  <2>3. truncated = (Len(log) > Max)
    BY <1>0, <2>1, ReadersSeeTheSink DEF Goto, TypeOK
  <2>4. cut' = [cut EXCEPT ![r] = Len(log) > Max]
    BY <1>8, <2>3, Zenon DEF LoadFlag
  <2> QED  BY <1>8, <2>2, <2>4 DEF LoadFlag, Sink!SinkCut
<1>9. ASSUME NEW r \in Readers, ReturnRead(r) PROVE Sink!SinkReturn(r)
  <2>1. r \in Threads /\ Goto(r, "unlock", "idle")
    BY <1>9 DEF ReturnRead, Threads
  <2>2. statusBar[r] = "done" /\ statusBar' = [statusBar EXCEPT ![r] = "idle"]
    BY <1>0, <2>1, GotoMovesStatus DEF Phase
  <2>3. r \notin Writers
    BY ThreadAssumption
  <2> QED  BY <1>9, <2>2, <2>3 DEF ReturnRead, Sink!SinkReturn
<1>10. CASE UNCHANGED vars
  <2>1. statusBar' = statusBar
    BY <1>10, StatusIsPhase DEF vars
  <2> QED  BY <1>10, <2>1 DEF vars
<1> QED
  BY <1>1, <1>2, <1>3, <1>4, <1>5, <1>6, <1>7, <1>8, <1>9, <1>10 DEF Next, Body, Threads

\* The mutex-protected buffer implements the abstract sink: concurrent calls
\* behave as if each took effect at one instant, whole.
THEOREM WriterImplementsSink == Spec => ImplementsSink
<1>1. Init => Sink!SinkInit
  <2> SUFFICES ASSUME Init PROVE Sink!SinkInit
    OBVIOUS
  <2>1. statusBar = [t \in Writers \cup Readers |-> "idle"]
    BY StatusIsPhase DEF Init, Phase, Threads
  <2> QED  BY <2>1 DEF Init, Sink!SinkInit
<1> QED  BY <1>1, Inductive, StepImplementsSink, PTL DEF Spec, ImplementsSink, Sink!SinkSpec

=============================================================================
