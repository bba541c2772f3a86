------------------------ MODULE ConfigVerdictsProofs ------------------------
(***************************************************************************)
(* Theorems about ConfigParser and the verdicts drawn from its facts, for  *)
(* a file of any length and any lines.  The argument: the facts are those  *)
(* the lines read so far state, and the section is the one the next line   *)
(* is under (ReadSoFar); each kind of line adds what it states to both.    *)
(***************************************************************************)
EXTENDS ConfigVerdicts, FiniteSetTheorems, SequenceTheorems, WellFoundedInduction, TLAPS

-----------------------------------------------------------------------------
(* The inductive invariant                                                 *)

Sections == (Stanzas \cup Reserved) \ {""}

\* The section at hand is that of the last header.
InSection == \A s \in Sections : Under(s, Len(read) + 1) <=> section = s

\* Between two lines as at the end, the facts are those of the lines so far.
ReadSoFar ==
  /\ pc = "start" => read = << >> /\ section = "" /\ facts = NoFacts
  /\ pc \in {"lines", "parsed"} => AsWritten /\ InSection
  /\ pc = "failed" => /\ facts = NoFacts
                      /\ valid => read # << >> /\ Last(read).kind = "malformed"

IInv == TypeOK /\ ReadSoFar

-----------------------------------------------------------------------------
(* Sets of lines                                                           *)

\* A set of numbers has a least one, and Min is that.
LEMMA MinIsLeast ==
  ASSUME NEW S \in SUBSET Nat, S # {}
  PROVE  Min(S) \in S /\ \A y \in S : Min(S) <= y
<1>1. PICK x \in S : \A y \in S : ~ (<<y, x>> \in OpToRel(<, Nat))
  BY NatLessThanWellFounded, WFMin
<1>2. \A y \in S : x <= y
  <2>1. \A y \in S : ~(y < x)
    BY <1>1 DEF OpToRel
  <2> QED BY <2>1
<1> QED BY <1>2 DEF Min

\* A bounded set of numbers has a greatest one, and Max is that.
LEMMA MaxIsGreatest ==
  ASSUME NEW n \in Nat, NEW S \in SUBSET (1 .. n), S # {}
  PROVE  Max(S) \in S /\ \A y \in S : y <= Max(S)
<1> DEFINE T == {m \in Nat : \E s \in S : m = n - s}
<1>1. T \in SUBSET Nat /\ T # {}
  <2>1. PICK s \in S : TRUE
    OBVIOUS
  <2>2. n - s \in T
    OBVIOUS
  <2> QED BY <2>2
<1>2. Min(T) \in T /\ \A u \in T : Min(T) <= u
  <2> HIDE DEF T
  <2> QED BY <1>1, MinIsLeast
<1>3. PICK x \in S : Min(T) = n - x
  BY <1>2
<1>4. \A y \in S : n - x <= n - y
  BY <1>2, <1>3
<1>5. \E m \in S : \A y \in S : m >= y
  BY <1>4
<1> QED BY <1>5 DEF Max

\* One more line is the greatest, and the least only when it is the first.
LEMMA ExtremesOfOneMore ==
  ASSUME NEW n \in Nat, NEW S \in SUBSET (1 .. n)
  PROVE  /\ Max(S \cup {n + 1}) = n + 1
         /\ Min(S \cup {n + 1}) = IF S = {} THEN n + 1 ELSE Min(S)
<1> DEFINE T == S \cup {n + 1}
<1>1. /\ n + 1 \in Nat /\ T \in SUBSET (1 .. n + 1) /\ T \in SUBSET Nat /\ T # {}
      /\ n + 1 \in T /\ \A y \in T : y \in Nat /\ (y = n + 1 \/ y \in S)
      /\ \A y \in S : y \in T /\ y \in Nat /\ y < n + 1
  OBVIOUS
<1> HIDE DEF T
<1>2. Max(T) \in T /\ \A y \in T : y <= Max(T)
  BY <1>1, MaxIsGreatest
<1>3. Min(T) \in T /\ \A y \in T : Min(T) <= y
  BY <1>1, MinIsLeast
<1>4. Max(T) = n + 1
  <2>1. n + 1 <= Max(T) /\ Max(T) \in Nat
    BY <1>1, <1>2
  <2>2. Max(T) = n + 1 \/ Max(T) < n + 1
    BY <1>1, <1>2
  <2> QED BY <2>1, <2>2
<1>5. CASE S = {}
  BY <1>1, <1>3, <1>4, <1>5 DEF T
<1>6. CASE S # {}
  <2>1. Min(S) \in S /\ \A y \in S : Min(S) <= y
    BY <1>1, <1>6, MinIsLeast
  <2>2. Min(T) <= Min(S) /\ Min(S) < n + 1 /\ Min(S) \in Nat /\ Min(T) \in Nat
    BY <1>1, <1>3, <2>1
  <2>3. Min(T) \in S
    BY <1>1, <1>3, <2>2
  <2>4. Min(T) = Min(S)
    BY <2>1, <2>2, <2>3
  <2> QED BY <1>4, <1>6, <2>4 DEF T
<1> QED BY <1>5, <1>6

\* What is read is a file that grows by a line.
Grows(line) == read \in Seq(Lines) /\ line \in Lines /\ read' = Append(read, line)

LEMMA GrownLines ==
  ASSUME NEW line, Grows(line)
  PROVE  /\ Len(read) \in Nat /\ Len(read') = Len(read) + 1
         /\ DOMAIN read = 1 .. Len(read) /\ DOMAIN read' = 1 .. Len(read) + 1
         /\ \A i \in 1 .. Len(read) : read'[i] = read[i]
         /\ read'[Len(read) + 1] = line
BY DEF Grows

\* A line does not move those before it to another section.
LEMMA UnderStays ==
  ASSUME NEW line, Grows(line), NEW s, NEW i \in 1 .. Len(read) + 1
  PROVE  Under(s, i)' <=> Under(s, i)
<1>1. \A k \in 1 .. i - 1 : read'[k] = read[k]
  BY GrownLines
<1>2. \A j \in 1 .. i - 1 : \A k \in j + 1 .. i - 1 : k \in 1 .. i - 1
  BY GrownLines
<1> QED BY <1>1, <1>2 DEF Under

\* The next line is under the header just read, or where this one was.
LEMMA UnderNext ==
  ASSUME NEW line, Grows(line), NEW s
  PROVE  Under(s, Len(read) + 1)' <=>
           IF line.kind = "header" THEN Lower[line.name] = s ELSE Under(s, Len(read) + 1)
<1> DEFINE Heads(j) == read'[j].kind = "header" /\ Lower[read'[j].name] = s
<1>1. PICK n \in Nat : n = Len(read) + 1
  BY GrownLines
<1>2. /\ Len(read') + 1 - 1 = n /\ read'[n] = line /\ n - 1 = Len(read)
      /\ \A i \in 1 .. n - 1 : read'[i] = read[i]
  BY <1>1, GrownLines
<1>3. Under(s, Len(read) + 1)' <=>
        \E j \in 1 .. n : Heads(j) /\ \A k \in j + 1 .. n : read'[k].kind # "header"
  BY <1>2 DEF Under
<1>4. CASE line.kind = "header"
  <2>1. ASSUME NEW j \in 1 .. n, \A k \in j + 1 .. n : read'[k].kind # "header"
        PROVE  j = n
    BY <1>1, <1>2, <1>4, <2>1
  <2>2. \A k \in n + 1 .. n : read'[k].kind # "header"
    BY <1>1
  <2>3. Heads(n) <=> Lower[line.name] = s
    BY <1>2, <1>4
  <2>4. n \in 1 .. n
    BY <1>1, GrownLines
  <2> HIDE DEF Heads
  <2> QED BY <1>3, <1>4, <2>1, <2>2, <2>3, <2>4
<1>5. CASE line.kind # "header"
  <2>1. Under(s, Len(read) + 1) <=>
          \E j \in 1 .. n - 1 : Heads(j) /\ \A k \in j + 1 .. n - 1 : read'[k].kind # "header"
    <3>1. \A j \in 1 .. n - 1 : \A k \in j + 1 .. n - 1 : k \in 1 .. n - 1
      BY <1>1
    <3> QED BY <1>1, <1>2, <3>1 DEF Under
  <2>2. ~Heads(n)
    BY <1>2, <1>5
  <2>3. \A j \in 1 .. n - 1 : (\A k \in j + 1 .. n : read'[k].kind # "header")
                             <=> (\A k \in j + 1 .. n - 1 : read'[k].kind # "header")
    BY <1>1, <1>2, <1>5
  <2>4. \A j \in 1 .. n : j = n \/ j \in 1 .. n - 1
    BY <1>1
  <2>5. \A j \in 1 .. n - 1 : j \in 1 .. n
    BY <1>1
  <2> HIDE DEF Heads
  <2> QED BY <1>3, <1>5, <2>1, <2>2, <2>3, <2>4, <2>5
<1> QED BY <1>4, <1>5

\* A line joins its section when it is content.
LEMMA InGrows ==
  ASSUME NEW line, Grows(line), NEW s
  PROVE  In(s)' = IF IsContent(line) /\ Under(s, Len(read) + 1)
                  THEN In(s) \cup {Len(read) + 1} ELSE In(s)
<1>1. PICK n \in Nat : n = Len(read) + 1
  BY GrownLines
<1>2. /\ DOMAIN read' = 1 .. n /\ DOMAIN read = 1 .. n - 1 /\ read'[n] = line
      /\ \A i \in 1 .. n - 1 : read'[i] = read[i]
  BY <1>1, GrownLines
<1>3. \A i \in 1 .. n : Under(s, i)' <=> Under(s, i)
  BY <1>1, UnderStays
<1>4. In(s)' = {i \in 1 .. n : IsContent(read'[i]) /\ Under(s, i)}
  BY <1>2, <1>3 DEF In
<1>5. In(s) = {i \in 1 .. n - 1 : IsContent(read'[i]) /\ Under(s, i)}
  BY <1>2 DEF In
<1>6. \A i : i \in 1 .. n <=> (i \in 1 .. n - 1 \/ i = n)
  BY <1>1, GrownLines
<1>7. n \notin 1 .. n - 1
  BY <1>1
<1> HIDE DEF IsContent
<1> QED BY <1>1, <1>2, <1>4, <1>5, <1>6, <1>7

\* What a section says of its keys changes with the pairs in it, as Apply has it.
LEMMA SaidGrows ==
  ASSUME NEW line, Grows(line), NEW s, NEW keys
  PROVE  Said(s, keys)' = IF IsContent(line) /\ Under(s, Len(read) + 1)
                          THEN Apply(Said(s, keys), line) ELSE Said(s, keys)
<1>1. PICK n \in Nat : n = Len(read)
  BY GrownLines
<1>2. /\ read'[n + 1] = line /\ \A i \in 1 .. n : read'[i] = read[i]
      /\ DOMAIN read = 1 .. n
  BY <1>1, GrownLines
<1> DEFINE joins(k) == /\ IsContent(line) /\ Under(s, Len(read) + 1)
                      /\ line.kind = "pair" /\ Key(line) = k
           said(k) == IF Pairs(s, k) = {} THEN Empty ELSE read[Max(Pairs(s, k))].value
           next(k) == IF joins(k) THEN line.value ELSE said(k)
<1>3. \A k : Pairs(s, k) \subseteq 1 .. n
  BY <1>2 DEF Pairs, In
<1>4. \A k : Pairs(s, k)' = IF joins(k) THEN Pairs(s, k) \cup {n + 1} ELSE Pairs(s, k)
  <2> TAKE k
  <2>1. \A i \in In(s) : i \in 1 .. n
    BY <1>2 DEF In
  <2>2. \A i \in In(s) : read'[i] = read[i]
    BY <1>2, <2>1
  <2>3. Pairs(s, k)' = {i \in In(s)' : read'[i].kind = "pair" /\ Lower[read'[i].name] = k}
    BY DEF Pairs, Key
  <2>4. Pairs(s, k) = {i \in In(s) : read'[i].kind = "pair" /\ Lower[read'[i].name] = k}
    BY <2>2 DEF Pairs, Key
  <2>5. In(s)' = IF IsContent(line) /\ Under(s, Len(read) + 1) THEN In(s) \cup {n + 1} ELSE In(s)
    BY <1>1, InGrows
  <2>6. Key(line) = Lower[line.name]
    BY DEF Key
  <2> HIDE DEF IsContent
  <2> QED BY <1>2, <2>3, <2>4, <2>5, <2>6
<1>5. \A k : (IF Pairs(s, k) = {} THEN Empty ELSE read[Max(Pairs(s, k))].value)' = next(k)
  <2> TAKE k
  <2>1. CASE joins(k)
    <3>1. Pairs(s, k)' = Pairs(s, k) \cup {n + 1}
      BY <1>4, <2>1
    <3>2. Max(Pairs(s, k) \cup {n + 1}) = n + 1
      BY <1>3, ExtremesOfOneMore
    <3> QED BY <1>2, <2>1, <3>1, <3>2
  <2>2. CASE ~joins(k)
    <3>1. Pairs(s, k)' = Pairs(s, k)
      BY <1>4, <2>2
    <3>2. Pairs(s, k) # {} => Max(Pairs(s, k)) \in 1 .. n
      BY <1>3, MaxIsGreatest
    <3>3. Pairs(s, k) # {} => read'[Max(Pairs(s, k))] = read[Max(Pairs(s, k))]
      BY <1>2, <3>2
    <3> HIDE DEF joins
    <3> QED BY <2>2, <3>1, <3>3
  <2> QED BY <2>1, <2>2
<1>6. Said(s, keys) = [k \in keys |-> said(k)]
  BY DEF Said
<1>7. Said(s, keys)' = [k \in keys |-> next(k)]
  <2>1. Said(s, keys)' = [k \in keys |-> (IF Pairs(s, k) = {} THEN Empty ELSE read[Max(Pairs(s, k))].value)']
    BY DEF Said
  <2> QED BY <1>5, <2>1
<1>8. CASE IsContent(line) /\ Under(s, Len(read) + 1)
  <2>1. DOMAIN Said(s, keys) = keys /\ \A k \in keys : Said(s, keys)[k] = said(k)
    BY <1>6
  <2>2. Apply(Said(s, keys), line) = [k \in keys |-> next(k)]
    <3> HIDE DEF said
    <3>1. CASE line.kind = "pair" /\ Key(line) \in keys
      BY <1>6, <1>8, <2>1, <3>1 DEF Apply
    <3>2. CASE ~(line.kind = "pair" /\ Key(line) \in keys)
      BY <1>6, <1>8, <2>1, <3>2 DEF Apply
    <3> QED BY <3>1, <3>2
  <2> QED BY <1>7, <1>8, <2>2
<1>9. CASE ~(IsContent(line) /\ Under(s, Len(read) + 1))
  <2>1. \A k \in keys : next(k) = said(k)
    BY <1>9
  <2> HIDE DEF next, said
  <2> QED BY <1>6, <1>7, <1>9, <2>1
<1> QED BY <1>8, <1>9

\* A bare line under [server] becomes an active one.
LEMMA ActiveGrows ==
  ASSUME NEW line, Grows(line)
  PROVE  Active' = IF line.kind = "bare" /\ Under("server", Len(read) + 1)
                   THEN Active \cup {Len(read) + 1} ELSE Active
<1>1. PICK n \in Nat : n = Len(read) + 1
  BY GrownLines
<1>2. /\ DOMAIN read' = 1 .. n /\ DOMAIN read = 1 .. n - 1 /\ read'[n] = line
      /\ \A i \in 1 .. n - 1 : read'[i] = read[i]
  BY <1>1, GrownLines
<1>3. \A i \in 1 .. n : Under("server", i)' <=> Under("server", i)
  BY <1>1, UnderStays
<1>4. Active' = {i \in 1 .. n : read'[i].kind = "bare" /\ Under("server", i)}
  BY <1>2, <1>3 DEF Active
<1>5. Active = {i \in 1 .. n - 1 : read'[i].kind = "bare" /\ Under("server", i)}
  BY <1>2 DEF Active
<1>6. \A i : i \in 1 .. n <=> (i \in 1 .. n - 1 \/ i = n)
  BY <1>1, GrownLines
<1>7. n \notin 1 .. n - 1
  BY <1>1
<1> QED BY <1>1, <1>2, <1>4, <1>5, <1>6, <1>7

LEMMA HeaderGrows ==
  ASSUME NEW line, Grows(line), NEW s
  PROVE  HasHeader(s)' <=> HasHeader(s) \/ (line.kind = "header" /\ Lower[line.name] = s)
<1>1. PICK n \in Nat : n = Len(read)
  BY GrownLines
<1>2. /\ DOMAIN read' = 1 .. n + 1 /\ DOMAIN read = 1 .. n /\ read'[n + 1] = line
      /\ \A i \in 1 .. n : read'[i] = read[i]
  BY <1>1, GrownLines
<1>3. \A i : i \in 1 .. n + 1 <=> (i \in 1 .. n \/ i = n + 1)
  BY <1>1
<1> QED BY <1>2, <1>3 DEF HasHeader

\* Lines that are not active leave the order, and one that is comes last in it.
LEMMA OrderStays ==
  ASSUME NEW line, Grows(line), Active' = Active, facts'.names = facts.names,
         InFileOrder(facts.names)
  PROVE  InFileOrder(facts.names)'
<1>1. \A i \in Active : read'[i] = read[i]
  BY GrownLines DEF Active
<1> QED BY <1>1 DEF InFileOrder, Key

LEMMA OrderGrows ==
  ASSUME NEW line, Grows(line), Active' = Active \cup {Len(read) + 1},
         facts.names \in Seq(Stanzas), facts'.names = Append(facts.names, Key(line)),
         InFileOrder(facts.names)
  PROVE  InFileOrder(facts.names)'
<1>1. PICK n \in Nat : n = Len(read) + 1
  BY GrownLines
<1>2. PICK m \in Nat : m = Len(facts.names)
  OBVIOUS
<1>3. PICK order \in [DOMAIN facts.names -> Active] :
        /\ \A i, j \in DOMAIN facts.names : i < j => order[i] < order[j]
        /\ \A l \in Active : \E i \in DOMAIN facts.names : order[i] = l
        /\ \A i \in DOMAIN facts.names : facts.names[i] = Key(read[order[i]])
  BY DEF InFileOrder
<1>4. /\ DOMAIN facts.names = 1 .. m /\ DOMAIN facts'.names = 1 .. m + 1
      /\ facts'.names[m + 1] = Key(line) /\ \A i \in 1 .. m : facts'.names[i] = facts.names[i]
  BY <1>2
<1>5. /\ \A l \in Active : l \in Int /\ l < n /\ read'[l] = read[l]
      /\ read'[n] = line /\ Active' = Active \cup {n}
  BY <1>1, GrownLines DEF Active
<1> DEFINE next == [i \in 1 .. m + 1 |-> IF i = m + 1 THEN n ELSE order[i]]
<1>6. /\ \A i \in 1 .. m : next[i] = order[i] /\ order[i] \in Active
      /\ next[m + 1] = n
      /\ \A i \in 1 .. m + 1 : i = m + 1 \/ i \in 1 .. m
  BY <1>3, <1>4
<1>7. next \in [DOMAIN facts'.names -> Active']
  BY <1>4, <1>5, <1>6
<1> HIDE DEF next
<1>8. \A i, j \in DOMAIN facts'.names : i < j => next[i] < next[j]
  <2> SUFFICES ASSUME NEW i \in 1 .. m + 1, NEW j \in 1 .. m + 1, i < j
               PROVE  next[i] < next[j]
    BY <1>4
  <2>1. i \in 1 .. m
    OBVIOUS
  <2>2. CASE j = m + 1
    BY <1>5, <1>6, <2>1, <2>2
  <2>3. CASE j \in 1 .. m
    BY <1>3, <1>4, <1>6, <2>1, <2>3
  <2> QED BY <1>6, <2>2, <2>3
<1>9. \A l \in Active' : \E i \in DOMAIN facts'.names : next[i] = l
  <2>1. ASSUME NEW l \in Active PROVE \E i \in 1 .. m + 1 : next[i] = l
    <3>1. PICK i \in 1 .. m : order[i] = l
      BY <1>3, <1>4
    <3> QED BY <1>6, <3>1
  <2>2. \E i \in 1 .. m + 1 : next[i] = n
    BY <1>6
  <2> QED BY <1>4, <1>5, <2>1, <2>2
<1>10. \A i \in DOMAIN facts'.names : facts'.names[i] = Lower[read'[next[i]].name]
  <2> SUFFICES ASSUME NEW i \in 1 .. m + 1 PROVE facts'.names[i] = Lower[read'[next[i]].name]
    BY <1>4
  <2>1. CASE i = m + 1
    BY <1>4, <1>5, <1>6, <2>1 DEF Key
  <2>2. CASE i \in 1 .. m
    <3>1. facts'.names[i] = facts.names[i] /\ facts.names[i] = Key(read[order[i]])
      BY <1>3, <1>4, <2>2
    <3>2. read'[next[i]] = read[order[i]]
      BY <1>5, <1>6, <2>2
    <3> QED BY <3>1, <3>2 DEF Key
  <2> QED BY <1>6, <2>1, <2>2
<1> QED BY <1>7, <1>8, <1>9, <1>10 DEF InFileOrder, Key

\* The text of the first line of [node_size].
FirstText == IF In("node_size") = {} THEN Empty ELSE Text(read[Min(In("node_size"))])

LEMMA FirstTextGrows ==
  ASSUME NEW line, Grows(line)
  PROVE  /\ In("node_size")' = In("node_size") => FirstText' = FirstText
         /\ In("node_size")' = In("node_size") \cup {Len(read) + 1} =>
              FirstText' = IF FirstText = Empty THEN Text(line) ELSE FirstText
<1> DEFINE in == In("node_size")
<1>1. PICK n \in Nat : n = Len(read)
  BY GrownLines
<1>2. /\ in \in SUBSET (1 .. n) /\ read'[n + 1] = line
      /\ \A i \in 1 .. n : read'[i] = read[i]
  BY <1>1, GrownLines DEF In
<1>3. in # {} => Min(in) \in 1 .. n
  <2>1. in \in SUBSET Nat
    BY <1>2
  <2> HIDE DEF in
  <2> QED BY <1>2, <2>1, MinIsLeast
<1>4. in # {} => read'[Min(in)] = read[Min(in)]
  BY <1>2, <1>3
<1>5. \A l : Text(l) # Empty
  BY DEF Text, Empty
<1>6. FirstText = IF in = {} THEN Empty ELSE Text(read[Min(in)])
  BY DEF FirstText
<1>7. FirstText' = IF in' = {} THEN Empty ELSE Text(read'[Min(in')])
  BY DEF FirstText
<1>8. Min(in \cup {n + 1}) = IF in = {} THEN n + 1 ELSE Min(in)
  <2> HIDE DEF in
  <2> QED BY <1>1, <1>2, ExtremesOfOneMore
<1>9. ASSUME in' = in PROVE FirstText' = FirstText
  <2> HIDE DEF in
  <2> QED BY <1>4, <1>6, <1>7, <1>9
<1>10. ASSUME in' = in \cup {n + 1}
       PROVE  FirstText' = IF FirstText = Empty THEN Text(line) ELSE FirstText
  <2>1. FirstText' = Text(read'[Min(in \cup {n + 1})])
    <3> HIDE DEF in
    <3> QED BY <1>7, <1>10
  <2>2. FirstText = Empty <=> in = {}
    BY <1>5, <1>6
  <2> HIDE DEF in
  <2> QED BY <1>2, <1>4, <1>6, <1>8, <2>1, <2>2
<1> QED BY <1>1, <1>9, <1>10

-----------------------------------------------------------------------------
(* The steps of Parse                                                      *)

\* The sections that have a meaning of their own are sections.
LEMMA KnownSections ==
  /\ {"server", "node_size", "node_db", "port_grpc", "validator_token", "validation_seed"}
       \subseteq Sections
  /\ "" \in Reserved /\ \A n \in Stanzas : n \notin Reserved => n \in Sections
<1>1. DOMAIN Credentials = {"validator_token", "validation_seed"}
  BY DEF Credentials
<1> QED BY <1>1 DEF Sections, Reserved

LEMMA LineTyped ==
  ASSUME NEW line \in Lines
  PROVE  /\ line.name \in Spellings /\ line.value \in Seq(Spellings)
         /\ line.kind \in {"blank", "header", "malformed", "pair", "bare"}
         /\ Key(line) \in Spellings
         /\ line.kind \in {"header", "bare"} => Key(line) \in Stanzas
<1>1. /\ line.name \in Spellings /\ line.value \in Seq(Spellings)
      /\ line.kind \in {"blank", "header", "malformed", "pair", "bare"}
  BY LinesAssumption
<1>2. Key(line) \in Spellings
  BY <1>1, LowerAssumption DEF Key, Names, Spellings
<1>3. line.kind \in {"header", "bare"} => Key(line) \in Stanzas
  BY DEF Stanzas, Key
<1> QED BY <1>1, <1>2, <1>3

LEMMA ApplyTyped ==
  ASSUME NEW keys, NEW settings \in Settings(keys), NEW line \in Lines
  PROVE  Apply(settings, line) \in Settings(keys)
BY LineTyped DEF Apply, Settings

LEMMA TextTyped == \A line \in Lines : Text(line) \in Seq(Spellings \cup {"="})
<1> TAKE line \in Lines
<1> DEFINE S == Spellings \cup {"="}
<1>1. line.name \in S /\ "=" \in S /\ line.value \in Seq(S)
  BY LineTyped
<1> HIDE DEF S
<1>2. <<line.name, "=">> \in Seq(S) /\ <<line.name>> \in Seq(S)
  BY <1>1
<1>3. <<line.name, "=">> \o line.value \in Seq(S)
  BY <1>1, <1>2
<1> QED BY <1>2, <1>3 DEF Text, S

\* Before any line nothing is stated.
LEMMA NothingSaid ==
  ASSUME read = << >>
  PROVE  /\ \A s : In(s) = {} /\ ~HasHeader(s)
         /\ \A s, keys : Said(s, keys) = [k \in keys |-> Empty]
         /\ Active = {}
         /\ section \notin Sections => InSection
<1>1. /\ \A s : In(s) = {} /\ ~HasHeader(s)
      /\ Active = {}
  BY DEF In, HasHeader, Active
<1>2. \A s : ~Under(s, Len(read) + 1)
  BY DEF Under
<1>3. \A s, key : Pairs(s, key) = {}
  BY <1>1 DEF Pairs
<1> QED BY <1>1, <1>2, <1>3 DEF Said, InSection

LEMMA NoFactsTyped == NoFacts \in ConfigFacts
<1>1. Empty \in Seq(Spellings) /\ Empty \in Seq(Spellings \cup {"="}) /\ << >> \in Seq(Stanzas)
  BY DEF Empty
<1>2. NoSettings \in Settings(PortKeys) /\ [k \in DBKeys |-> Empty] \in Settings(DBKeys)
  BY <1>1 DEF NoSettings, Settings
<1>3. [n \in Stanzas |-> NoSettings] \in [Stanzas -> Settings(PortKeys)]
  BY <1>2
<1> HIDE DEF Empty, NoSettings
<1> QED BY <1>1, <1>2, <1>3, Zenon DEF NoFacts, ConfigFacts

LEMMA InitIInv == Init => IInv
<1> SUFFICES ASSUME Init PROVE IInv
  OBVIOUS
<1>1. TypeOK
  <2>1. read = << >> /\ section = ""
    BY DEF Init
  <2>2. read \in Seq(Lines)
    BY <2>1, EmptySeq
  <2>3. section \in Stanzas \cup {""}
    BY <2>1, Zenon
  <2> QED BY <2>2, <2>3, NoFactsTyped, Zenon DEF Init, TypeOK
<1>2. ReadSoFar
  BY DEF Init, ReadSoFar
<1> QED BY <1>1, <1>2 DEF IInv

\* A step that reads no line changes nothing that was stated.
LEMMA NothingRead ==
  ASSUME UNCHANGED <<valid, read, section, facts>>
  PROVE  (AsWritten' <=> AsWritten) /\ (InSection' <=> InSection)
<1>1. \A s, i : Under(s, i)' <=> Under(s, i)
  BY DEF Under
<1>2. \A s : In(s)' = In(s) /\ (HasHeader(s)' <=> HasHeader(s))
  BY <1>1 DEF In, HasHeader
<1>3. Active' = Active
  BY <1>1 DEF Active
<1>4. \A s, key : Pairs(s, key)' = Pairs(s, key)
  BY <1>2 DEF Pairs
<1>5. \A s, keys : Said(s, keys)' = Said(s, keys)
  BY <1>4 DEF Said
<1>6. InFileOrder(facts.names)' <=> InFileOrder(facts.names)
  BY <1>3 DEF InFileOrder
<1>7. InSection' <=> InSection
  BY <1>1 DEF InSection
<1>8. FirstText' = FirstText
  BY <1>2 DEF FirstText
<1> QED BY <1>2, <1>5, <1>6, <1>7, <1>8 DEF AsWritten, FirstText

LEMMA CheckEncodingKeepsIInv ==
  ASSUME IInv, CheckEncoding
  PROVE  IInv'
<1>1. /\ UNCHANGED <<valid, read, section, facts>> /\ read = << >> /\ section = ""
      /\ facts = NoFacts
  BY DEF CheckEncoding, IInv, ReadSoFar
<1>2. pc' = IF valid THEN "lines" ELSE "failed"
  BY DEF CheckEncoding
<1>3. TypeOK'
  BY <1>1, <1>2 DEF IInv, TypeOK
<1>4. InSection
  BY <1>1, NothingSaid DEF Sections
<1>5. ASSUME valid PROVE AsWritten
  <2>1. \A s : In(s) = {} /\ ~HasHeader(s)
    BY <1>1, NothingSaid
  <2>2. /\ NoFacts.nodeSize = Empty /\ NoFacts.db = [k \in DBKeys |-> Empty] /\ NoFacts.names = << >>
        /\ NoFacts.defaults = NoSettings /\ NoFacts.ports = [n \in Stanzas |-> NoSettings]
        /\ NoFacts.grpc = NoSettings /\ ~NoFacts.grpcPresent /\ ~NoFacts.token /\ ~NoFacts.seed
    BY DEF NoFacts
  <2>3. \A s : Said(s, DBKeys) = [k \in DBKeys |-> Empty]
    BY <1>1, NothingSaid, Zenon
  <2>4. \A s : Said(s, PortKeys) = NoSettings
    <3> TAKE s
    <3>1. Said(s, PortKeys) = [k \in PortKeys |-> Empty]
      BY <1>1, NothingSaid, Zenon
    <3> QED BY <3>1, Zenon DEF NoSettings
  <2>5. InFileOrder(<< >>)
    <3>1. Active = {}
      BY <1>1, NothingSaid
    <3>2. << >> \in [DOMAIN << >> -> Active]
      BY <3>1
    <3> QED BY <3>1, <3>2 DEF InFileOrder
  <2> HIDE DEF Empty, NoSettings
  <2>6. facts.ports = [n \in Stanzas |-> IF n \in Reserved THEN NoSettings ELSE Said(n, PortKeys)]
    <3>1. facts.ports = [n \in Stanzas |-> NoSettings]
      BY <1>1, <2>2
    <3>2. \A n \in Stanzas : (IF n \in Reserved THEN NoSettings ELSE Said(n, PortKeys)) = NoSettings
      BY <2>4
    <3> QED BY <3>1, <3>2
  <2>7. \A i \in DOMAIN read : read[i].kind # "malformed"
    <3>1. read = << >>
      BY <1>1
    <3> QED BY <3>1
  <2>8. /\ facts.nodeSize = Empty /\ facts.db = [k \in DBKeys |-> Empty] /\ facts.names = << >>
        /\ facts.defaults = NoSettings /\ facts.grpc = NoSettings
        /\ ~facts.grpcPresent /\ ~facts.token /\ ~facts.seed
    BY <1>1, <2>2
  <2> QED BY <1>5, <2>1, <2>3, <2>4, <2>5, <2>6, <2>7, <2>8, Zenon DEF AsWritten
<1>6. ReadSoFar'
  BY <1>1, <1>2, <1>4, <1>5, NothingRead DEF ReadSoFar
<1> QED BY <1>3, <1>6 DEF IInv

\* Every line is read after what was stated so far.
LEMMA LineRead ==
  ASSUME IInv, NEW line \in Lines, Consume(line)
  PROVE  /\ Grows(line) /\ read' \in Seq(Lines) /\ valid' = valid /\ pc = "lines"
         /\ AsWritten /\ InSection /\ facts \in ConfigFacts /\ section \in Stanzas \cup {""}
         /\ line.kind # "malformed" => \A i \in DOMAIN read' : read'[i].kind # "malformed"
<1>1. /\ Grows(line) /\ valid' = valid /\ pc = "lines" /\ AsWritten /\ InSection
      /\ facts \in ConfigFacts /\ section \in Stanzas \cup {""}
  <2>1. valid' = valid /\ pc = "lines" /\ read' = Append(read, line)
    BY DEF Consume
  <2>2. read \in Seq(Lines) /\ facts \in ConfigFacts /\ section \in Stanzas \cup {""}
    BY DEF IInv, TypeOK
  <2>3. AsWritten /\ InSection
    BY <2>1 DEF IInv, ReadSoFar
  <2> QED BY <2>1, <2>2, <2>3, Zenon DEF Grows
<1>2. read' \in Seq(Lines)
  BY <1>1, AppendProperties DEF Grows
<1>3. \A i \in DOMAIN read' : (i \in DOMAIN read /\ read'[i] = read[i]) \/ read'[i] = line
  <2>1. PICK n \in Nat : n = Len(read)
    BY <1>1, GrownLines
  <2>2. \A i \in 1 .. n + 1 : i \in 1 .. n \/ i = n + 1
    BY <2>1
  <2> QED BY <1>1, <2>1, <2>2, GrownLines
<1>4. \A i \in DOMAIN read : read[i].kind # "malformed"
  BY <1>1 DEF AsWritten
<1> QED BY <1>1, <1>2, <1>3, <1>4

\* The settings of the sections that are not reserved.
PortsSaid == [n \in Stanzas |-> IF n \in Reserved THEN NoSettings ELSE Said(n, PortKeys)]

\* A line of content adds to what its own section states, and to no other.
LEMMA ContentRead ==
  ASSUME IInv, NEW line \in Lines, Consume(line), IsContent(line), section' = section,
         section # ""
  PROVE  /\ InSection' /\ (HasHeader("port_grpc")' <=> HasHeader("port_grpc"))
         /\ \A s \in Sections : In(s)' = IF s = section THEN In(s) \cup {Len(read) + 1} ELSE In(s)
         /\ \A s \in Sections : \A keys :
              Said(s, keys)' = IF s = section THEN Apply(Said(s, keys), line) ELSE Said(s, keys)
         /\ Active' = IF section = "server" /\ line.kind = "bare"
                      THEN Active \cup {Len(read) + 1} ELSE Active
<1>1. /\ Grows(line) /\ InSection /\ section \in Stanzas \cup {""}
      /\ line.kind # "header"
  BY LineRead DEF IsContent
<1>2. \A s \in Sections : Under(s, Len(read) + 1) <=> section = s
  BY <1>1 DEF InSection
<1>3. "server" \in Sections
  BY KnownSections
<1>4. InSection'
  <2>1. \A s \in Sections : Under(s, Len(read) + 1)' <=> Under(s, Len(read) + 1)
    BY <1>1, UnderNext
  <2> QED BY <1>2, <2>1 DEF InSection
<1>5. HasHeader("port_grpc")' <=> HasHeader("port_grpc")
  BY <1>1, HeaderGrows
<1>6. \A s \in Sections : In(s)' = IF s = section THEN In(s) \cup {Len(read) + 1} ELSE In(s)
  BY <1>1, <1>2, InGrows
<1>7. \A s \in Sections : \A keys :
        Said(s, keys)' = IF s = section THEN Apply(Said(s, keys), line) ELSE Said(s, keys)
  BY <1>1, <1>2, SaidGrows
<1>8. Active' = IF section = "server" /\ line.kind = "bare"
                THEN Active \cup {Len(read) + 1} ELSE Active
  BY <1>1, <1>2, <1>3, ActiveGrows
<1> QED BY <1>4, <1>5, <1>6, <1>7, <1>8

\* The same for each of the facts.
LEMMA FactsStated ==
  ASSUME IInv, NEW line \in Lines, Consume(line), IsContent(line), section' = section,
         section # ""
  PROVE  /\ FirstText' = IF section = "node_size" /\ FirstText = Empty THEN Text(line) ELSE FirstText
         /\ Said("node_db", DBKeys)' =
              IF section = "node_db" THEN Apply(Said("node_db", DBKeys), line)
              ELSE Said("node_db", DBKeys)
         /\ Said("server", PortKeys)' =
              IF section = "server" THEN Apply(Said("server", PortKeys), line)
              ELSE Said("server", PortKeys)
         /\ Said("port_grpc", PortKeys)' =
              IF section = "port_grpc" THEN Apply(Said("port_grpc", PortKeys), line)
              ELSE Said("port_grpc", PortKeys)
         /\ PortsSaid' = IF section \in Reserved THEN PortsSaid
                         ELSE [PortsSaid EXCEPT ![section] = Apply(@, line)]
         /\ In("validator_token")' # {} <=> (section = "validator_token" \/ In("validator_token") # {})
         /\ In("validation_seed")' # {} <=> (section = "validation_seed" \/ In("validation_seed") # {})
<1>1. Grows(line) /\ section \in Stanzas \cup {""}
  BY LineRead
<1>2. /\ \A s \in Sections : In(s)' = IF s = section THEN In(s) \cup {Len(read) + 1} ELSE In(s)
      /\ \A s \in Sections : \A keys :
           Said(s, keys)' = IF s = section THEN Apply(Said(s, keys), line) ELSE Said(s, keys)
  BY ContentRead
<1>3. /\ "server" \in Sections /\ "node_size" \in Sections /\ "node_db" \in Sections
      /\ "port_grpc" \in Sections /\ "validator_token" \in Sections
      /\ "validation_seed" \in Sections
  BY KnownSections
<1>4. FirstText' = IF section = "node_size" /\ FirstText = Empty THEN Text(line) ELSE FirstText
  BY <1>1, <1>2, <1>3, FirstTextGrows
<1>5. PortsSaid' = IF section \in Reserved THEN PortsSaid
                   ELSE [PortsSaid EXCEPT ![section] = Apply(@, line)]
  <2>1. \A n \in Stanzas : n \notin Reserved =>
          Said(n, PortKeys)' = IF n = section THEN Apply(Said(n, PortKeys), line) ELSE Said(n, PortKeys)
    BY <1>2, KnownSections
  <2> DEFINE said == [n \in Stanzas |-> Said(n, PortKeys)]
             next == [n \in Stanzas |-> Said(n, PortKeys)']
  <2>2. PortsSaid = [n \in Stanzas |-> IF n \in Reserved THEN NoSettings ELSE said[n]]
    BY DEF PortsSaid
  <2>3. PortsSaid' = [n \in Stanzas |-> IF n \in Reserved THEN NoSettings ELSE next[n]]
    BY DEF PortsSaid
  <2>4. \A n \in Stanzas : n \notin Reserved =>
          next[n] = IF n = section THEN Apply(said[n], line) ELSE said[n]
    BY <2>1
  <2> HIDE DEF said, next
  <2>5. CASE section \in Reserved
    <3>1. \A n \in Stanzas : n \notin Reserved => next[n] = said[n]
      BY <2>4, <2>5
    <3>2. PortsSaid' = PortsSaid
      BY <2>2, <2>3, <3>1
    <3> QED BY <2>5, <3>2
  <2>6. CASE section \notin Reserved
    <3>1. section \in Stanzas
      BY <1>1, <2>6, KnownSections
    <3>2. PortsSaid' = [PortsSaid EXCEPT ![section] = Apply(@, line)]
      BY <2>2, <2>3, <2>4, <2>6, <3>1
    <3> QED BY <2>6, <3>2
  <2> QED BY <2>5, <2>6
<1>6. /\ In("validator_token")' # {} <=> (section = "validator_token" \/ In("validator_token") # {})
      /\ In("validation_seed")' # {} <=> (section = "validation_seed" \/ In("validation_seed") # {})
  BY <1>2, <1>3
<1> QED BY <1>2, <1>3, <1>4, <1>5, <1>6

\* A line changes the facts alike in the program and in the file.
LEMMA FieldsAsWritten ==
  ASSUME IInv, NEW line \in Lines, Consume(line), line.kind # "malformed",
         facts'.nodeSize = FirstText', facts'.db = Said("node_db", DBKeys)',
         facts'.defaults = Said("server", PortKeys)', InFileOrder(facts.names)',
         facts'.ports = PortsSaid', facts'.grpc = Said("port_grpc", PortKeys)',
         facts'.grpcPresent <=> HasHeader("port_grpc")',
         facts'.token <=> In("validator_token")' # {},
         facts'.seed <=> In("validation_seed")' # {}
  PROVE  AsWritten'
<1>1. valid /\ valid' /\ \A i \in DOMAIN read' : read'[i].kind # "malformed"
  BY LineRead DEF AsWritten
<1> QED BY <1>1, Zenon DEF AsWritten, FirstText, PortsSaid

\* What is known of the facts before the line.
LEMMA FieldsWere ==
  ASSUME AsWritten
  PROVE  /\ facts.nodeSize = FirstText /\ facts.db = Said("node_db", DBKeys)
         /\ facts.defaults = Said("server", PortKeys) /\ InFileOrder(facts.names)
         /\ facts.ports = PortsSaid /\ facts.grpc = Said("port_grpc", PortKeys)
         /\ (facts.grpcPresent <=> HasHeader("port_grpc"))
         /\ (facts.token <=> In("validator_token") # {})
         /\ (facts.seed <=> In("validation_seed") # {})
BY Zenon DEF AsWritten, FirstText, PortsSaid

\* A line that leaves the state well formed and the facts as written keeps all.
LEMMA LineKeepsIInv ==
  ASSUME IInv, NEW line \in Lines, Consume(line), pc' = "lines", facts' \in ConfigFacts,
         section' \in Stanzas \cup {""}, AsWritten', InSection'
  PROVE  IInv'
<1>1. read' \in Seq(Lines) /\ valid' \in BOOLEAN
  BY LineRead, Zenon DEF IInv, TypeOK
<1>2. TypeOK'
  BY <1>1 DEF TypeOK
<1>3. ReadSoFar'
  BY DEF ReadSoFar
<1> QED BY <1>2, <1>3 DEF IInv

LEMMA SkippedKeepsIInv ==
  ASSUME IInv, NEW line \in Lines, Skipped(line)
  PROVE  IInv'
<1>1. /\ Consume(line) /\ UNCHANGED <<pc, section, facts>>
      /\ (line.kind = "blank" \/ (IsContent(line) /\ section = ""))
  BY DEF Skipped
<1>2. /\ Grows(line) /\ AsWritten /\ InSection /\ pc = "lines"
      /\ facts \in ConfigFacts /\ section \in Stanzas \cup {""}
  BY <1>1, LineRead
<1>3. line.kind \notin {"header", "malformed"}
  BY <1>1 DEF IsContent
<1>4. \A s \in Sections : ~(IsContent(line) /\ Under(s, Len(read) + 1))
  BY <1>1, <1>2 DEF InSection, IsContent, Sections
<1>5. /\ \A s \in Sections : In(s)' = In(s)
      /\ \A s \in Sections : \A keys : Said(s, keys)' = Said(s, keys)
  BY <1>2, <1>4, InGrows, SaidGrows
<1>6. InSection'
  BY <1>1, <1>2, <1>3, UnderNext DEF InSection
<1>7. AsWritten'
  <2>1. Active' = Active
    BY <1>2, <1>4, KnownSections, ActiveGrows DEF IsContent
  <2>2. InFileOrder(facts.names)'
    BY <1>1, <1>2, <2>1, FieldsWere, OrderStays
  <2>3. PortsSaid' = PortsSaid
    BY <1>5, KnownSections DEF PortsSaid
  <2>4. HasHeader("port_grpc")' <=> HasHeader("port_grpc")
    BY <1>2, <1>3, HeaderGrows
  <2>5. FirstText' = FirstText
    BY <1>2, <1>5, KnownSections, FirstTextGrows
  <2>6. /\ Said("node_db", DBKeys)' = Said("node_db", DBKeys)
        /\ Said("server", PortKeys)' = Said("server", PortKeys)
        /\ Said("port_grpc", PortKeys)' = Said("port_grpc", PortKeys)
        /\ In("validator_token")' = In("validator_token")
        /\ In("validation_seed")' = In("validation_seed")
    BY <1>5, KnownSections
  <2> QED BY <1>1, <1>2, <1>3, <2>2, <2>3, <2>4, <2>5, <2>6, FieldsWere, FieldsAsWritten
<1> QED BY <1>1, <1>2, <1>6, <1>7, LineKeepsIInv

LEMMA HeaderKeepsIInv ==
  ASSUME IInv, NEW line \in Lines, Header(line)
  PROVE  IInv'
<1>1. /\ Consume(line) /\ pc' = pc /\ line.kind = "header" /\ section' = Lower[line.name]
      /\ facts' = [facts EXCEPT !.grpcPresent = @ \/ section' = "port_grpc"]
  BY DEF Header
<1>2. /\ Grows(line) /\ AsWritten /\ InSection /\ pc = "lines" /\ facts \in ConfigFacts
  BY <1>1, LineRead
<1>3. section' \in Stanzas
  BY <1>1, LineTyped DEF Key
<1>4. /\ facts' \in ConfigFacts /\ (facts'.grpcPresent <=> facts.grpcPresent \/ section' = "port_grpc")
      /\ facts'.nodeSize = facts.nodeSize /\ facts'.db = facts.db /\ facts'.names = facts.names
      /\ facts'.defaults = facts.defaults /\ facts'.ports = facts.ports /\ facts'.grpc = facts.grpc
      /\ facts'.token = facts.token /\ facts'.seed = facts.seed
  BY <1>1, <1>2 DEF ConfigFacts
<1>5. InSection'
  BY <1>1, <1>2, UnderNext DEF InSection
<1>6. /\ \A s : In(s)' = In(s)
      /\ \A s, keys : Said(s, keys)' = Said(s, keys)
  BY <1>1, <1>2, InGrows, SaidGrows DEF IsContent
<1>7. AsWritten'
  <2>1. Active' = Active
    BY <1>1, <1>2, ActiveGrows
  <2>2. InFileOrder(facts.names)'
    BY <1>2, <1>4, <2>1, FieldsWere, OrderStays
  <2>3. PortsSaid' = PortsSaid
    BY <1>6 DEF PortsSaid
  <2>4. HasHeader("port_grpc")' <=> HasHeader("port_grpc") \/ section' = "port_grpc"
    BY <1>1, <1>2, HeaderGrows
  <2>5. FirstText' = FirstText
    BY <1>2, <1>6, FirstTextGrows
  <2> QED BY <1>1, <1>2, <1>4, <1>6, <2>2, <2>3, <2>4, <2>5, FieldsWere, FieldsAsWritten
<1> QED BY <1>1, <1>2, <1>3, <1>4, <1>5, <1>7, LineKeepsIInv

LEMMA MalformedKeepsIInv ==
  ASSUME IInv, NEW line \in Lines, Malformed(line)
  PROVE  IInv'
<1>1. /\ Consume(line) /\ pc' = "failed" /\ line.kind = "malformed" /\ section' = section
      /\ facts' = NoFacts
  BY DEF Malformed
<1>2. /\ Grows(line) /\ read' \in Seq(Lines) /\ valid' = valid /\ section \in Stanzas \cup {""}
  BY <1>1, LineRead
<1>3. read' # << >> /\ Last(read') = line
  <2>1. read' # << >>
    <3>1. Grows(line)
      BY <1>2
    <3>2. Len(read') = Len(read) + 1 /\ Len(read) \in Nat
      BY <3>1, GrownLines
    <3>3. Len(read') # 0
      BY <3>2
    <3> QED BY <3>3
  <2>2. read'[Len(read')] = line
    BY <1>2, GrownLines
  <2> QED BY <2>1, <2>2 DEF Last
<1>4. TypeOK'
  <2>1. valid' \in BOOLEAN
    BY <1>2, Zenon DEF IInv, TypeOK
  <2> QED BY <1>1, <1>2, <2>1, NoFactsTyped DEF TypeOK
<1>5. ReadSoFar'
  BY <1>1, <1>3 DEF ReadSoFar
<1> QED BY <1>4, <1>5 DEF IInv

LEMMA ServerLineKeepsIInv ==
  ASSUME IInv, NEW line \in Lines, ServerLine(line)
  PROVE  IInv'
<1>1. /\ Consume(line) /\ IsContent(line) /\ UNCHANGED <<pc, section>> /\ section = "server"
      /\ facts' = IF line.kind = "pair" THEN [facts EXCEPT !.defaults = Apply(@, line)]
                  ELSE [facts EXCEPT !.names = Append(@, Key(line))]
  BY DEF ServerLine, Content
<1>2. /\ Grows(line) /\ AsWritten /\ InSection /\ pc = "lines" /\ facts \in ConfigFacts
  BY <1>1, LineRead
<1>3. line.kind \in {"pair", "bare"}
  BY <1>1 DEF IsContent
<1>4. /\ Apply(facts.defaults, line) \in Settings(PortKeys)
      /\ line.kind = "bare" => Key(line) \in Stanzas
      /\ line.kind = "bare" => Append(facts.names, Key(line)) \in Seq(Stanzas)
      /\ facts.names \in Seq(Stanzas)
  <2>1. facts.names \in Seq(Stanzas) /\ facts.defaults \in Settings(PortKeys)
    BY <1>2 DEF ConfigFacts
  <2> QED BY <2>1, ApplyTyped, LineTyped, AppendProperties
<1>5. /\ facts' \in ConfigFacts
      /\ facts'.nodeSize = facts.nodeSize /\ facts'.db = facts.db
      /\ facts'.defaults = IF line.kind = "pair" THEN Apply(facts.defaults, line) ELSE facts.defaults
      /\ facts'.names = IF line.kind = "bare" THEN Append(facts.names, Key(line)) ELSE facts.names
      /\ facts'.ports = facts.ports /\ facts'.grpc = facts.grpc
      /\ facts'.grpcPresent = facts.grpcPresent /\ facts'.token = facts.token /\ facts'.seed = facts.seed
  <2>1. CASE line.kind = "pair"
    BY <1>1, <1>2, <1>4, <2>1 DEF ConfigFacts
  <2>2. CASE line.kind = "bare"
    BY <1>1, <1>2, <1>4, <2>2 DEF ConfigFacts
  <2> QED BY <1>3, <2>1, <2>2
<1>6. AsWritten' /\ InSection'
  <2>1. InFileOrder(facts.names)'
    BY <1>1, <1>2, <1>3, <1>4, <1>5, ContentRead, FieldsWere, OrderStays, OrderGrows
  <2>2. facts'.defaults = Said("server", PortKeys)'
    <3>1. line.kind # "pair" => Apply(facts.defaults, line) = facts.defaults
      BY DEF Apply
    <3> QED BY <1>1, <1>2, <1>5, <3>1, FactsStated, FieldsWere
  <2>3. section \in Reserved
    BY <1>1 DEF Reserved
  <2> QED BY <1>1, <1>2, <1>3, <1>5, <2>1, <2>2, <2>3, ContentRead, FactsStated, FieldsWere, FieldsAsWritten
<1> QED BY <1>1, <1>2, <1>5, <1>6, LineKeepsIInv, LineRead

LEMMA NodeSizeLineKeepsIInv ==
  ASSUME IInv, NEW line \in Lines, NodeSizeLine(line)
  PROVE  IInv'
<1>1. /\ Consume(line) /\ IsContent(line) /\ UNCHANGED <<pc, section>> /\ section = "node_size"
      /\ facts' = [facts EXCEPT !.nodeSize = IF @ = Empty THEN Text(line) ELSE @]
  BY DEF NodeSizeLine, Content
<1>2. /\ Grows(line) /\ AsWritten /\ InSection /\ pc = "lines" /\ facts \in ConfigFacts
  BY <1>1, LineRead
<1>3. line.kind \in {"pair", "bare"} /\ section \in Reserved
  BY <1>1 DEF IsContent, Reserved
<1>4. /\ facts' \in ConfigFacts
      /\ facts'.nodeSize = IF facts.nodeSize = Empty THEN Text(line) ELSE facts.nodeSize
      /\ facts'.db = facts.db /\ facts'.defaults = facts.defaults /\ facts'.names = facts.names
      /\ facts'.ports = facts.ports /\ facts'.grpc = facts.grpc
      /\ facts'.grpcPresent = facts.grpcPresent /\ facts'.token = facts.token /\ facts'.seed = facts.seed
  BY <1>1, <1>2, TextTyped DEF ConfigFacts
<1>5. InFileOrder(facts.names)'
  BY <1>1, <1>2, <1>4, ContentRead, FieldsWere, OrderStays
<1>6. AsWritten'
  BY <1>1, <1>2, <1>3, <1>4, <1>5, ContentRead, FactsStated, FieldsWere, FieldsAsWritten
<1>7. InSection'
  BY <1>1, ContentRead
<1> QED BY <1>1, <1>2, <1>4, <1>6, <1>7, LineKeepsIInv, LineRead

LEMMA NodeDBLineKeepsIInv ==
  ASSUME IInv, NEW line \in Lines, NodeDBLine(line)
  PROVE  IInv'
<1>1. /\ Consume(line) /\ IsContent(line) /\ UNCHANGED <<pc, section>> /\ section = "node_db"
      /\ facts' = [facts EXCEPT !.db = Apply(@, line)]
  BY DEF NodeDBLine, Content
<1>2. /\ Grows(line) /\ AsWritten /\ InSection /\ pc = "lines" /\ facts \in ConfigFacts
  BY <1>1, LineRead
<1>3. line.kind \in {"pair", "bare"} /\ section \in Reserved
  BY <1>1 DEF IsContent, Reserved
<1>4. Apply(facts.db, line) \in Settings(DBKeys)
  BY <1>2, ApplyTyped DEF ConfigFacts
<1>5. /\ facts' \in ConfigFacts
      /\ facts'.nodeSize = facts.nodeSize /\ facts'.db = Apply(facts.db, line)
      /\ facts'.defaults = facts.defaults /\ facts'.names = facts.names
      /\ facts'.ports = facts.ports /\ facts'.grpc = facts.grpc
      /\ facts'.grpcPresent = facts.grpcPresent /\ facts'.token = facts.token /\ facts'.seed = facts.seed
  BY <1>1, <1>2, <1>4 DEF ConfigFacts
<1>6. InFileOrder(facts.names)'
  BY <1>1, <1>2, <1>5, ContentRead, FieldsWere, OrderStays
<1>7. AsWritten'
  BY <1>1, <1>2, <1>3, <1>5, <1>6, ContentRead, FactsStated, FieldsWere, FieldsAsWritten
<1>8. InSection'
  BY <1>1, ContentRead
<1> QED BY <1>1, <1>2, <1>5, <1>7, <1>8, LineKeepsIInv, LineRead

LEMMA GRPCLineKeepsIInv ==
  ASSUME IInv, NEW line \in Lines, GRPCLine(line)
  PROVE  IInv'
<1>1. /\ Consume(line) /\ IsContent(line) /\ UNCHANGED <<pc, section>> /\ section = "port_grpc"
      /\ facts' = [facts EXCEPT !.grpc = Apply(@, line)]
  BY DEF GRPCLine, Content
<1>2. /\ Grows(line) /\ AsWritten /\ InSection /\ pc = "lines" /\ facts \in ConfigFacts
  BY <1>1, LineRead
<1>3. line.kind \in {"pair", "bare"} /\ section \in Reserved
  BY <1>1 DEF IsContent, Reserved
<1>4. Apply(facts.grpc, line) \in Settings(PortKeys)
  BY <1>2, ApplyTyped DEF ConfigFacts
<1>5. /\ facts' \in ConfigFacts
      /\ facts'.nodeSize = facts.nodeSize /\ facts'.db = facts.db
      /\ facts'.defaults = facts.defaults /\ facts'.names = facts.names
      /\ facts'.ports = facts.ports /\ facts'.grpc = Apply(facts.grpc, line)
      /\ facts'.grpcPresent = facts.grpcPresent /\ facts'.token = facts.token /\ facts'.seed = facts.seed
  BY <1>1, <1>2, <1>4 DEF ConfigFacts
<1>6. InFileOrder(facts.names)'
  BY <1>1, <1>2, <1>5, ContentRead, FieldsWere, OrderStays
<1>7. AsWritten'
  BY <1>1, <1>2, <1>3, <1>5, <1>6, ContentRead, FactsStated, FieldsWere, FieldsAsWritten
<1>8. InSection'
  BY <1>1, ContentRead
<1> QED BY <1>1, <1>2, <1>5, <1>7, <1>8, LineKeepsIInv, LineRead

LEMMA PortLineKeepsIInv ==
  ASSUME IInv, NEW line \in Lines, PortLine(line)
  PROVE  IInv'
<1>1. /\ Consume(line) /\ IsContent(line) /\ UNCHANGED <<pc, section>> /\ section \notin Reserved
      /\ facts' = [facts EXCEPT !.ports[section] = Apply(@, line)]
  BY DEF PortLine, Content
<1>2. /\ Grows(line) /\ AsWritten /\ InSection /\ pc = "lines" /\ facts \in ConfigFacts
      /\ section \in Stanzas \cup {""}
  BY <1>1, LineRead
<1>3. /\ line.kind \in {"pair", "bare"} /\ section \in Stanzas
      /\ section \notin {"", "server", "node_size", "node_db", "port_grpc",
                         "validator_token", "validation_seed"}
  <2>1. DOMAIN Credentials = {"validator_token", "validation_seed"}
    BY DEF Credentials
  <2> QED BY <1>1, <1>2, <2>1 DEF IsContent, Reserved
<1>4. Apply(facts.ports[section], line) \in Settings(PortKeys)
  <2>1. facts.ports[section] \in Settings(PortKeys)
    BY <1>2, <1>3 DEF ConfigFacts
  <2> QED BY <2>1, ApplyTyped
<1>5. /\ facts' \in ConfigFacts
      /\ facts'.nodeSize = facts.nodeSize /\ facts'.db = facts.db
      /\ facts'.defaults = facts.defaults /\ facts'.names = facts.names
      /\ facts'.ports = [facts.ports EXCEPT ![section] = Apply(@, line)] /\ facts'.grpc = facts.grpc
      /\ facts'.grpcPresent = facts.grpcPresent /\ facts'.token = facts.token /\ facts'.seed = facts.seed
  BY <1>1, <1>2, <1>3, <1>4 DEF ConfigFacts
<1>6. InFileOrder(facts.names)'
  BY <1>1, <1>2, <1>3, <1>5, ContentRead, FieldsWere, OrderStays
<1>7. AsWritten'
  BY <1>1, <1>2, <1>3, <1>5, <1>6, ContentRead, FactsStated, FieldsWere, FieldsAsWritten
<1>8. InSection'
  BY <1>1, <1>3, ContentRead
<1> QED BY <1>1, <1>2, <1>5, <1>7, <1>8, LineKeepsIInv, LineRead

LEMMA CredentialLineKeepsIInv ==
  ASSUME IInv, NEW line \in Lines, CredentialLine(line)
  PROVE  IInv'
<1>1. /\ Consume(line) /\ IsContent(line) /\ UNCHANGED <<pc, section>>
      /\ section \in {"validator_token", "validation_seed"}
      /\ section \in Reserved
      /\ facts' = IF section = "validator_token" THEN [facts EXCEPT !.token = TRUE]
                  ELSE [facts EXCEPT !.seed = TRUE]
  <2>1. DOMAIN Credentials = {"validator_token", "validation_seed"}
    BY DEF Credentials
  <2>2. Credentials["validator_token"] = "token" /\ Credentials["validation_seed"] = "seed"
    BY DEF Credentials
  <2>3. /\ Consume(line) /\ IsContent(line) /\ UNCHANGED <<pc, section>>
        /\ section \in DOMAIN Credentials
        /\ facts' = [facts EXCEPT ![Credentials[section]] = TRUE]
    BY DEF CredentialLine, Content
  <2>4. section \in Reserved
    BY <2>3 DEF Reserved
  <2>5. CASE section = "validator_token"
    BY <2>2, <2>3, <2>4, <2>5
  <2>6. CASE section = "validation_seed"
    BY <2>2, <2>3, <2>4, <2>6
  <2> QED BY <2>1, <2>3, <2>5, <2>6
<1>2. /\ Grows(line) /\ AsWritten /\ InSection /\ pc = "lines" /\ facts \in ConfigFacts
      /\ section \in Stanzas \cup {""}
  BY <1>1, LineRead
<1>3. line.kind \in {"pair", "bare"}
  BY <1>1 DEF IsContent
<1>4. /\ facts' \in ConfigFacts
      /\ facts'.nodeSize = facts.nodeSize /\ facts'.db = facts.db
      /\ facts'.defaults = facts.defaults /\ facts'.names = facts.names
      /\ facts'.ports = facts.ports /\ facts'.grpc = facts.grpc
      /\ facts'.grpcPresent = facts.grpcPresent
      /\ (facts'.token <=> section = "validator_token" \/ facts.token)
      /\ (facts'.seed <=> section = "validation_seed" \/ facts.seed)
  <2>1. CASE section = "validator_token"
    BY <1>1, <1>2, <2>1 DEF ConfigFacts
  <2>2. CASE section = "validation_seed"
    BY <1>1, <1>2, <2>2 DEF ConfigFacts
  <2> QED BY <1>1, <2>1, <2>2
<1>5. InFileOrder(facts.names)'
  BY <1>1, <1>2, <1>4, ContentRead, FieldsWere, OrderStays
<1>6. AsWritten'
  BY <1>1, <1>2, <1>3, <1>4, <1>5, ContentRead, FactsStated, FieldsWere, FieldsAsWritten
<1>7. InSection'
  BY <1>1, ContentRead
<1> QED BY <1>1, <1>2, <1>4, <1>6, <1>7, LineKeepsIInv

-----------------------------------------------------------------------------
(* The theorems about the facts                                            *)

\* The parts of the inductive invariant hold throughout.
THEOREM Invariance == Spec => []IInv
<1>1. IInv /\ [Next]_vars => IInv'
  <2> SUFFICES ASSUME IInv, [Next]_vars PROVE IInv'
    OBVIOUS
  <2>1. CASE CheckEncoding
    BY <2>1, CheckEncodingKeepsIInv
  <2>2. ASSUME UNCHANGED <<valid, read, section, facts>>, pc' = pc \/ (pc = "lines" /\ pc' = "parsed")
        PROVE  IInv'
    <3>1. TypeOK'
      BY <2>2 DEF IInv, TypeOK
    <3>2. ReadSoFar'
      BY <2>2, NothingRead DEF IInv, ReadSoFar
    <3> QED BY <3>1, <3>2 DEF IInv
  <2>3. CASE EndOfFile \/ UNCHANGED vars
    <3>1. UNCHANGED <<valid, read, section, facts>>
      BY <2>3 DEF EndOfFile, vars
    <3>2. pc' = pc \/ (pc = "lines" /\ pc' = "parsed")
      BY <2>3 DEF EndOfFile, vars
    <3> QED BY <3>1, <3>2, <2>2
  <2>4. ASSUME NEW line \in Lines, Line(line) PROVE IInv'
    BY <2>4, SkippedKeepsIInv, HeaderKeepsIInv, MalformedKeepsIInv, ServerLineKeepsIInv,
       NodeSizeLineKeepsIInv, NodeDBLineKeepsIInv, CredentialLineKeepsIInv, GRPCLineKeepsIInv,
       PortLineKeepsIInv DEF Line
  <2> QED BY <2>1, <2>3, <2>4 DEF Next
<1> QED BY InitIInv, <1>1, PTL DEF Spec

\* Each variable holds a value the code can give it; names are folded.
THEOREM TypeCorrect == Spec => []TypeOK
<1>1. IInv => TypeOK
  BY DEF IInv
<1> QED BY <1>1, Invariance, PTL

\* xrpld.Parse (parse.go:56): the facts are those the file as a whole states, in
\* whatever order its sections stand, and of a file that was refused there are none;
\* for a file of any length.
THEOREM FactsAreAsWritten == Spec => []FactsAsWritten
<1>1. IInv => FactsAsWritten
  BY DEF IInv, ReadSoFar, FactsAsWritten
<1> QED BY <1>1, Invariance, PTL

-----------------------------------------------------------------------------
(* The listeners and the verdicts                                          *)

\* The facts give each key its last value in the text.
LEMMA LastValueIsSaid ==
  ASSUME NEW s, NEW k \in PortKeys
  PROVE  LastValue(s, k) = Said(s, PortKeys)[k]
BY DEF LastValue, Said

\* A listener has the settings the text gives its name.
LEMMA SettingsAsWritten ==
  ASSUME AsWritten, NEW n \in Stanzas, NEW k \in PortKeys
  PROVE  Effective(facts.defaults, facts.ports[n])[k] = Setting(n, k)
<1>1. facts.defaults = Said("server", PortKeys)
  BY DEF AsWritten
<1>2. facts.ports[n] = IF n \in Reserved THEN NoSettings ELSE Said(n, PortKeys)
  BY DEF AsWritten
<1>3. NoSettings[k] = Empty
  BY DEF NoSettings
<1>4. Own(n, k) = facts.ports[n][k]
  BY <1>2, <1>3, LastValueIsSaid DEF Own
<1>5. LastValue("server", k) = facts.defaults[k]
  BY <1>1, LastValueIsSaid
<1>6. Effective(facts.defaults, facts.ports[n])[k] =
        IF facts.ports[n][k] # Empty THEN facts.ports[n][k] ELSE facts.defaults[k]
  BY DEF Effective
<1> QED BY <1>4, <1>5, <1>6, Zenon DEF Setting

\* The listeners of the facts, one by one.
LEMMA ListenersAsWritten ==
  ASSUME AsWritten, facts \in ConfigFacts
  PROVE  /\ DOMAIN Listeners(facts) = DOMAIN facts.names
         /\ \A i \in DOMAIN facts.names :
              /\ facts.names[i] \in Stanzas
              /\ Listeners(facts)[i].ip = Setting(facts.names[i], "ip")
              /\ Listeners(facts)[i].port = Setting(facts.names[i], "port")
              /\ \A token : token # "" =>
                   (HasProtocol(Listeners(facts)[i], token) <=> Serves(facts.names[i], token))
<1>1. DOMAIN Listeners(facts) = DOMAIN facts.names
  BY DEF Listeners
<1>2. ASSUME NEW i \in DOMAIN facts.names
      PROVE  /\ facts.names[i] \in Stanzas
             /\ Listeners(facts)[i].ip = Setting(facts.names[i], "ip")
             /\ Listeners(facts)[i].port = Setting(facts.names[i], "port")
             /\ \A token : token # "" =>
                  (HasProtocol(Listeners(facts)[i], token) <=> Serves(facts.names[i], token))
  <2> DEFINE n == facts.names[i]
             settings == Effective(facts.defaults, facts.ports[n])
  <2>1. n \in Stanzas
    <3>1. facts.names \in Seq(Stanzas)
      BY DEF ConfigFacts
    <3> QED BY <3>1
  <2>2. /\ "ip" \in PortKeys /\ "port" \in PortKeys /\ "protocol" \in PortKeys
    BY DEF PortKeys
  <2>3. /\ settings.ip = Setting(n, "ip") /\ settings.port = Setting(n, "port")
        /\ settings.protocol = Setting(n, "protocol")
    BY <2>1, <2>2, SettingsAsWritten
  <2>4. Listeners(facts)[i] = [name |-> n, ip |-> settings.ip, port |-> settings.port,
                               protocols |-> ProtocolTokens(settings.protocol)]
    BY Zenon DEF Listeners
  <2> HIDE DEF n, settings
  <2>5. ASSUME NEW token, token # ""
        PROVE  HasProtocol(Listeners(facts)[i], token) <=> Serves(n, token)
    <3>1. HasProtocol(Listeners(facts)[i], token) <=> token \in ProtocolTokens(Setting(n, "protocol"))
      BY <2>3, <2>4 DEF HasProtocol
    <3>2. token \in ProtocolTokens(Setting(n, "protocol")) <=> Serves(n, token)
      BY <2>5 DEF ProtocolTokens, Serves
    <3> QED BY <3>1, <3>2
  <2>6. Listeners(facts)[i].ip = Setting(n, "ip") /\ Listeners(facts)[i].port = Setting(n, "port")
    BY <2>3, <2>4
  <2> QED BY <2>1, <2>5, <2>6 DEF n
<1> QED BY <1>1, <1>2

\* What config.peer_port answers to any set of listeners.
LEMMA PeerVerdict ==
  ASSUME NEW config, config.ok, IsFiniteSet(Peers(config.facts))
  PROVE  LET peers == Peers(config.facts)
         IN  /\ PeerPortCheck(config) = "warn" <=> peers = {}
             /\ PeerPortCheck(config) = "pass" <=>
                  \E i \in peers : peers = {i} /\ ValidPort(config.facts.listeners[i].port)
<1> DEFINE peers == Peers(config.facts)
<1>1. /\ Cardinality(peers) \in Nat /\ (Cardinality(peers) = 0 <=> peers = {})
      /\ Cardinality(peers) = 1 <=> \E i : peers = {i}
  BY FS_CardinalityType, FS_EmptySet, FS_Singleton
<1>2. CASE peers = {}
  <2>1. ~(Cardinality(peers) > 1)
    BY <1>1, <1>2
  <2>2. PeerPortCheck(config) = "warn"
    BY <1>2, <2>1, Zenon DEF PeerPortCheck
  <2> QED BY <1>2, <2>2
<1>3. CASE Cardinality(peers) > 1
  <2>1. peers # {} /\ ~\E i : peers = {i}
    BY <1>1, <1>3
  <2>2. PeerPortCheck(config) = "fail"
    BY <1>3, <2>1, Zenon DEF PeerPortCheck
  <2> QED BY <2>1, <2>2
<1>4. CASE Cardinality(peers) = 1
  <2>1. PICK i : peers = {i}
    BY <1>1, <1>4
  <2>2. peers # {} /\ ~(Cardinality(peers) > 1)
    BY <1>4, <2>1
  <2>3. PeerPortCheck(config) = IF \A j \in peers : ValidPort(config.facts.listeners[j].port)
                                THEN "pass" ELSE "fail"
    BY <2>2, Zenon DEF PeerPortCheck
  <2> HIDE DEF peers
  <2> QED BY <2>1, <2>2, <2>3 DEF peers
<1> QED BY <1>1, <1>2, <1>3, <1>4

\* README.md:187, peerPortCheck (config.go:117): of a file that was parsed the verdict
\* on the peer port is the one its text calls for, and of a refused one there is none;
\* for a file of any length and any lines.
THEOREM PeerPortIsJudgedByTheText == Spec => []OnePeerListener
<1>1. IInv => OnePeerListener
  <2> SUFFICES ASSUME IInv PROVE OnePeerListener
    OBVIOUS
  <2> DEFINE verdict == PeerPortCheck(Config)
             usable(i) == ValidPort(PortNumber(Setting(Key(read[i]), "port")))
  <2>1. ASSUME pc = "failed" PROVE verdict = "skip"
    <3>1. ~Config.ok
      BY <2>1 DEF Config
    <3> QED BY <3>1, Zenon DEF PeerPortCheck
  <2>2. ASSUME pc = "parsed"
        PROVE  /\ verdict = "warn" <=> PeerLines = {}
               /\ verdict = "pass" <=> \E l \in PeerLines : PeerLines = {l} /\ usable(l)
    <3> DEFINE peers == Peers(Config.facts)
               port(i) == Config.facts.listeners[i].port
    <3>1. AsWritten /\ facts \in ConfigFacts
      BY <2>2 DEF IInv, ReadSoFar, TypeOK
    <3>2. PICK order \in [DOMAIN facts.names -> Active] :
            /\ \A i, j \in DOMAIN facts.names : i < j => order[i] < order[j]
            /\ \A l \in Active : \E i \in DOMAIN facts.names : order[i] = l
            /\ \A i \in DOMAIN facts.names : facts.names[i] = Key(read[order[i]])
      BY <3>1 DEF AsWritten, InFileOrder
    <3>3. Config.ok /\ Config.facts = Judged(facts)
      BY <2>2 DEF Config
    <3>4. /\ DOMAIN Judged(facts).listeners = DOMAIN facts.names
          /\ \A i \in DOMAIN facts.names :
               /\ Judged(facts).listeners[i].peer <=> HasProtocol(Listeners(facts)[i], "peer")
               /\ Judged(facts).listeners[i].port = PortNumber(Listeners(facts)[i].port)
      BY <3>1, ListenersAsWritten DEF Judged
    <3>5. \A i \in DOMAIN facts.names :
            /\ i \in peers <=> order[i] \in PeerLines
            /\ ValidPort(port(i)) <=> usable(order[i])
      BY <3>1, <3>2, <3>3, <3>4, ListenersAsWritten DEF Peers, PeerLines
    <3>6. peers \subseteq DOMAIN facts.names /\ PeerLines \subseteq Active
      BY <3>3, <3>4 DEF Peers, PeerLines
    <3>7. \A i, j \in DOMAIN facts.names : order[i] = order[j] => i = j
      <4> SUFFICES ASSUME NEW i \in DOMAIN facts.names, NEW j \in DOMAIN facts.names,
                          order[i] = order[j]
                   PROVE  i = j
        OBVIOUS
      <4>1. PICK m \in Nat : DOMAIN facts.names = 1 .. m
        BY <3>1 DEF ConfigFacts
      <4>2. order[i] \in DOMAIN read /\ order[j] \in DOMAIN read
        BY <3>2 DEF Active
      <4>3. PICK k \in Nat : DOMAIN read = 1 .. k
        <5>1. read \in Seq(Lines)
          BY DEF IInv, TypeOK
        <5> QED BY <5>1
      <4>4. i \in Int /\ j \in Int /\ order[i] \in Int
        BY <4>1, <4>2, <4>3
      <4> QED BY <3>2, <4>4
    <3>8. IsFiniteSet(peers)
      <4>1. PICK m \in Nat : DOMAIN facts.names = 1 .. m
        BY <3>1 DEF ConfigFacts
      <4> HIDE DEF peers
      <4> QED BY <3>6, <4>1, FS_Interval, FS_Subset
    <3>9. /\ verdict = "warn" <=> peers = {}
          /\ verdict = "pass" <=> \E i \in peers : peers = {i} /\ ValidPort(port(i))
      BY <3>3, <3>8, PeerVerdict
    <3> HIDE DEF verdict, usable, peers, port
    <3>10. peers = {} <=> PeerLines = {}
      BY <3>2, <3>5, <3>6
    <3>11. (\E i \in peers : peers = {i} /\ ValidPort(port(i)))
            <=> \E l \in PeerLines : PeerLines = {l} /\ usable(l)
      <4>1. ASSUME NEW i \in peers, peers = {i}, ValidPort(port(i))
            PROVE  \E l \in PeerLines : PeerLines = {l} /\ usable(l)
        <5>1. order[i] \in PeerLines /\ usable(order[i])
          BY <3>5, <3>6, <4>1
        <5>2. \A l \in PeerLines : l = order[i]
          BY <3>2, <3>5, <3>6, <4>1
        <5> QED BY <5>1, <5>2
      <4>2. ASSUME NEW l \in PeerLines, PeerLines = {l}, usable(l)
            PROVE  \E i \in peers : peers = {i} /\ ValidPort(port(i))
        <5>1. PICK i \in DOMAIN facts.names : order[i] = l
          BY <3>2, <3>6
        <5>2. i \in peers /\ ValidPort(port(i))
          BY <3>5, <4>2, <5>1
        <5>3. \A j \in peers : j = i
          BY <3>5, <3>6, <3>7, <4>2, <5>1
        <5> QED BY <5>2, <5>3
      <4> QED BY <4>1, <4>2
    <3> QED BY <3>9, <3>10, <3>11
  <2> QED BY <2>1, <2>2, Zenon DEF OnePeerListener
<1> QED BY <1>1, Invariance, PTL

\* What is taken for loopback, of a listener and of gRPC.
LEMMA LoopbackBinds ==
  ASSUME NEW value
  PROVE  /\ ClassifyBind(Bind(value)) = "loopback" <=> IsLoopback(value)
         /\ ClassifyBind(GRPCBind(Bind(value))) = "loopback" <=> value = Empty \/ IsLoopback(value)
<1>1. value = Empty => Len(value) # 1
  BY DEF Empty
<1>2. CASE value = Empty
  <2>1. Bind(value) = ""
    BY <1>1, <1>2, Zenon DEF Bind
  <2> QED BY <1>1, <1>2, <2>1 DEF ClassifyBind, GRPCBind, IsLoopback
<1>3. CASE value # Empty /\ IsLoopback(value)
  <2>1. Bind(value) = "loopback"
    BY <1>3, Zenon DEF Bind, IsLoopback
  <2> QED BY <1>3, <2>1 DEF ClassifyBind, GRPCBind
<1>4. CASE value # Empty /\ ~IsLoopback(value)
  <2>1. CASE Len(value) = 1 /\ value[1] \in Addresses \ Loopback
    <3>1. Bind(value) = "exposed"
      BY <1>4, <2>1, Zenon DEF Bind, IsLoopback
    <3> QED BY <1>4, <3>1 DEF ClassifyBind, GRPCBind
  <2>2. CASE ~(Len(value) = 1 /\ value[1] \in Addresses \ Loopback)
    <3>1. Bind(value) = "unclassified"
      BY <1>4, <2>2, Zenon DEF Bind, IsLoopback
    <3> QED BY <1>4, <3>1 DEF ClassifyBind, GRPCBind
  <2> QED BY <2>1, <2>2
<1> QED BY <1>2, <1>3, <1>4

\* README.md:197, validatorAPIBindCheck (validator.go:110): the API bind passes exactly
\* when the text exposes none of its listeners beyond the host; for a file of any
\* length and any lines.
THEOREM ExposureIsJudgedByTheText == Spec => []ExposureIsReviewed
<1>1. IInv => ExposureIsReviewed
  <2> DEFINE served(i) == \E token \in {"http", "https", "ws", "wss"} : Serves(Key(read[i]), token)
             grpcIP == LastValue("port_grpc", "ip")
             reviewed == /\ \A i \in Active : served(i) => IsLoopback(Setting(Key(read[i]), "ip"))
                         /\ HasHeader("port_grpc") => grpcIP = Empty \/ IsLoopback(grpcIP)
  <2> SUFFICES ASSUME IInv, pc = "parsed" PROVE APIBindCheck(Config) = "pass" <=> reviewed
    BY Zenon DEF ExposureIsReviewed
  <2>1. AsWritten /\ facts \in ConfigFacts
    BY DEF IInv, ReadSoFar, TypeOK
  <2>2. PICK order \in [DOMAIN facts.names -> Active] :
          /\ \A l \in Active : \E i \in DOMAIN facts.names : order[i] = l
          /\ \A i \in DOMAIN facts.names : facts.names[i] = Key(read[order[i]])
    BY <2>1, Zenon DEF AsWritten, InFileOrder
  <2> DEFINE api(i) == Judged(facts).listeners[i].api
             ip(i) == Judged(facts).listeners[i].ip
  <2>3. Config.ok /\ Config.facts = Judged(facts)
    BY DEF Config
  <2>4. APIBindCheck(Config) = "pass" <=> APIBinds(Judged(facts)) \subseteq {"loopback"}
    <3>1. CASE APIBinds(Judged(facts)) \subseteq {"loopback"}
      BY <2>3, <3>1, Zenon DEF APIBindCheck
    <3>2. CASE ~(APIBinds(Judged(facts)) \subseteq {"loopback"})
      <4>1. APIBindCheck(Config) = "warn"
        BY <2>3, <3>2, Zenon DEF APIBindCheck
      <4> QED BY <3>2, <4>1
    <3> QED BY <3>1, <3>2
  <2>5. /\ DOMAIN Judged(facts).listeners = DOMAIN facts.names
        /\ \A i \in DOMAIN facts.names :
             /\ api(i) <=> isAPIListener(Listeners(facts)[i])
             /\ ip(i) = Bind(Listeners(facts)[i].ip)
        /\ Judged(facts).grpc <=> facts.grpcPresent
        /\ Judged(facts).grpcIP = Bind(facts.grpc.ip)
    BY <2>1, ListenersAsWritten DEF Judged, GRPCListener
  <2>6. APIBinds(Judged(facts)) \subseteq {"loopback"} <=>
          /\ \A i \in DOMAIN facts.names : api(i) => ClassifyBind(ip(i)) = "loopback"
          /\ Judged(facts).grpc => ClassifyBind(GRPCBind(Judged(facts).grpcIP)) = "loopback"
    BY <2>5 DEF APIBinds
  <2>7. \A i \in DOMAIN facts.names :
          /\ api(i) <=> served(order[i])
          /\ ClassifyBind(ip(i)) = "loopback" <=> IsLoopback(Setting(Key(read[order[i]]), "ip"))
    <3> TAKE i \in DOMAIN facts.names
    <3>1. \A token \in {"http", "https", "ws", "wss"} :
            HasProtocol(Listeners(facts)[i], token) <=> Serves(Key(read[order[i]]), token)
      BY <2>1, <2>2, ListenersAsWritten
    <3>2. api(i) <=> served(order[i])
      BY <2>5, <3>1 DEF isAPIListener, APIProtocols
    <3>3. Listeners(facts)[i].ip = Setting(Key(read[order[i]]), "ip")
      BY <2>1, <2>2, ListenersAsWritten
    <3>4. ClassifyBind(ip(i)) = "loopback" <=> IsLoopback(Setting(Key(read[order[i]]), "ip"))
      BY <2>5, <3>3, LoopbackBinds
    <3> QED BY <3>2, <3>4
  <2>8. /\ facts.grpcPresent <=> HasHeader("port_grpc")
        /\ facts.grpc.ip = grpcIP
    <3>1. "ip" \in PortKeys
      BY DEF PortKeys
    <3> QED BY <2>1, <3>1, LastValueIsSaid DEF AsWritten
  <2>9. Judged(facts).grpc => (ClassifyBind(GRPCBind(Judged(facts).grpcIP)) = "loopback" <=>
                                 grpcIP = Empty \/ IsLoopback(grpcIP))
    BY <2>5, <2>8, LoopbackBinds
  <2> HIDE DEF served, grpcIP, api, ip
  <2>10. (\A i \in DOMAIN facts.names : api(i) => ClassifyBind(ip(i)) = "loopback") <=>
           \A l \in Active : served(l) => IsLoopback(Setting(Key(read[l]), "ip"))
    BY <2>2, <2>7
  <2> QED BY <2>4, <2>5, <2>6, <2>8, <2>9, <2>10
<1> QED BY <1>1, Invariance, PTL

=============================================================================
